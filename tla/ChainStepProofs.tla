------------------------- MODULE ChainStepProofs -------------------------
(***************************************************************************)
(* Chain, for every tree of blocks: what connecting and disconnecting a    *)
(* block and tryAcceptBlock do to the inductive invariant; and that every  *)
(* other step of ProcessBlock, and of what runs beside it, keeps its core. *)
(***************************************************************************)
EXTENDS Chain, TLAPS

\* addOrphanBlock: the list of children stays a list of blocks.
LEMMA AppendOK ==
  ASSUME NEW S, NEW s \in Seq(S), NEW e \in S
  PROVE  Append(s, e) \in Seq(S)
OBVIOUS

\* The chain of a block is that of its parent and the block on top of it.
LEMMA ChainParent ==
  ASSUME NEW b \in Block \ {Genesis}
  PROVE  /\ Parent[b] \in Block
         /\ Height[b] \in Nat /\ Height[Parent[b]] \in Nat
         /\ Height[b] = Height[Parent[b]] + 1
         /\ ChainOf(b) = ChainOf(Parent[b]) \cup {b}
         /\ b \notin ChainOf(Parent[b])
<1>1. Height[b] \in Nat /\ Parent[b] \in Block /\ Height[Parent[b]] \in Nat
      /\ Height[b] = Height[Parent[b]] + 1
  BY TreeAssumption DEF Heights
<1>2. \A h \in 0..Height[Parent[b]] : Anc(b, h) = Anc(Parent[b], h)
  BY <1>1, TreeAssumption
<1>3. 0..Height[b] = 0..Height[Parent[b]] \cup {Height[b]}
  BY <1>1
<1>4. Anc(b, Height[b]) = b
  BY TreeAssumption
<1>5. ChainOf(b) = ChainOf(Parent[b]) \cup {b}
  BY <1>2, <1>3, <1>4 DEF ChainOf
<1>6. \A c \in ChainOf(Parent[b]) : Height[c] <= Height[Parent[b]]
  BY <1>1, TreeAssumption DEF ChainOf
<1> QED  BY <1>1, <1>5, <1>6

\* The ancestor of t just above height h is a child of the one at h.
LEMMA AncNext ==
  ASSUME NEW t \in Block, NEW h \in Nat, h < Height[t]
  PROVE  /\ Anc(t, h + 1) \in Block \ {Genesis}
         /\ Height[Anc(t, h + 1)] = h + 1
         /\ Parent[Anc(t, h + 1)] = Anc(t, h)
         /\ (Anc(t, h + 1) = t) <=> (h + 1 = Height[t])
<1> DEFINE b == Anc(t, h + 1)
<1>1. Height[t] \in Nat /\ h \in 0..Height[t] /\ h + 1 \in 0..Height[t]
  BY TreeAssumption DEF Heights
<1>2. b \in Block /\ Height[b] = h + 1 /\ Anc(b, h) = Anc(t, h)
  BY <1>1, TreeAssumption
<1>3. b # Genesis
  BY <1>2, TreeAssumption
<1>4. h \in 0..Height[b] /\ Anc(b, h) = Anc(Parent[b], h) /\ Height[Parent[b]] = h
  BY <1>2, <1>3, TreeAssumption, ChainParent
<1>5. Parent[b] \in Block /\ Anc(Parent[b], h) = Parent[b]
  BY <1>2, <1>3, <1>4, ChainParent, TreeAssumption
<1>6. (b = t) <=> (h + 1 = Height[t])
  BY <1>2, TreeAssumption
<1> QED  BY <1>2, <1>3, <1>4, <1>5, <1>6

\* Genesis is part of every chain, and every block is part of its own.
LEMMA ChainEnds ==
  ASSUME NEW b \in Block
  PROVE  b \in ChainOf(b) /\ Genesis \in ChainOf(b) /\ ChainOf(b) \subseteq Block
         /\ Height[b] \in Nat /\ Height[b] \in Heights
<1>1. Height[b] \in Nat /\ 0 \in 0..Height[b] /\ Height[b] \in 0..Height[b]
  BY TreeAssumption DEF Heights
<1>2. Anc(b, 0) = Genesis
  BY <1>1, TreeAssumption
<1>3. Anc(b, Height[b]) = b
  BY TreeAssumption
<1>4. \A h \in 0..Height[b] : Anc(b, h) \in Block
  BY TreeAssumption
<1> QED  BY <1>1, <1>2, <1>3, <1>4, TreeAssumption DEF ChainOf

-----------------------------------------------------------------------------
(* The inductive invariant, by the groups of variables that actions change. *)

ChainType ==
  /\ tail \in Block
  /\ index \in [Heights -> Block \cup {None}]
  /\ stored \subseteq Block /\ blockcache \subseteq Block
  /\ mint \in [Stamps -> Block \cup {None}]
  /\ execResult \in [Heights -> Block \cup {None}]

PoolType ==
  /\ orphans \subseteq Block
  /\ children \in [Block -> Seq(Block \ {Genesis})]

ControlType ==
  /\ pc \in {"idle", "orphans", "detach", "attach", "undo", "redo"} \cup Panics
  /\ from \in {"none", "peer", "sync", "local"}
  /\ frame \in {"none", "top", "side"}
  /\ queue \in Seq(Block) /\ kids \in Seq(Block \ {Genesis})
  /\ target \in Block \cup {None} /\ old \in Block \cup {None}
  /\ fork \in Heights
  /\ result \in Results

OtherType ==
  /\ eternal \in Block
  /\ pend \in [Finalizer -> Block \cup {None}]
  /\ minting \in Own \cup {None} /\ produced \subseteq Own
  /\ crashes \in 0..MaxCrashes

CoreInv == ChainType /\ PoolType /\ ControlType /\ Storage /\ ReorgOK

Inv == CoreInv /\ OtherType

\* The type invariant, split by the variables an operation touches.
LEMMA TypeSplit == TypeOK <=> ChainType /\ PoolType /\ ControlType /\ OtherType
BY Zenon DEF TypeOK, ChainType, PoolType, ControlType, OtherType

\* Connecting a child of the tail keeps the database and the cache in order.
LEMMA ConnectStep ==
  ASSUME ChainType, Storage, NEW b \in Block \ {Genesis}, NEW f,
         Parent[b] = tail, Connect(b, f)
  PROVE  ChainType' /\ Storage' /\ tail' = b
<1>1. tail' = b /\ stored' = stored \cup {b} /\ blockcache' = blockcache \cup {b}
      /\ index' = [index EXCEPT ![Height[b]] = b]
  BY DEF Connect, ChangeNewTail
<1>2. Height[b] \in Heights /\ Height[tail] \in Heights /\ Height[b] = Height[tail] + 1
      /\ Height[b] \in Nat /\ Height[tail] \in Nat
  BY ChainParent, ChainEnds DEF ChainType
<1>3. ChainType'
  <2>1. mint' \in [Stamps -> Block \cup {None}]
    BY Zenon DEF ChainType, Connect, ChangeNewTail
  <2>2. execResult' \in [Heights -> Block \cup {None}]
    BY Zenon DEF ChainType, Connect
  <2> QED  BY Zenon, <1>1, <2>1, <2>2 DEF ChainType
<1>4. ChainOf(b) = ChainOf(tail) \cup {b}
  BY ChainParent
<1>5. MainChainStored' /\ CacheOnMainChain'
  BY <1>1, <1>4 DEF Storage, MainChainStored, CacheOnMainChain, MainChain, ChainOf
<1>6. IndexOnMainChain'
  <2> SUFFICES ASSUME NEW h \in Heights, index'[h] # None
               PROVE  h <= Height[b] /\ index'[h] = Anc(b, h)
    BY <1>1 DEF IndexOnMainChain
  <2>1. CASE h = Height[b]
    BY <2>1, <1>1, <1>2, TreeAssumption DEF ChainType
  <2>2. CASE h # Height[b]
    <3>1. index[h] # None /\ index'[h] = index[h]
      BY <2>2, <1>1 DEF ChainType
    <3>2. h <= Height[tail] /\ index[h] = Anc(tail, h)
      BY <3>1 DEF Storage, IndexOnMainChain
    <3>3. h \in 0..Height[b] /\ h < Height[b]
      BY <3>2, <1>2 DEF Heights
    <3> QED  BY <3>1, <3>2, <3>3, <1>2, TreeAssumption
  <2> QED  BY <2>1, <2>2
<1> QED  BY <1>1, <1>3, <1>5, <1>6 DEF Storage

\* Disconnecting the tail does, too.
LEMMA DisconnectStep ==
  ASSUME ChainType, Storage, tail # Genesis, Disconnect
  PROVE  ChainType' /\ Storage' /\ tail' = Parent[tail]
<1> DEFINE p == Parent[tail]
<1>1. tail' = p /\ stored' = stored /\ blockcache' = blockcache \ {tail}
      /\ index' = [index EXCEPT ![Height[tail]] = None]
  BY DEF Disconnect, ChangeNewTail
<1>2. p \in Block /\ Height[tail] \in Heights /\ Height[p] \in Heights
      /\ Height[tail] = Height[p] + 1 /\ Height[tail] \in Nat /\ Height[p] \in Nat
  BY ChainParent, ChainEnds DEF ChainType
<1>3. ChainType'
  <2>1. mint' \in [Stamps -> Block \cup {None}]
    BY Zenon, <1>2 DEF ChainType, Disconnect, ChangeNewTail
  <2>2. execResult' \in [Heights -> Block \cup {None}]
    BY DEF ChainType, Disconnect
  <2> QED  BY Zenon, <1>1, <1>2, <2>1, <2>2 DEF ChainType
<1>4. ChainOf(tail) = ChainOf(p) \cup {tail} /\ tail \notin ChainOf(p)
  BY ChainParent DEF ChainType
<1>5. MainChainStored' /\ CacheOnMainChain'
  BY Zenon, <1>1, <1>4 DEF Storage, MainChainStored, CacheOnMainChain, MainChain, ChainOf
<1>6. IndexOnMainChain'
  <2> SUFFICES ASSUME NEW h \in Heights, index'[h] # None
               PROVE  h <= Height[p] /\ index'[h] = Anc(p, h)
    BY <1>1 DEF IndexOnMainChain
  <2>1. h # Height[tail] /\ index'[h] = index[h]
    BY <1>1, <1>2 DEF ChainType
  <2>2. h <= Height[tail] /\ index[h] = Anc(tail, h)
    BY <2>1 DEF Storage, IndexOnMainChain
  <2>3. h \in 0..Height[tail] /\ h < Height[tail] /\ h <= Height[p]
    BY <2>1, <2>2, <1>2 DEF Heights
  <2> QED  BY <2>1, <2>2, <2>3, TreeAssumption DEF ChainType
<1> QED  BY <1>1, <1>3, <1>5, <1>6 DEF Storage

-----------------------------------------------------------------------------
(* tryAcceptBlock.                                                         *)

\* A fork point splits off a branch that is not on the main chain.
LEMMA ForkStep ==
  ASSUME ChainType, NEW b \in Block, NEW k, IsFork(b, k)
  PROVE  /\ k \in Nat /\ k <= Height[tail] /\ k < Height[b] /\ k \in Heights
         /\ Anc(b, k) = Anc(tail, k)
         /\ Branch(b, k) \cap ChainOf(tail) = {}
         /\ Branch(b, k) \subseteq Block \ {Genesis}
<1>1. Height[tail] \in Nat /\ Height[b] \in Nat /\ MaxHeight \in Nat
      /\ Height[tail] <= MaxHeight
  BY TreeAssumption DEF ChainType, Heights
<1>2. k \in Nat /\ k <= Height[tail] /\ k < Height[b] /\ k \in Heights
      /\ Anc(b, k) = Anc(tail, k)
  BY <1>1 DEF IsFork, Heights
<1>3. ASSUME NEW c \in Branch(b, k)
      PROVE  c \in Block /\ Height[c] \in (k + 1)..Height[b] /\ c = Anc(b, Height[c])
  <2>1. PICK h \in (k + 1)..Height[b] : c = Anc(b, h)
    BY DEF Branch
  <2>2. h \in 0..Height[b]
    BY <1>1, <1>2
  <2> QED  BY <2>1, <2>2, TreeAssumption
<1>4. ASSUME NEW c \in ChainOf(tail)
      PROVE  Height[c] \in 0..Height[tail] /\ c = Anc(tail, Height[c])
  BY TreeAssumption DEF ChainOf, ChainType
<1>5. Branch(b, k) \cap ChainOf(tail) = {}
  <2> SUFFICES ASSUME NEW c \in Branch(b, k), c \in ChainOf(tail)
               PROVE  FALSE
    OBVIOUS
  <2>1. Height[c] \in (k + 1)..Height[tail] /\ Height[c] <= Height[b]
    BY <1>1, <1>2, <1>3, <1>4
  <2> QED  BY <2>1, <1>3, <1>4 DEF IsFork
<1>6. Branch(b, k) \subseteq Block \ {Genesis}
  BY <1>1, <1>2, <1>3, TreeAssumption
<1> QED  BY <1>2, <1>5, <1>6

\* The types of what Accepted sets.
LEMMA AcceptedStep ==
  ASSUME ControlType, PoolType', NEW b \in Block, NEW f \in {"peer", "sync", "local"},
         NEW rest \in Seq(Block \ {Genesis}), Accepted(b, f, rest)
  PROVE  ControlType' /\ ReorgOK'
<1>1. ControlType'
  <2>1. 0 \in Heights
    BY TreeAssumption DEF Heights
  <2>2. kids' \in Seq(Block \ {Genesis})
    BY DEF ControlType, PoolType, Accepted
  <2>3. queue' \in Seq(Block)
    BY DEF ControlType, Accepted
  <2> QED  BY <2>1, <2>2, <2>3 DEF ControlType, Accepted
<1>2. queue' # <<>>
  BY DEF ControlType, Accepted
<1>3. pc' = "orphans" /\ from' # "none"
  BY DEF Accepted
<1> QED  BY <1>1, <1>2, <1>3 DEF ReorgOK

\* Returning an error leaves the chain as it is.
LEMMA ResetStep ==
  ASSUME NEW r \in Results, ResetControl(r)
  PROVE  ControlType' /\ ReorgOK'
<1>1. 0 \in Heights
  BY TreeAssumption DEF Heights
<1>2. ControlType'
  BY <1>1 DEF ResetControl, ControlType
<1>3. pc' = "idle"
  BY DEF ResetControl
<1> QED  BY <1>2, <1>3 DEF ReorgOK

\* What is left of the storage invariants when only stored changes.
LEMMA StoredStep ==
  ASSUME ChainType, Storage, UNCHANGED <<tail, index, blockcache, mint, execResult>>,
         stored' \subseteq Block, ChainOf(tail) \subseteq stored'
  PROVE  ChainType' /\ Storage'
BY DEF ChainType, Storage, MainChainStored, CacheOnMainChain, IndexOnMainChain,
       MainChain, ChainOf

\* reorganize up to its loops.
LEMMA ReorganizeStep ==
  ASSUME CoreInv, NEW b \in Block \ {Genesis}, NEW f \in {"peer", "sync", "local"},
         NEW rest \in Seq(Block \ {Genesis}), NEW pool \in SUBSET Block,
         Outgrows(b), Reorganize(b, f, rest, pool)
  PROVE  CoreInv'
<1>0. ChainType /\ PoolType /\ ControlType /\ Storage /\ ReorgOK
  BY DEF CoreInv
<1>1. PICK k \in Heights :
        /\ IsFork(b, k)
        /\ \/ /\ Panic("forkNotFound", f)
              /\ orphans' = pool /\ UNCHANGED children
           \/ /\ BelowEternal(k)
              /\ stored' = stored \ Branch(b, k)
              /\ orphans' = pool \ Branch(b, k)
              /\ children' = [c \in Block |->
                                IF c \in Branch(b, k) THEN <<>> ELSE children[c]]
              /\ Accepted(b, f, rest)
              /\ UNCHANGED <<tail, index, blockcache, mint, execResult>>
           \/ /\ ~BelowEternal(k)
              /\ pc' = IF k = Height[tail] THEN "attach" ELSE "detach"
              /\ target' = b /\ fork' = k /\ old' = tail
              /\ from' = f /\ kids' = rest
              /\ orphans' = pool
              /\ UNCHANGED <<frame, queue, result, chainVars, children>>
  BY Zenon DEF Reorganize
<1>2. /\ k \in Nat /\ k <= Height[tail] /\ k < Height[b]
      /\ Anc(b, k) = Anc(tail, k)
      /\ Branch(b, k) \cap ChainOf(tail) = {}
  BY <1>0, <1>1, ForkStep
<1>3. CASE Panic("forkNotFound", f) /\ orphans' = pool /\ UNCHANGED children
  <2>1. ChainType' /\ Storage'
    BY <1>0, <1>3 DEF Panic, chainVars, ChainType, Storage, MainChainStored,
          CacheOnMainChain, IndexOnMainChain, MainChain, ChainOf
  <2>2. PoolType'
    BY <1>0, <1>3 DEF PoolType
  <2>3. ControlType'
    BY <1>0, <1>3 DEF ControlType, Panic, Panics, reorgVars
  <2>4. ReorgOK'
    BY <1>3 DEF ReorgOK, Panic
  <2> QED  BY <2>1, <2>2, <2>3, <2>4 DEF CoreInv
<1>4. CASE /\ stored' = stored \ Branch(b, k)
           /\ orphans' = pool \ Branch(b, k)
           /\ children' = [c \in Block |->
                             IF c \in Branch(b, k) THEN <<>> ELSE children[c]]
           /\ Accepted(b, f, rest)
           /\ UNCHANGED <<tail, index, blockcache, mint, execResult>>
  <2>1. stored' \subseteq Block /\ ChainOf(tail) \subseteq stored'
    BY ZenonT(60), <1>0, <1>2, <1>4 DEF ChainType, Storage, MainChainStored, MainChain
  <2>2. ChainType' /\ Storage'
    BY <1>0, <1>4, <2>1, StoredStep
  <2>3. PoolType'
    BY <1>0, <1>4 DEF PoolType
  <2>4. ControlType' /\ ReorgOK'
    BY ZenonT(60), <1>0, <1>4, <2>3, AcceptedStep
  <2> QED  BY ZenonT(60), <2>2, <2>3, <2>4 DEF CoreInv
<1>5. CASE /\ pc' = IF k = Height[tail] THEN "attach" ELSE "detach"
           /\ target' = b /\ fork' = k /\ old' = tail
           /\ from' = f /\ kids' = rest
           /\ orphans' = pool
           /\ UNCHANGED <<frame, queue, result, chainVars, children>>
  <2>1. ChainType' /\ Storage'
    BY ZenonT(60), <1>0, <1>5 DEF chainVars, ChainType, Storage, MainChainStored,
          CacheOnMainChain, IndexOnMainChain, MainChain, ChainOf
  <2>2. PoolType'
    BY ZenonT(60), <1>0, <1>5 DEF PoolType
  <2>3. ControlType'
    BY ZenonT(60), <1>0, <1>5 DEF ControlType, ChainType
  <2>4. tail' = tail /\ tail \in Block /\ Height[tail] \in Nat /\ Height[b] \in Nat
        /\ Anc(tail, Height[tail]) = tail
    BY <1>0, <1>5, TreeAssumption, ChainEnds DEF chainVars, ChainType
  <2>5. ReorgOK'
    BY SMTT(60), <1>2, <1>5, <2>4 DEF ReorgOK, Outgrows, LongestChainHeight
  <2> QED  BY <2>1, <2>2, <2>3, <2>5 DEF CoreInv
<1> QED  BY ZenonT(60), <1>1, <1>3, <1>4, <1>5

\* tryAcceptBlock.
LEMMA TryAcceptStep ==
  ASSUME CoreInv, NEW b \in Block \ {Genesis}, NEW f \in {"peer", "sync", "local"},
         NEW rest \in Seq(Block \ {Genesis}), NEW pool \in SUBSET Block,
         TryAccept(b, f, rest, pool)
  PROVE  CoreInv'
<1>0. ChainType /\ PoolType /\ ControlType /\ Storage /\ ReorgOK
  BY DEF CoreInv
<1>1. CASE /\ Failed(AcceptError(b, f))
           /\ orphans' = pool /\ UNCHANGED <<chainVars, children>>
  <2>1. AcceptError(b, f) \in Results
    BY DEF AcceptError, Results
  <2>2. ControlType' /\ ReorgOK'
    BY <1>1, <2>1, ResetStep DEF Failed
  <2>3. ChainType' /\ Storage'
    BY <1>0, <1>1 DEF chainVars, ChainType, Storage, MainChainStored,
          CacheOnMainChain, IndexOnMainChain, MainChain, ChainOf
  <2> QED  BY ZenonT(60), <1>0, <1>1, <2>2, <2>3 DEF CoreInv, PoolType
<1>2. CASE /\ Parent[b] = tail
           /\ Connect(b, f)
           /\ orphans' = pool /\ UNCHANGED children
           /\ Accepted(b, f, rest)
  <2>1. ChainType' /\ Storage'
    BY <1>0, <1>2, ConnectStep
  <2>2. PoolType'
    BY <1>0, <1>2 DEF PoolType
  <2> QED  BY <1>0, <1>2, <2>1, <2>2, AcceptedStep DEF CoreInv
<1>3. CASE /\ stored' = stored \cup {b}
           /\ orphans' = pool
           /\ pc' = "orphans" /\ from' = f /\ frame' = "side"
           /\ queue' = <<b>> /\ kids' = children[b]
           /\ UNCHANGED <<tail, index, blockcache, mint, execResult, children,
                          reorgVars, result>>
  <2>1. stored' \subseteq Block /\ ChainOf(tail) \subseteq stored'
    BY <1>0, <1>3 DEF ChainType, Storage, MainChainStored, MainChain
  <2>2. ChainType' /\ Storage'
    BY <1>0, <1>3, <2>1, StoredStep
  <2>3. PoolType'
    BY <1>0, <1>3 DEF PoolType
  <2>4. ControlType' /\ queue' # <<>>
    BY <1>0, <1>3 DEF ControlType, PoolType, reorgVars
  <2>5. ReorgOK'
    BY <1>3, <2>4 DEF ReorgOK
  <2> QED  BY <2>2, <2>3, <2>4, <2>5 DEF CoreInv
<1>4. CASE Outgrows(b) /\ Reorganize(b, f, rest, pool)
  BY Zenon, <1>4, ReorganizeStep
<1> QED  BY ZenonT(60), <1>1, <1>2, <1>3, <1>4 DEF TryAccept

-----------------------------------------------------------------------------
(* The steps of the goroutine that holds chainLock.                        *)

\* An unchanged chain stays in order.
LEMMA SameChain ==
  ASSUME ChainType, Storage, UNCHANGED chainVars
  PROVE  ChainType' /\ Storage' /\ tail' = tail
BY DEF chainVars, ChainType, Storage, MainChainStored, CacheOnMainChain,
       IndexOnMainChain, MainChain, ChainOf

\* ProcessBlock, for a block from a peer, from a sync or from the miner.
LEMMA ProcessBlockStep ==
  ASSUME CoreInv, NEW b \in Block, NEW f \in {"peer", "sync", "local"},
         ProcessBlock(b, f)
  PROVE  CoreInv'
<1>0. ChainType /\ PoolType /\ ControlType /\ Storage /\ ReorgOK /\ pc = "idle"
  BY DEF CoreInv, ProcessBlock
<1>1. CASE /\ ProcessError(b) # "none"
           /\ result' = ProcessError(b)
           /\ UNCHANGED <<chainVars, poolVars, pc, frameVars, reorgVars>>
  <2>1. ChainType' /\ Storage'
    BY <1>0, <1>1, SameChain
  <2>2. ProcessError(b) \in Results
    BY DEF ProcessError, Results
  <2>3. ControlType' /\ PoolType'
    BY ZenonT(60), <1>0, <1>1, <2>2 DEF ControlType, PoolType, poolVars, frameVars, reorgVars
  <2>4. ReorgOK'
    BY <1>0, <1>1 DEF ReorgOK
  <2> QED  BY <2>1, <2>3, <2>4 DEF CoreInv
<1>2. ProcessError(b) = "none" => b # Genesis
  <2>1. Genesis \in stored
    BY <1>0, ChainEnds DEF Storage, MainChainStored, MainChain, ChainType
  <2> QED  BY <2>1 DEF ProcessError, blockExists
<1>3. CASE ProcessError(b) = "none" /\ AddOrphan(b, f)
  <2>1. ChainType' /\ Storage'
    BY <1>0, <1>3, SameChain DEF AddOrphan
  <2>2. result' \in Results
    BY <1>3 DEF AddOrphan, OrphanResult, Results
  <2>3. ControlType'
    BY <1>0, <1>3, <2>2 DEF ControlType, AddOrphan, frameVars, reorgVars
  <2>4. PoolType'
    <3>1. CASE b \in orphans
      BY <1>0, <1>3, <3>1 DEF PoolType, AddOrphan, poolVars
    <3>2. CASE b \notin orphans
      <4>1. orphans' \subseteq Block
        BY <1>0, <1>3, <3>2 DEF PoolType, AddOrphan
      <4>2. b \in Block \ {Genesis} /\ Parent[b] \in Block
        BY <1>2, <1>3, TreeAssumption
      <4>3. children' = [children EXCEPT ![Parent[b]] = Append(children[Parent[b]], b)]
        BY <1>3, <3>2 DEF AddOrphan
      <4>4. Append(children[Parent[b]], b) \in Seq(Block \ {Genesis})
        <5>1. children[Parent[b]] \in Seq(Block \ {Genesis})
          BY Zenon, <1>0, <4>2 DEF PoolType
        <5> QED  BY Zenon, <4>2, <5>1, AppendOK
      <4> QED  BY ZenonT(60), <1>0, <4>1, <4>2, <4>3, <4>4 DEF PoolType
    <3> QED  BY Zenon, <3>1, <3>2
  <2>5. ReorgOK'
    BY ZenonT(60), <1>0, <1>3 DEF ReorgOK, AddOrphan
  <2> QED  BY <2>1, <2>3, <2>4, <2>5 DEF CoreInv
<1>4. CASE ProcessError(b) = "none" /\ TryAccept(b, f, <<>>, orphans)
  <2>1. <<>> \in Seq(Block \ {Genesis}) /\ orphans \in SUBSET Block
    BY <1>0 DEF PoolType
  <2> QED  BY Zenon, <1>2, <1>4, <2>1, TryAcceptStep
<1> QED  BY <1>1, <1>3, <1>4 DEF ProcessBlock

\* processOrphans, one orphan.
LEMMA TakeOrphanStep ==
  ASSUME CoreInv, TakeOrphan
  PROVE  CoreInv'
<1>1. /\ Head(kids) \in Block \ {Genesis} /\ Tail(kids) \in Seq(Block \ {Genesis})
      /\ orphans \ {Head(kids)} \in SUBSET Block
      /\ from \in {"peer", "sync", "local"}
  BY DEF CoreInv, ControlType, PoolType, TakeOrphan, ReorgOK
<1>2. TryAccept(Head(kids), from, Tail(kids), orphans \ {Head(kids)})
  BY DEF TakeOrphan
<1> QED  BY Zenon, <1>1, <1>2, TryAcceptStep

\* processOrphans, on to the next accepted block or back to the caller.
LEMMA NextAcceptedStep ==
  ASSUME CoreInv, NextAccepted
  PROVE  CoreInv'
<1>0. ChainType /\ PoolType /\ ControlType /\ Storage /\ ReorgOK /\ pc = "orphans"
      /\ UNCHANGED chainVars /\ UNCHANGED orphans
      /\ children' = [children EXCEPT ![Head(queue)] = <<>>]
  BY DEF CoreInv, NextAccepted
<1>1. ChainType' /\ Storage'
  BY ZenonT(60), <1>0, SameChain
<1>2. Head(queue) \in Block /\ Tail(queue) \in Seq(Block)
  BY <1>0 DEF ControlType, ReorgOK
<1>3. PoolType'
  BY <1>0, <1>2 DEF PoolType
<1>4. CASE Tail(queue) # <<>>
  <2>1. Head(Tail(queue)) \in Block
    BY <1>2, <1>4
  <2>2. /\ queue' = Tail(queue)
        /\ kids' = children'[Head(Tail(queue))]
        /\ UNCHANGED <<pc, from, frame, reorgVars, result>>
    BY <1>4 DEF NextAccepted
  <2>3. ControlType'
    BY Zenon, <1>0, <1>2, <1>3, <2>1, <2>2 DEF ControlType, PoolType, reorgVars
  <2>4. ReorgOK'
    BY ZenonT(60), <1>0, <1>4, <2>2 DEF ReorgOK
  <2> QED  BY <1>1, <1>3, <2>3, <2>4 DEF CoreInv
<1>5. CASE Tail(queue) = <<>>
  <2>1. ResetControl(IF frame = "side" THEN "ErrBlockInSideChain" ELSE "ok")
    BY <1>5 DEF NextAccepted
  <2>2. (IF frame = "side" THEN "ErrBlockInSideChain" ELSE "ok") \in Results
    BY DEF Results
  <2> QED  BY ZenonT(60), <1>1, <1>3, <2>1, <2>2, ResetStep DEF CoreInv
<1> QED  BY <1>4, <1>5

\* reorganize, the loop that detaches the old blocks.
LEMMA DetachStep ==
  ASSUME CoreInv, Detach
  PROVE  CoreInv'
<1>0. ChainType /\ PoolType /\ ControlType /\ Storage /\ ReorgOK /\ pc = "detach"
      /\ Disconnect /\ UNCHANGED <<poolVars, frameVars, reorgVars, result>>
      /\ pc' = IF Height[tail] = fork + 1 THEN "attach" ELSE "detach"
  BY ZenonT(60) DEF CoreInv, Detach
<1>1. /\ target \in Block /\ old \in Block /\ tail \in Block /\ from # "none"
      /\ fork \in Nat /\ Height[old] \in Nat /\ Height[target] \in Nat
      /\ Height[tail] \in Nat /\ fork < Height[tail] /\ Height[tail] <= Height[old]
      /\ Height[old] < Height[target]
      /\ Anc(target, fork) = Anc(old, fork) /\ tail = Anc(old, Height[tail])
  BY <1>0, ChainEnds DEF ReorgOK, ControlType, ChainType, Heights
<1>2. tail # Genesis
  BY <1>1, TreeAssumption
<1>3. ChainType' /\ Storage' /\ tail' = Parent[tail]
  BY <1>0, <1>2, DisconnectStep
<1>4. /\ Height[tail] - 1 \in Nat /\ Height[tail] - 1 < Height[old]
      /\ Height[tail] = (Height[tail] - 1) + 1
  BY <1>1
<1>5. Parent[tail] = Anc(old, Height[tail] - 1)
  BY <1>1, <1>4, AncNext
<1>6. Height[Parent[tail]] = Height[tail] - 1
  BY <1>1, <1>2, ChainParent
<1>7. ControlType' /\ PoolType'
  BY ZenonT(60), <1>0 DEF ControlType, PoolType, poolVars, frameVars, reorgVars
<1>8. ReorgOK'
  BY <1>0, <1>1, <1>3, <1>5, <1>6 DEF ReorgOK, frameVars, reorgVars
<1> QED  BY ZenonT(60), <1>3, <1>7, <1>8 DEF CoreInv

\* Back at the fork point, with the chain in order.
LEMMA ReattachStep ==
  ASSUME ControlType, Reattach,
         target \in Block, old \in Block, from # "none",
         fork \in Nat, Height[old] \in Nat, Height[old] < Height[target],
         Anc(target, fork) = Anc(old, fork), fork <= Height[old],
         Height[tail'] = fork, tail' = Anc(old, fork)
  PROVE  ControlType' /\ ReorgOK'
<1>1. CASE Height[old] = fork
  <2>1. ResetControl("ErrConnect") /\ "ErrConnect" \in Results
    BY <1>1 DEF Reattach, Failed, Results
  <2> QED  BY <2>1, ResetStep
<1>2. CASE Height[old] # fork
  <2>1. pc' = "redo" /\ UNCHANGED <<frameVars, reorgVars, result>>
    BY <1>2 DEF Reattach
  <2>2. ControlType'
    BY ZenonT(60), <2>1 DEF ControlType, frameVars, reorgVars
  <2>3. ReorgOK'
    BY <1>2, <2>1 DEF ReorgOK, frameVars, reorgVars
  <2> QED  BY <2>2, <2>3
<1> QED  BY <1>1, <1>2

\* reorganize, the loop that attaches the new blocks.
LEMMA AttachStep ==
  ASSUME CoreInv, Attach
  PROVE  CoreInv'
<1> DEFINE b == Anc(target, Height[tail] + 1)
<1>0. ChainType /\ PoolType /\ ControlType /\ Storage /\ ReorgOK /\ pc = "attach"
      /\ UNCHANGED poolVars
  BY Zenon DEF CoreInv, Attach
<1>1. /\ target \in Block /\ old \in Block /\ tail \in Block /\ from # "none"
      /\ fork \in Nat /\ Height[old] \in Nat /\ Height[target] \in Nat
      /\ Height[tail] \in Nat /\ fork <= Height[tail] /\ Height[tail] < Height[target]
      /\ fork <= Height[old] /\ Height[old] < Height[target]
      /\ Anc(target, fork) = Anc(old, fork) /\ tail = Anc(target, Height[tail])
  BY <1>0, ChainEnds DEF ReorgOK, ControlType, ChainType, Heights
<1>2. /\ b \in Block \ {Genesis} /\ Height[b] = Height[tail] + 1 /\ Parent[b] = tail
      /\ (b = target) <=> (Height[tail] + 1 = Height[target])
  BY <1>1, AncNext
<1>3. PoolType'
  BY <1>0 DEF PoolType, poolVars
<1>4. CASE /\ Connect(b, from)
           /\ IF b = target
                THEN Accepted(b, from, kids)
                ELSE UNCHANGED <<pc, frameVars, reorgVars, result>>
  <2>1. ChainType' /\ Storage' /\ tail' = b
    BY Zenon, <1>0, <1>2, <1>4, ConnectStep
  <2>2. from \in {"peer", "sync", "local"} /\ kids \in Seq(Block \ {Genesis})
    BY Zenon, <1>0, <1>1 DEF ControlType
  <2>3. CASE b = target
    BY Zenon, <1>0, <1>2, <1>3, <1>4, <2>1, <2>2, <2>3, AcceptedStep DEF CoreInv
  <2>4. CASE b # target
    <3>1. UNCHANGED <<pc, frameVars, reorgVars, result>>
      BY <1>4, <2>4
    <3>2. ControlType'
      BY ZenonT(60), <1>0, <3>1 DEF ControlType, frameVars, reorgVars
    <3>3. ReorgOK'
      BY <1>0, <1>1, <1>2, <2>1, <2>4, <3>1 DEF ReorgOK, frameVars, reorgVars
    <3> QED  BY <1>3, <2>1, <3>2, <3>3 DEF CoreInv
  <2> QED  BY Zenon, <2>3, <2>4
<1>5. CASE /\ IF Height[tail] > fork
                THEN pc' = "undo" /\ UNCHANGED <<frameVars, reorgVars, result>>
                ELSE Reattach
           /\ UNCHANGED chainVars
  <2>1. ChainType' /\ Storage' /\ tail' = tail
    BY <1>0, <1>5, SameChain
  <2>2. CASE Height[tail] > fork
    <3>1. pc' = "undo" /\ UNCHANGED <<frameVars, reorgVars, result>>
      BY <1>5, <2>2
    <3>2. ControlType'
      BY ZenonT(60), <1>0, <3>1 DEF ControlType, frameVars, reorgVars
    <3>3. ReorgOK'
      BY <1>1, <2>1, <2>2, <3>1 DEF ReorgOK, frameVars, reorgVars
    <3> QED  BY <1>3, <2>1, <3>2, <3>3 DEF CoreInv
  <2>3. CASE ~(Height[tail] > fork)
    <3>1. Height[tail] = fork /\ tail = Anc(old, fork)
      BY <1>1, <2>3
    <3>2. ControlType' /\ ReorgOK'
      BY <1>0, <1>1, <1>5, <2>1, <2>3, <3>1, ReattachStep
    <3> QED  BY <1>3, <2>1, <3>2 DEF CoreInv
  <2> QED  BY <2>2, <2>3
<1> QED  BY <1>4, <1>5 DEF Attach

\* reorganize, the loop that detaches the new blocks after a failure.
LEMMA UndoStep ==
  ASSUME CoreInv, Undo
  PROVE  CoreInv'
<1>0. ChainType /\ PoolType /\ ControlType /\ Storage /\ ReorgOK /\ pc = "undo"
      /\ Disconnect /\ UNCHANGED poolVars
      /\ IF Height[tail] = fork + 1
           THEN Reattach
           ELSE UNCHANGED <<pc, frameVars, reorgVars, result>>
  BY ZenonT(60) DEF CoreInv, Undo
<1>1. /\ target \in Block /\ old \in Block /\ tail \in Block /\ from # "none"
      /\ fork \in Nat /\ Height[old] \in Nat /\ Height[target] \in Nat
      /\ Height[tail] \in Nat /\ fork < Height[tail] /\ Height[tail] < Height[target]
      /\ fork <= Height[old] /\ Height[old] < Height[target]
      /\ Anc(target, fork) = Anc(old, fork) /\ tail = Anc(target, Height[tail])
  BY <1>0, ChainEnds DEF ReorgOK, ControlType, ChainType, Heights
<1>2. tail # Genesis
  BY <1>1, TreeAssumption
<1>3. ChainType' /\ Storage' /\ tail' = Parent[tail]
  BY <1>0, <1>2, DisconnectStep
<1>4. /\ Height[tail] - 1 \in Nat /\ Height[tail] - 1 < Height[target]
      /\ Height[tail] = (Height[tail] - 1) + 1
  BY <1>1
<1>5. Parent[tail] = Anc(target, Height[tail] - 1)
  BY <1>1, <1>4, AncNext
<1>6. Height[Parent[tail]] = Height[tail] - 1
  BY <1>1, <1>2, ChainParent
<1>7. PoolType'
  BY <1>0 DEF PoolType, poolVars
<1>8. ControlType' /\ ReorgOK'
  <2>1. CASE Height[tail] = fork + 1
    <3>1. Height[tail'] = fork /\ tail' = Anc(old, fork)
      BY <1>1, <1>3, <1>5, <1>6, <2>1
    <3> QED  BY Zenon, <1>0, <1>1, <2>1, <3>1, ReattachStep
  <2>2. CASE Height[tail] # fork + 1
    <3>1. UNCHANGED <<pc, frameVars, reorgVars, result>>
      BY <1>0, <2>2
    <3>2. ControlType'
      BY ZenonT(60), <1>0, <3>1 DEF ControlType, frameVars, reorgVars
    <3>3. /\ pc' = "undo" /\ target' = target /\ old' = old /\ fork' = fork /\ from' = from
      BY Zenon, <1>0, <3>1 DEF frameVars, reorgVars
    <3>4. /\ fork < Height[tail'] /\ fork <= Height[tail'] /\ Height[tail'] < Height[target]
          /\ tail' = Anc(target, Height[tail'])
      BY <1>1, <1>3, <1>5, <1>6, <2>2
    <3>5. ReorgOK'
      BY Zenon, <1>1, <3>3, <3>4 DEF ReorgOK
    <3> QED  BY <3>2, <3>5
  <2> QED  BY <2>1, <2>2
<1> QED  BY <1>3, <1>7, <1>8 DEF CoreInv

\* reorganize, the loop that attaches the old blocks again.
LEMMA RedoStep ==
  ASSUME CoreInv, Redo
  PROVE  CoreInv'
<1> DEFINE b == Anc(old, Height[tail] + 1)
<1>0. ChainType /\ PoolType /\ ControlType /\ Storage /\ ReorgOK /\ pc = "redo"
      /\ UNCHANGED poolVars
  BY ZenonT(60) DEF CoreInv, Redo
<1>1. /\ target \in Block /\ old \in Block /\ tail \in Block /\ from # "none"
      /\ fork \in Nat /\ Height[old] \in Nat /\ Height[target] \in Nat
      /\ Height[tail] \in Nat /\ fork <= Height[tail] /\ Height[tail] < Height[old]
      /\ fork <= Height[old] /\ Height[old] < Height[target]
      /\ Anc(target, fork) = Anc(old, fork) /\ tail = Anc(old, Height[tail])
  BY SMTT(60), <1>0, ChainEnds DEF ReorgOK, ControlType, ChainType, Heights
<1>2. /\ b \in Block \ {Genesis} /\ Height[b] = Height[tail] + 1 /\ Parent[b] = tail
      /\ (b = old) <=> (Height[tail] + 1 = Height[old])
  BY <1>1, AncNext
<1>3. PoolType'
  BY Zenon, <1>0 DEF PoolType, poolVars
<1>4. CASE /\ Connect(b, from)
           /\ IF b = old THEN Failed("ErrConnect")
                         ELSE UNCHANGED <<pc, frameVars, reorgVars, result>>
  <2>1. ChainType' /\ Storage' /\ tail' = b
    BY <1>0, <1>2, <1>4, ConnectStep
  <2>2. CASE b = old
    <3>1. "ErrConnect" \in Results
      BY DEF Results
    <3> QED  BY <1>3, <1>4, <2>1, <2>2, <3>1, ResetStep DEF CoreInv, Failed
  <2>3. CASE b # old
    <3>1. UNCHANGED <<pc, frameVars, reorgVars, result>>
      BY <1>4, <2>3
    <3>2. ControlType'
      BY Zenon, <1>0, <3>1 DEF ControlType, frameVars, reorgVars
    <3>3. /\ pc' = "redo" /\ target' = target /\ old' = old /\ fork' = fork /\ from' = from
      BY Zenon, <1>0, <3>1 DEF frameVars, reorgVars
    <3>4. /\ fork <= Height[tail'] /\ Height[tail'] < Height[old]
          /\ tail' = Anc(old, Height[tail'])
      BY <1>1, <1>2, <2>1, <2>3
    <3>5. ReorgOK'
      BY Zenon, <1>1, <3>3, <3>4 DEF ReorgOK
    <3> QED  BY Zenon, <1>3, <2>1, <3>2, <3>5 DEF CoreInv
  <2> QED  BY ZenonT(60), <2>2, <2>3
<1>5. CASE Panic("rollbackFailed", from)
  <2>1. ChainType' /\ Storage'
    BY <1>0, <1>5, SameChain DEF Panic
  <2>2. ControlType'
    BY <1>0, <1>5 DEF ControlType, Panic, Panics, reorgVars
  <2>3. ReorgOK'
    BY <1>5 DEF ReorgOK, Panic
  <2> QED  BY <1>3, <2>1, <2>2, <2>3 DEF CoreInv
<1> QED  BY <1>4, <1>5 DEF Redo

-----------------------------------------------------------------------------
(* What runs beside it.                                                    *)

\* produceBlock.
LEMMA ProduceStep ==
  ASSUME CoreInv, NEW b \in Own, Produce(b)
  PROVE  CoreInv'
<1>0. ChainType /\ PoolType /\ ControlType /\ Storage /\ ReorgOK
  BY Zenon DEF CoreInv
<1>1. b \in Block /\ Height[b] \in Heights
  BY Zenon, HeaderAssumption, TreeAssumption
<1>2. ChainType' /\ Storage'
  <2>1. execResult' \in [Heights -> Block \cup {None}]
    BY Zenon, <1>0, <1>1 DEF Produce, ChainType
  <2> QED  BY <1>0, <2>1 DEF Produce, ChainType, Storage, MainChainStored,
              CacheOnMainChain, IndexOnMainChain, MainChain, ChainOf
<1>3. ControlType' /\ PoolType'
  BY ZenonT(60), <1>0 DEF Produce, ControlType, PoolType, poolVars, frameVars, reorgVars
<1>4. ReorgOK'
  BY Zenon, <1>0 DEF Produce, ReorgOK, frameVars, reorgVars
<1> QED  BY <1>2, <1>3, <1>4 DEF CoreInv

\* Deleting an index entry leaves only blocks of the main chain in the index.
LEMMA UnindexedStep ==
  ASSUME ChainType, IndexOnMainChain
  PROVE  /\ Unindexed \in [Heights -> Block \cup {None}]
         /\ \A h \in Heights : Unindexed[h] # None
              => h <= Height[tail] /\ Unindexed[h] = Anc(tail, h)
<1>1. Height[tail] \in Heights
  BY ChainEnds DEF ChainType
<1> QED  BY <1>1 DEF Unindexed, ChainType, IndexOnMainChain

\* updateEternal up to the comparisons of SetEternal.
LEMMA CheckEternalStep ==
  ASSUME CoreInv, NEW t, NEW b \in Block, CheckEternal(t, b)
  PROVE  CoreInv'
<1>0. ChainType /\ PoolType /\ ControlType /\ Storage /\ ReorgOK
      /\ UNCHANGED <<tail, stored, blockcache, mint, execResult>>
      /\ UNCHANGED <<poolVars, frameVars, reorgVars, result>>
      /\ pc' \in {pc, "nilBlock"} /\ index' \in {index, Unindexed}
  BY Zenon DEF CoreInv, CheckEternal
<1>1. ChainType' /\ Storage'
  <2>1. /\ index' \in [Heights -> Block \cup {None}]
        /\ \A h \in Heights : index'[h] # None
              => h <= Height[tail] /\ index'[h] = Anc(tail, h)
    BY Zenon, <1>0, UnindexedStep DEF ChainType, Storage, IndexOnMainChain
  <2> QED  BY Zenon, <1>0, <2>1 DEF ChainType, Storage, MainChainStored,
              CacheOnMainChain, IndexOnMainChain, MainChain, ChainOf
<1>2. ControlType' /\ PoolType'
  BY <1>0 DEF ControlType, PoolType, Panics, poolVars, frameVars, reorgVars
<1>3. ReorgOK'
  <2>1. CASE pc' = "nilBlock"
    BY ZenonT(60), <2>1 DEF ReorgOK
  <2>2. CASE pc' = pc
    BY <1>0, <2>2 DEF ReorgOK, frameVars, reorgVars
  <2> QED  BY <1>0, <2>1, <2>2
<1> QED  BY Zenon, <1>1, <1>2, <1>3 DEF CoreInv

\* A step that changes nothing but the eternal block and what belongs to it.
LEMMA SameCore ==
  ASSUME CoreInv, UNCHANGED <<chainVars, poolVars, pc, frameVars, reorgVars, result>>
  PROVE  CoreInv'
<1>0. ChainType /\ PoolType /\ ControlType /\ Storage /\ ReorgOK
  BY DEF CoreInv
<1>1. ChainType' /\ Storage' /\ tail' = tail
  BY <1>0, SameChain
<1>2. ControlType' /\ PoolType'
  BY ZenonT(60), <1>0 DEF ControlType, PoolType, poolVars, frameVars, reorgVars
<1>3. ReorgOK'
  BY <1>0, <1>1 DEF ReorgOK, frameVars, reorgVars
<1> QED  BY <1>1, <1>2, <1>3 DEF CoreInv

\* A restart empties what is kept in memory.
LEMMA RestartStep ==
  ASSUME ChainType, Storage, NewBlockChain,
         index' \in {index, Unindexed},
         stored' \subseteq Block, stored \subseteq stored'
  PROVE  CoreInv'
<1>1. /\ index' \in [Heights -> Block \cup {None}]
      /\ \A h \in Heights : index'[h] # None
            => h <= Height[tail] /\ index'[h] = Anc(tail, h)
  BY Zenon, UnindexedStep DEF ChainType, Storage, IndexOnMainChain
<1>2. ChainType'
  BY Zenon, <1>1 DEF ChainType, NewBlockChain
<1>3. Storage'
  BY <1>1 DEF NewBlockChain, Storage, MainChainStored, CacheOnMainChain,
       IndexOnMainChain, MainChain, ChainOf
<1>4. PoolType'
  BY DEF PoolType, NewBlockChain
<1>5. ControlType' /\ ReorgOK'
  <2>1. ResetControl("none") /\ "none" \in Results
    BY DEF NewBlockChain, Results
  <2> QED  BY <2>1, ResetStep
<1> QED  BY Zenon, <1>2, <1>3, <1>4, <1>5 DEF CoreInv

=============================================================================

------------------------------- MODULE Chain -------------------------------
(***************************************************************************)
(* The block chain of core/chain/blockchain.go: acceptance of blocks into  *)
(* the main chain or a side chain, the pool of orphan blocks, chain        *)
(* reorganisation with roll back, and the eternal (irreversible) block     *)
(* that consensus/bpos/bft_service.go sets from goroutines of its own.     *)
(*                                                                         *)
(* ProcessBlock runs under chainLock, so one block is processed at a time; *)
(* its loops are one step per block connected, disconnected or taken from  *)
(* the orphan pool, because SetEternal, the miner's reads of the tail and  *)
(* a crash take no lock and interleave with them.                          *)
(*                                                                         *)
(* A block is a model value; the hash of a block commits to its parent, so *)
(* the blocks form a tree given by Parent, Height and Anc.                 *)
(*                                                                         *)
(* A definition followed by one with a similar name that changes one of    *)
(* its details (DisconnectCached before Disconnect) is that operation with *)
(* a mistake; no action uses it.                                           *)
(***************************************************************************)
EXTENDS Naturals, Sequences

CONSTANTS
  Block,        \* every block that may ever be seen, Genesis included
  Genesis,
  Parent,       \* header.PrevBlockHash
  Height,       \* distance to Genesis
  Anc(_, _),    \* Anc(b, h): the ancestor of b at height h
  MaxHeight,    \* bound of the height index
  Stamp,        \* header.TimeStamp
  Keeper,       \* header.BookKeeper
  Malformed,    \* blocks that validateBlock refuses
  BadHeight,    \* blocks whose header height is not the parent's plus one
  Invalid,      \* blocks that Verify or adjustAndValidateState refuses
  Own,          \* blocks that this node may mint
  Certified,    \* blocks that can collect enough commit signatures
  Finalizer,    \* goroutines that may be inside updateEternal
  Threshold,    \* height gap below which a light sync is asked for
  MaxCrashes,   \* bound on the number of spontaneous crashes
  None

Heights == 0..MaxHeight
Stamps == {Stamp[b] : b \in Block}

\* Blocks form a tree rooted at Genesis, and Anc walks it.
ASSUME TreeAssumption ==
  /\ Genesis \in Block
  /\ Parent \in [Block -> Block]
  /\ Height \in [Block -> Heights]
  /\ MaxHeight \in Nat
  /\ \A b \in Block : Height[b] = 0 <=> b = Genesis
  /\ \A b \in Block \ {Genesis} : Height[b] = Height[Parent[b]] + 1
  /\ \A b \in Block : Anc(b, Height[b]) = b
  /\ \A b \in Block : \A h \in 0..Height[b] :
       Anc(b, h) \in Block /\ Height[Anc(b, h)] = h
  /\ \A b \in Block : \A h \in 0..Height[b] :
       h < Height[b] => Anc(b, h) = Anc(Parent[b], h)
  /\ \A b \in Block : \A h, k \in 0..Height[b] :
       h <= k => Anc(Anc(b, k), h) = Anc(b, h)

ASSUME HeaderAssumption ==
  /\ DOMAIN Stamp = Block
  /\ DOMAIN Keeper = Block
  /\ Malformed \subseteq Block \ {Genesis}
  /\ BadHeight \subseteq Block \ {Genesis}
  /\ Invalid \subseteq Block \ {Genesis}
  /\ Own \subseteq Block \ ({Genesis} \cup Invalid \cup Malformed \cup BadHeight)
  /\ Certified \subseteq Block
  /\ None \notin Block
  /\ Threshold \in Nat
  /\ MaxCrashes \in Nat

VARIABLES
  tail,         \* chain.tail; chain.LongestChainHeight is Height[tail]
  index,        \* BlockHashKey(height) in the database
  stored,       \* BlockKey(hash) in the database
  blockcache,   \* chain.blockcache
  mint,         \* chain.repeatedMintCache, by time stamp
  execResult,   \* chain.blockExecuteResults, by height: the block executed
  orphans,      \* chain.hashToOrphanBlock
  children,     \* chain.orphanBlockHashToChildren
  pc,           \* where ProcessBlock is
  from,         \* its messageFrom: "peer", "sync" or "local" (the empty id)
  frame,        \* the processOrphans call in progress: "none", "top", "side"
  queue,        \* its acceptedBlocks from index i on
  kids,         \* its childOrphans not looked at yet
  target,       \* reorganize: the block that causes it
  fork,         \* reorganize: height of the fork point
  old,          \* reorganize: the tail it started from
  result,       \* what the last ProcessBlock returned
  eternal,      \* chain.eternal and EternalKey in the database
  pend,         \* the block each goroutine of updateEternal has checked
  minting,      \* block minted by this node, before its ProcessBlock
  produced,     \* blocks this node has minted and broadcast
  crashes

chainVars == <<tail, index, stored, blockcache, mint, execResult>>
poolVars == <<orphans, children>>
frameVars == <<from, frame, queue, kids>>
reorgVars == <<target, fork, old>>
otherVars == <<eternal, pend, minting, produced, crashes>>
vars == <<chainVars, poolVars, pc, frameVars, reorgVars, result, otherVars>>

LongestChainHeight == Height[tail]

\* What ProcessBlock returns, and the sync it asks for.
Results ==
  {"none", "ok", "orphan", "ActiveLightSync", "StartSync", "ErrBlockExists",
   "ErrRepeatedMint", "ErrMalformed", "ErrParentBlockNotExist",
   "ErrWrongBlockHeight", "ErrConnect", "ErrExpiredBlock", "ErrBlockInSideChain"}

\* The chain that ends in block b, and the main chain.
ChainOf(b) == {Anc(b, h) : h \in 0..Height[b]}
MainChain == ChainOf(tail)

\* The blocks of the chain of b above height f, and findFork's fork point: the
\* highest block that b's chain and the main chain share.
Branch(b, f) == {Anc(b, h) : h \in (f + 1)..Height[b]}
IsFork(b, f) ==
  /\ f \in 0..Height[tail] /\ f < Height[b]
  /\ Anc(b, f) = Anc(tail, f)
  /\ \A h \in (f + 1)..Height[tail] : h <= Height[b] => Anc(b, h) # Anc(tail, h)

\* The cache and then the database are asked for a block.
blockExists(b) == b \in blockcache \cup stored

\* A side chain that ends in b outgrows the main chain; a fork at height k is
\* older than the eternal block.
OutgrowsLate(b) == Height[b] > LongestChainHeight + 1
Outgrows(b) == Height[b] > LongestChainHeight
BelowEternalLate(k) == k + 1 < Height[eternal]
BelowEternal(k) == k < Height[eternal]

ResetControl(r) ==
  /\ pc' = "idle" /\ from' = "none" /\ frame' = "none"
  /\ queue' = <<>> /\ kids' = <<>>
  /\ target' = None /\ fork' = 0 /\ old' = None
  /\ result' = r

Init ==
  /\ tail = Genesis /\ eternal = Genesis
  /\ index = [h \in Heights |-> IF h = 0 THEN Genesis ELSE None]
  /\ stored = {Genesis} /\ blockcache = {}
  /\ mint = [s \in Stamps |-> None]
  /\ execResult = [h \in Heights |-> None]
  /\ orphans = {} /\ children = [b \in Block |-> <<>>]
  /\ pc = "idle" /\ from = "none" /\ frame = "none"
  /\ queue = <<>> /\ kids = <<>>
  /\ target = None /\ fork = 0 /\ old = None
  /\ result = "none"
  /\ pend = [t \in Finalizer |-> None]
  /\ minting = None /\ produced = {} /\ crashes = 0

-----------------------------------------------------------------------------
(* Connecting and disconnecting one block.                                 *)

ConnectTrustingSync(b, f) ==
  IF f = "local" THEN execResult[Height[b]] # None ELSE f = "sync" \/ b \notin Invalid

\* tryConnectBlockToMainChain goes through for b: a block minted here needs an
\* execution result at its height, any other block is verified and executed.
ConnectOk(b, f) ==
  IF f = "local" THEN execResult[Height[b]] # None ELSE b \notin Invalid

\* ChangeNewTail: the new tail is remembered by its time stamp.
ChangeNewTail(b) ==
  /\ tail' = b
  /\ mint' = [mint EXCEPT ![Stamp[b]] = b]

ConnectUnindexed(b, f) ==
  /\ ChangeNewTail(b)
  /\ stored' = stored \cup {b} /\ blockcache' = blockcache \cup {b}
  /\ index' = IF pc = "attach" THEN index ELSE [index EXCEPT ![Height[b]] = b]
  /\ UNCHANGED execResult

Connect(b, f) ==
  /\ ChangeNewTail(b)
  /\ index' = [index EXCEPT ![Height[b]] = b]
  /\ stored' = stored \cup {b}
  /\ blockcache' = blockcache \cup {b}
  /\ execResult' = IF f = "local" THEN [execResult EXCEPT ![Height[b]] = None]
                                  ELSE execResult

DisconnectCached ==
  /\ ChangeNewTail(Parent[tail])
  /\ index' = [index EXCEPT ![Height[tail]] = None]
  /\ UNCHANGED <<stored, blockcache, execResult>>

\* tryDisConnectBlockFromMainChain of the tail.
Disconnect ==
  /\ ChangeNewTail(Parent[tail])
  /\ index' = [index EXCEPT ![Height[tail]] = None]
  /\ blockcache' = blockcache \ {tail}
  /\ UNCHANGED <<stored, execResult>>

-----------------------------------------------------------------------------
(* Returns of tryAcceptBlock.                                              *)

\* It returned nil for b. The first block of ProcessBlock starts processOrphans;
\* an orphan joins the accepted blocks of the call in progress, which goes on
\* with the children in rest.
Accepted(b, f, rest) ==
  /\ pc' = "orphans" /\ from' = f
  /\ frame' = IF frame = "none" THEN "top" ELSE frame
  /\ queue' = Append(queue, b)
  /\ kids' = IF frame = "none" THEN children'[b] ELSE rest
  /\ target' = None /\ fork' = 0 /\ old' = None
  /\ UNCHANGED result

\* It returned an error. Every caller up to ProcessBlock returns that error at
\* once: the children not looked at and the children map stay as they are.
Failed(r) == ResetControl(r)

\* A panic stops the process; AfterPanic follows.
Panics == {"forkNotFound", "rollbackFailed", "nilBlock"}
Panic(p, f) ==
  /\ pc' = p /\ from' = f
  /\ UNCHANGED <<frame, queue, kids, reorgVars, result, chainVars>>

-----------------------------------------------------------------------------
(* reorganize, its beginning: the fork point is searched and compared with *)
(* the eternal block. pool is hashToOrphanBlock as the caller leaves it.   *)
Reorganize(b, f, rest, pool) ==
  \E k \in Heights :
    /\ IsFork(b, k)
    /\ \/ \* a side chain block below b is missing: "Fork point not found"
          /\ \E c \in Branch(b, k) \ {b} : ~blockExists(c)
          /\ Panic("forkNotFound", f)
          /\ orphans' = pool /\ UNCHANGED children
       \/ \* the fork is older than the eternal block: forget the side chain
          /\ \A c \in Branch(b, k) \ {b} : blockExists(c)
          /\ BelowEternal(k)
          /\ stored' = stored \ Branch(b, k)
          /\ orphans' = pool \ Branch(b, k)
          /\ children' = [c \in Block |->
                            IF c \in Branch(b, k) THEN <<>> ELSE children[c]]
          /\ Accepted(b, f, rest)
          /\ UNCHANGED <<tail, index, blockcache, mint, execResult>>
       \/ \* switch to the side chain, block by block
          /\ \A c \in Branch(b, k) \ {b} : blockExists(c)
          /\ ~BelowEternal(k)
          /\ pc' = IF k = Height[tail] THEN "attach" ELSE "detach"
          /\ target' = b /\ fork' = k /\ old' = tail
          /\ from' = f /\ kids' = rest
          /\ orphans' = pool
          /\ UNCHANGED <<frame, queue, result, chainVars, children>>

\* Error returns of tryAcceptBlock, in the order of its checks.
AcceptError(b, f) ==
  IF ~blockExists(Parent[b]) THEN "ErrParentBlockNotExist"
  ELSE IF b \in BadHeight THEN "ErrWrongBlockHeight"
  ELSE IF Parent[b] = tail
    THEN IF ConnectOk(b, f) THEN "none" ELSE "ErrConnect"
  ELSE IF ~Outgrows(b) /\ Height[b] <= Height[eternal]
    THEN "ErrExpiredBlock"
  ELSE "none"

\* tryAcceptBlock, for the block of ProcessBlock or an orphan from the pool.
TryAccept(b, f, rest, pool) ==
  \/ /\ AcceptError(b, f) # "none"
     /\ Failed(AcceptError(b, f))
     /\ orphans' = pool /\ UNCHANGED <<chainVars, children>>
  \/ /\ AcceptError(b, f) = "none"
     /\ \/ \* case 1: the block extends the main chain
           /\ Parent[b] = tail
           /\ Connect(b, f)
           /\ orphans' = pool /\ UNCHANGED children
           /\ Accepted(b, f, rest)
        \/ \* case 2: a side chain that is not longer. Its orphans are processed
           \* by a call that ends in ErrBlockInSideChain, for every caller
           /\ Parent[b] # tail /\ ~Outgrows(b)
           /\ stored' = stored \cup {b}
           /\ orphans' = pool
           /\ pc' = "orphans" /\ from' = f /\ frame' = "side"
           /\ queue' = <<b>> /\ kids' = children[b]
           /\ UNCHANGED <<tail, index, blockcache, mint, execResult, children,
                          reorgVars, result>>
        \/ \* case 3: a side chain that is longer
           /\ Parent[b] # tail /\ Outgrows(b)
           /\ Reorganize(b, f, rest, pool)

-----------------------------------------------------------------------------
(* ProcessBlock.                                                           *)

\* verifyRepeatedMint fails: the same book keeper already minted at that time.
RepeatedMint(b) ==
  mint[Stamp[b]] # None /\ Keeper[mint[Stamp[b]]] = Keeper[b]

\* Blocks refused before anything changes.
ProcessError(b) ==
  IF blockExists(b) THEN "ErrBlockExists"
  ELSE IF RepeatedMint(b) THEN "ErrRepeatedMint"
  ELSE IF b \in Malformed THEN "ErrMalformed"
  ELSE "none"

\* The sync an orphan block that is higher than the tail asks for.
OrphanResult(b, f) ==
  IF f = "sync" \/ Height[b] <= Height[tail] THEN "orphan"
  ELSE IF Height[b] - Height[tail] < Threshold THEN "ActiveLightSync"
  ELSE "StartSync"

AddOrphan(b, f) ==
  /\ IF b \in orphans
       THEN result' = "orphan" /\ UNCHANGED poolVars
       ELSE /\ orphans' = orphans \cup {b}
            /\ children' = [children EXCEPT ![Parent[b]] = Append(@, b)]
            /\ result' = OrphanResult(b, f)
  /\ UNCHANGED <<chainVars, pc, frameVars, reorgVars>>

ProcessBlock(b, f) ==
  /\ pc = "idle"
  /\ \/ /\ ProcessError(b) # "none"
        /\ result' = ProcessError(b)
        /\ UNCHANGED <<chainVars, poolVars, pc, frameVars, reorgVars>>
     \/ /\ ProcessError(b) = "none" /\ ~blockExists(Parent[b])
        /\ AddOrphan(b, f)
     \/ /\ ProcessError(b) = "none" /\ blockExists(Parent[b])
        /\ TryAccept(b, f, <<>>, orphans)

\* A block from another node. Descendants of a block of this node exist only
\* once this node has broadcast it.
Sent(b) == ChainOf(b) \cap Own \subseteq produced
Receive(b, f) ==
  /\ Sent(b)
  /\ ProcessBlock(b, f)
  /\ UNCHANGED otherVars

\* The block this node has minted.
ProcessMinted ==
  /\ minting # None
  /\ ProcessBlock(minting, "local")
  /\ minting' = None
  /\ UNCHANGED <<eternal, pend, produced, crashes>>

-----------------------------------------------------------------------------
(* processOrphans.                                                         *)

\* The next orphan whose parent has just been accepted leaves the pool, be it
\* accepted or not.
TakeOrphan ==
  /\ pc = "orphans" /\ kids # <<>>
  /\ TryAccept(Head(kids), from, Tail(kids), orphans \ {Head(kids)})
  /\ UNCHANGED otherVars

NextAcceptedAgain ==
  /\ pc = "orphans" /\ kids = <<>>
  /\ children' = [children EXCEPT ![Head(queue)] = <<>>]
  /\ UNCHANGED <<chainVars, orphans, pc, frameVars, reorgVars, result, otherVars>>

\* All children of an accepted block were accepted: its entry goes, and the next
\* accepted block is looked at, or the call returns.
NextAccepted ==
  /\ pc = "orphans" /\ kids = <<>>
  /\ children' = [children EXCEPT ![Head(queue)] = <<>>]
  /\ IF Tail(queue) # <<>>
       THEN /\ queue' = Tail(queue)
            /\ kids' = children'[Head(Tail(queue))]
            /\ UNCHANGED <<pc, from, frame, reorgVars, result>>
       ELSE ResetControl(IF frame = "side" THEN "ErrBlockInSideChain" ELSE "ok")
  /\ UNCHANGED <<chainVars, orphans, otherVars>>

-----------------------------------------------------------------------------
(* reorganize, its loops.                                                  *)

Detach ==
  /\ pc = "detach"
  /\ Disconnect
  /\ pc' = IF Height[tail] = fork + 1 THEN "attach" ELSE "detach"
  /\ UNCHANGED <<poolVars, frameVars, reorgVars, result, otherVars>>

ReattachNothing == Failed("ErrConnect")

\* Back at the fork point: the blocks that were detached, if any, come back.
Reattach ==
  IF Height[old] = fork
    THEN Failed("ErrConnect")
    ELSE pc' = "redo" /\ UNCHANGED <<frameVars, reorgVars, result>>

\* The next block of the side chain, oldest first; when one fails the blocks
\* attached so far are detached and the old ones attached again.
Attach ==
  LET b == Anc(target, Height[tail] + 1) IN
  /\ pc = "attach"
  /\ UNCHANGED <<poolVars, otherVars>>
  /\ \/ /\ ConnectOk(b, from)
        /\ Connect(b, from)
        /\ IF b = target
             THEN Accepted(b, from, kids)
             ELSE UNCHANGED <<pc, frameVars, reorgVars, result>>
     \/ /\ ~ConnectOk(b, from)
        /\ IF Height[tail] > fork
             THEN pc' = "undo" /\ UNCHANGED <<frameVars, reorgVars, result>>
             ELSE Reattach
        /\ UNCHANGED chainVars

Undo ==
  /\ pc = "undo"
  /\ Disconnect
  /\ IF Height[tail] = fork + 1
       THEN Reattach
       ELSE UNCHANGED <<pc, frameVars, reorgVars, result>>
  /\ UNCHANGED <<poolVars, otherVars>>

Redo ==
  LET b == Anc(old, Height[tail] + 1) IN
  /\ pc = "redo"
  /\ \/ /\ ConnectOk(b, from)
        /\ Connect(b, from)
        /\ IF b = old THEN Failed("ErrConnect")
                      ELSE UNCHANGED <<pc, frameVars, reorgVars, result>>
     \/ \* "RollBack: Failed to connect block to main chain"
        /\ ~ConnectOk(b, from)
        /\ Panic("rollbackFailed", from)
  /\ UNCHANGED <<poolVars, otherVars>>

\* The steps of the goroutine that holds chainLock.
LockHolder == TakeOrphan \/ NextAccepted \/ Detach \/ Attach \/ Undo \/ Redo

-----------------------------------------------------------------------------
(* What runs beside ProcessBlock without taking chainLock.                 *)

\* produceBlock builds a block on the tail as it is now and keeps the result of
\* executing it under its height; the block is broadcast before it is processed.
\* run is not entered again before ProcessBlock of that block has returned.
Produce(b) ==
  /\ pc \notin Panics /\ minting = None /\ from # "local"
  /\ b \in Own \ produced /\ Parent[b] = tail
  /\ execResult' = [execResult EXCEPT ![Height[b]] = b]
  /\ minting' = b /\ produced' = produced \cup {b}
  /\ UNCHANGED <<tail, index, stored, blockcache, mint, poolVars, pc, frameVars,
                 reorgVars, result, eternal, pend, crashes>>

\* The index as the first write of tryDisConnectBlockFromMainChain leaves it: the
\* entry of the tail is deleted before, and not in, the batch that moves the tail.
Unindexed == [index EXCEPT ![Height[tail]] = None]
Disconnecting == pc \in {"detach", "undo"}

\* updateEternal up to the comparisons of SetEternal: the block is higher than
\* the eternal block and the height index names it. No block at that height is
\* a nil pointer.
CheckEternal(t, b) ==
  /\ pc \notin Panics /\ pend[t] = None
  /\ b \in Certified \cap stored /\ Height[b] > Height[eternal]
  /\ \/ /\ index[Height[b]] = b
        /\ pend' = [pend EXCEPT ![t] = b]
        /\ UNCHANGED <<pc, index>>
     \/ /\ index[Height[b]] = None
        /\ pc' = "nilBlock"
        /\ UNCHANGED <<pend, index>>
     \/ /\ Disconnecting /\ Height[b] = Height[tail]
        /\ pc' = "nilBlock" /\ index' = Unindexed
        /\ UNCHANGED pend
  /\ UNCHANGED <<tail, stored, blockcache, mint, execResult, poolVars, frameVars,
                 reorgVars, result, eternal, minting, produced, crashes>>

\* SetEternal stores the block and assigns it.
SetEternal(t) ==
  /\ pc \notin Panics /\ pend[t] # None
  /\ eternal' = pend[t]
  /\ pend' = [pend EXCEPT ![t] = None]
  /\ UNCHANGED <<chainVars, poolVars, pc, frameVars, reorgVars, result,
                 minting, produced, crashes>>

\* The process has stopped and starts again from the database (NewBlockChain).
NewBlockChain ==
  /\ ResetControl("none")
  /\ blockcache' = {} /\ mint' = [s \in Stamps |-> None]
  /\ execResult' = [h \in Heights |-> None]
  /\ orphans' = {} /\ children' = [b \in Block |-> <<>>]
  /\ pend' = [t \in Finalizer |-> None] /\ minting' = None
  /\ UNCHANGED <<tail, eternal, produced>>

AfterPanic ==
  /\ pc \in Panics
  /\ NewBlockChain
  /\ UNCHANGED <<index, stored, crashes>>

\* The block that ProcessBlock may be about to connect: StoreBlock writes it at
\* once, its index entry and the tail follow in a batch.
Connecting(b) ==
  \/ /\ pc = "idle" /\ b # Genesis /\ Parent[b] = tail
     /\ \/ Sent(b) /\ AcceptError(b, "peer") = "none"
        \/ b = minting /\ AcceptError(b, "local") = "none"
     /\ ProcessError(b) = "none"
  \/ /\ pc = "orphans" /\ kids # <<>> /\ b = Head(kids)
     /\ Parent[b] = tail /\ AcceptError(b, from) = "none"
  \/ pc = "attach" /\ b = Anc(target, Height[tail] + 1) /\ ConnectOk(b, from)

\* A crash between two steps, or between the writes of one.
Crash ==
  /\ crashes < MaxCrashes /\ pc \notin Panics
  /\ crashes' = crashes + 1
  /\ NewBlockChain
  /\ \/ UNCHANGED <<index, stored>>
     \/ \E b \in Block : /\ Connecting(b)
                         /\ stored' = stored \cup {b} /\ UNCHANGED index
     \/ /\ Disconnecting
        /\ index' = Unindexed /\ UNCHANGED stored

Core ==
  \/ \E b \in Block, f \in {"peer", "sync"} : Receive(b, f)
  \/ ProcessMinted
  \/ LockHolder
  \/ \E b \in Own : Produce(b)
  \/ AfterPanic
  \/ Crash

\* The code as it is: the eternal block changes at any time.
Next == Core \/ \E t \in Finalizer : SetEternal(t) \/ \E b \in Block : CheckEternal(t, b)

Spec == Init /\ [][Next]_vars /\ WF_vars(LockHolder)

-----------------------------------------------------------------------------
(* The same system when updateEternal is one step that waits for chainLock. *)

UpdateEternal(b) ==
  /\ pc = "idle"
  /\ b \in Certified \cap stored /\ Height[b] > Height[eternal]
  /\ index[Height[b]] = b
  /\ eternal' = b
  /\ UNCHANGED <<chainVars, poolVars, pc, frameVars, reorgVars, result, pend,
                 minting, produced, crashes>>

LockedNext == Core \/ \E b \in Block : UpdateEternal(b)

LockedSpec == Init /\ [][LockedNext]_vars /\ WF_vars(LockHolder)

\* Blocks that were lost or dropped are sent again until they are processed, and
\* a process that has stopped is started again.
DeliverySpec ==
  LockedSpec /\ WF_vars(AfterPanic) /\ \A b \in Block : SF_vars(Receive(b, "sync"))

-----------------------------------------------------------------------------
(* Properties.                                                             *)

\* Every variable has its type; in particular tail and eternal are always blocks,
\* also after the process has been started again from the database.
TypeOK ==
  /\ tail \in Block /\ eternal \in Block
  /\ index \in [Heights -> Block \cup {None}]
  /\ stored \subseteq Block /\ blockcache \subseteq Block
  /\ mint \in [Stamps -> Block \cup {None}]
  /\ execResult \in [Heights -> Block \cup {None}]
  /\ orphans \subseteq Block
  /\ children \in [Block -> Seq(Block \ {Genesis})]
  /\ pc \in {"idle", "orphans", "detach", "attach", "undo", "redo"} \cup Panics
  /\ from \in {"none", "peer", "sync", "local"}
  /\ frame \in {"none", "top", "side"}
  /\ queue \in Seq(Block) /\ kids \in Seq(Block \ {Genesis})
  /\ target \in Block \cup {None} /\ old \in Block \cup {None}
  /\ fork \in Heights
  /\ result \in Results
  /\ pend \in [Finalizer -> Block \cup {None}]
  /\ minting \in Own \cup {None} /\ produced \subseteq Own
  /\ crashes \in 0..MaxCrashes

\* The height index of the database (GetBlockHash, LoadBlockByHeight) names only
\* blocks of the main chain.
IndexOnMainChain ==
  \A h \in Heights :
    index[h] # None => h <= Height[tail] /\ index[h] = Anc(tail, h)

\* It lists all of the main chain.
MainChainIndexed ==
  \A h \in Heights : h <= Height[tail] => index[h] = Anc(tail, h)

\* Every block of the main chain is in the database: what reorganize forgets
\* (RemoveBlock) is never part of it.
MainChainStored == MainChain \subseteq stored

\* blockcache answers blockExists and GetParentBlock before the database does,
\* so it must not keep blocks that have left the main chain.
CacheOnMainChain == blockcache \subseteq MainChain

\* The three hold together at every step of a reorganisation, when it fails half
\* way, and after a crash: what the node reads back is the chain it is on.
Storage == MainChainStored /\ CacheOnMainChain /\ IndexOnMainChain

\* Block b is a block minted here, or it descends from one.
Minted(b) == ChainOf(b) \cap produced # {}

\* A block that Verify or adjustAndValidateState refuses never is part of the
\* main chain, although side chain blocks are stored without these checks; unless
\* it is on top of a block minted here, whose orphans are processed with the empty
\* messageFrom of that block.
MainChainVerified == \A b \in MainChain \cap Invalid : Minted(b)

\* The eternal block is irreversible: reorganize never detaches it.
EternalOnMainChain == eternal \in MainChain

\* findFork finds a fork point: "main chain and side chain share at least one
\* common block, i.e., genesis".
ForkPointFound == pc # "forkNotFound"

\* Rolling back a failed reorganisation can connect the old blocks again.
RollbackConnects == pc # "rollbackFailed"

\* Between two blocks no stored block is higher than the tail: a side chain that
\* is longer than the main chain becomes the main chain (tryAcceptBlock, case 3).
TailLongest ==
  pc \in {"idle", "orphans"} => \A b \in stored : Height[b] <= LongestChainHeight

\* Where reorganize is: the tail walks from the old tail down to the fork point,
\* up to the block that caused the reorganisation, and back when that fails.
ReorgOK ==
  /\ pc \in {"detach", "attach", "undo", "redo"} =>
       /\ target \in Block /\ old \in Block
       /\ fork <= Height[old] /\ Height[old] < Height[target]
       /\ Anc(target, fork) = Anc(old, fork)
       /\ fork <= Height[tail]
  /\ pc = "detach" => /\ fork < Height[tail] /\ Height[tail] <= Height[old]
                      /\ tail = Anc(old, Height[tail])
  /\ pc = "attach" => /\ Height[tail] < Height[target]
                      /\ tail = Anc(target, Height[tail])
  /\ pc = "undo" => /\ fork < Height[tail] /\ Height[tail] < Height[target]
                    /\ tail = Anc(target, Height[tail])
  /\ pc = "redo" => /\ Height[tail] < Height[old]
                    /\ tail = Anc(old, Height[tail])
  /\ pc = "orphans" => queue # <<>>
  /\ pc \in {"orphans", "detach", "attach", "undo", "redo"} => from # "none"

\* reorganize ends at the block that caused it or back at the old tail.
ReorgAtomic ==
  [][(pc \in {"attach", "undo", "redo"} /\ crashes' = crashes) =>
       CASE pc' = "orphans" -> tail' = target
         [] pc' = "idle" -> tail' = old
         [] OTHER -> TRUE]_vars

\* chainLock is always released: every block is processed in the end.
Unlocks == pc \notin {"idle"} \cup Panics ~> pc \in {"idle"} \cup Panics

\* When every block keeps arriving (blocksync asks for what is missing), the node
\* ends on a chain at least as high as any valid chain through the eternal block.
Converges ==
  <>[](\A b \in Block :
         /\ ChainOf(b) \cap (Invalid \cup Malformed \cup BadHeight) = {}
         /\ eternal \in ChainOf(b)
         => Height[b] <= Height[tail])

=============================================================================

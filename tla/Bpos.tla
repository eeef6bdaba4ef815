-------------------------------- MODULE Bpos --------------------------------
(***************************************************************************)
(* The consensus of consensus/bpos: bookkeepers mint in turn, verify what  *)
(* others mint, and agree on the eternal block with two rounds of signed   *)
(* votes (BftService). Several nodes run against a shared clock; blocks    *)
(* and votes once sent may arrive late, twice, in any order or never.      *)
(*                                                                         *)
(* A node's call of ProcessBlock, of a vote handler or of run is one step  *)
(* (module Chain has the interleavings inside ProcessBlock). A block whose *)
(* parent is missing stays in the network until the parent is stored,      *)
(* which is what the orphan pool of module Chain does for it.              *)
(*                                                                         *)
(* A definition followed by one with a similar name that changes one of    *)
(* its details (VotesAnyKind, Votes) is that operation with a mistake; no  *)
(* action uses it.                                                         *)
(***************************************************************************)
EXTENDS Integers, Sequences, FiniteSets, FiniteSetsExt

CONSTANTS
  Node,             \* the nodes, each of which may be a bookkeeper
  Dynasties,        \* the dynasty in force before and after each switch
  Switch,           \* netParams.DynastySwitchThreshold
  RefreshInterval,  \* BookkeeperRefreshInterval, in seconds
  MaxAge,           \* MaxEternalBlockMsgCacheTime
  MaxTime,          \* bound on the clock
  VotesArrive,      \* bound on the network: time stamps of the blocks whose
                    \* votes can arrive, the others are lost
  MayRestart,       \* bound on the nodes that restart
  RestartAt,        \* bound on the times at which they restart
  MaxRestarts,      \* bound on the number of restarts
  None

ASSUME BposAssumption ==
  /\ Switch \in Nat \ {0} /\ RefreshInterval \in Nat \ {0}
  /\ MaxAge \in Nat /\ MaxTime \in Nat /\ MaxRestarts \in Nat
  /\ IsFiniteSet(Node) /\ None \notin Node
  /\ Dynasties \in Seq(Seq(Node)) \ {<<>>}

VARIABLES
  now,        \* time.Now().Unix(), on every node
  block,      \* the blocks minted so far: the chain up to and with the block,
              \* its IrreversibleInfo and the dynasty of its DynastyHash
  node,       \* what each node has in memory and in its database
  restarts

vars == <<now, block, node, restarts>>

\* A block is named by its time stamp and its miner; genesis is long past.
Genesis == <<-MaxAge, None>>
BlockIds == ((1..MaxTime) \X Node) \cup {Genesis}
Time(b) == b[1]
Miner(b) == b[2]
Height(b) == Len(block[b].chain)
Anc(b, h) == IF h = 0 THEN Genesis ELSE block[b].chain[h]
Parent(b) == IF b = Genesis THEN Genesis ELSE Anc(b, Height(b) - 1)
OnChain(b, t) == Height(b) <= Height(t) /\ Anc(t, Height(b)) = b

\* getDynasty of the genesis contract in the state after the block at height h.
SwitchesDynasty(h) == (h + 1) % Switch = 0
DynastyAt(h) ==
  Dynasties[IF (h + 1) \div Switch < Len(Dynasties)
            THEN ((h + 1) \div Switch) + 1 ELSE Len(Dynasties)]
Members(d) == Range(d)

\* Each delegate of the dynasty has the turn for one interval.
FindProposerWithTimeStamp(t, d) ==
  d[(((t % (RefreshInterval * Len(d))) \div RefreshInterval) % Len(d)) + 1]

\* The signatures in votes suffice for a block of dynasty d.
Enough(votes, d) == Cardinality(votes) >= (2 * Len(d)) \div 3

(***************************************************************************)
(* The state of a node. dyn is None while IsdynastyChange is set and vdyn  *)
(* while IsdynastyChangeForVerify is: the next use reads the dynasty anew. *)
(***************************************************************************)
NodeState ==
  [stored: SUBSET BlockIds,               \* blocks in the database
   tail: BlockIds, eternal: BlockIds,
   dyn: Range(Dynasties) \cup {None},     \* context.dynasty
   vdyn: Range(Dynasties) \cup {None},    \* context.verifyDynasty
   prep: SUBSET (BlockIds \X Node),       \* blockPrepareMsgCache
   prepKey: SUBSET BlockIds,              \* blockPrepareMsgKey
   com: SUBSET (BlockIds \X Node),        \* blockCommitMsgCache
   comKey: SUBSET BlockIds,               \* blockCommitMsgKey
   finals: SUBSET BlockIds,               \* goroutines of TryToUpdateEternalBlock
   sent: SUBSET [kind: {"prepare", "commit"}, block: BlockIds, to: SUBSET Node]]

\* What a process loses when it stops: everything but its database.
Forget(s) ==
  [s EXCEPT !.dyn = None, !.vdyn = None, !.prep = {}, !.prepKey = {},
            !.com = {}, !.comKey = {}, !.finals = {}]

\* Every node has just connected the first block, minted in the first second.
First == <<1, FindProposerWithTimeStamp(1, DynastyAt(0))>>
Init ==
  /\ now = 1
  /\ block = [b \in {Genesis, First} |->
       [chain |-> IF b = First THEN <<First>> ELSE <<>>, info |-> None, dyn |-> DynastyAt(0)]]
  /\ node = [n \in Node |->
       [stored |-> {Genesis, First}, tail |-> First, eternal |-> Genesis,
        dyn |-> DynastyAt(0), vdyn |-> DynastyAt(0), prep |-> {}, prepKey |-> {},
        com |-> {}, comKey |-> {}, finals |-> {}, sent |-> {}]]
  /\ restarts = 0

\* The event bus refuses to register a callback that has no channel among its
\* parameters, and Send to a topic without a callback does nothing.
Registered(params) == "chan" \in params
NotifyDynastyUpdate(s) ==
  IF Registered({"bool"}) THEN [s EXCEPT !.vdyn = None] ELSE s

updateVerifyContext(s, h) ==
  IF s.vdyn = None
  THEN [s EXCEPT !.vdyn = DynastyAt(IF h > 0 THEN h - 1 ELSE 0)] ELSE s

\* BroadcastBFTMsgToBookkeepers: a vote of node n for block b goes to the other
\* members of the dynasty that n verifies with.
Vote(n, s, kind, b) ==
  [kind |-> kind, block |-> b, to |-> Members(s.vdyn) \ {n}]

\* Verify: the signature is the proposer's, the dynasty hash and the
\* irreversible info fit the dynasty; s has its verify context.
verifySign(s, b) == FindProposerWithTimeStamp(Time(b), s.vdyn) = Miner(b)
verifyIrreversibleInfo(s, info) ==
  info # None => /\ Enough(info.from, s.vdyn)
                 /\ info.from \subseteq Members(s.vdyn)
Verified(s, b) ==
  /\ verifySign(s, b)
  /\ block[b].dyn = s.vdyn
  /\ verifyIrreversibleInfo(s, block[b].info)

\* The state after Verify, whatever it answers: a signed block at a switch
\* height announces the new dynasty to the miner.
Verify(s, b) ==
  LET u == updateVerifyContext(s, Height(b)) IN
  IF verifySign(u, b) /\ SwitchesDynasty(Height(b))
  THEN [u EXCEPT !.dyn = None] ELSE u

\* Finalize of the new tail, at height h, votes for its parent p and starts a
\* goroutine for what p says is irreversible.
Finalize(n, s, h, p) ==
  LET u == updateVerifyContext(s, h)
  IN [u EXCEPT
       !.sent = @ \cup (IF now - Time(p) < MaxAge
                        THEN {Vote(n, u, "prepare", p)} ELSE {}),
       !.finals = @ \cup (IF block[p].info # None THEN {p} ELSE {})]

\* ChangeNewTail for a connected block, and for the parent of a disconnected one.
Connect(n, s, b) ==
  [Finalize(n, s, Height(b), Parent(b)) EXCEPT !.tail = b, !.stored = @ \cup {b}]
Disconnect(n, s, b) ==
  [Finalize(n, s, Height(b) - 1, Parent(Parent(b))) EXCEPT !.tail = Parent(b)]

-----------------------------------------------------------------------------
(***************************************************************************)
(* Blocks from others: tryAcceptBlock and reorganize.                      *)
(***************************************************************************)

Fork(a, b) ==
  Max({h \in 0..Height(a) : h <= Height(b) /\ Anc(a, h) = Anc(b, h)})
\* The blocks of the chain of b above height f, upwards.
Branch(b, f) == SubSeq(block[b].chain, f + 1, Height(b))

\* tryConnectBlockToMainChain: a refused block leaves the chain as it is. The
\* chain announces a switch of the dynasty once the block is executed.
TryConnect(n, s, b) ==
  LET v == Verify(s, b)
      u == IF SwitchesDynasty(Height(b)) THEN NotifyDynastyUpdate(v) ELSE v
  IN IF Verified(v, b) THEN [state |-> Connect(n, u, b), ok |-> TRUE]
                       ELSE [state |-> v, ok |-> FALSE]

\* The blocks bs one after the other, up to the first that is refused.
ConnectNext(n, last, b) ==
  IF last.ok THEN TryConnect(n, NotifyDynastyUpdate(last.state), b) ELSE last
ConnectAll(n, s, bs) ==
  LET after[i \in 0..Len(bs)] ==
        IF i = 0 THEN [state |-> s, ok |-> TRUE] ELSE ConnectNext(n, after[i - 1], bs[i])
  IN after[Len(bs)]

\* The blocks bs, the last one first.
DisconnectAll(n, s, bs) ==
  LET after[i \in 0..Len(bs)] ==
        IF i = 0 THEN s ELSE Disconnect(n, after[i - 1], bs[Len(bs) + 1 - i])
  IN after[Len(bs)]

\* reorganize to the chain of b; when a block of it is refused, back to the old
\* chain; when a block of that is refused as well, the process panics.
reorganize(n, s, b) ==
  LET f == Fork(s.tail, b)
      old == Branch(s.tail, f)
      try == ConnectAll(n, DisconnectAll(n, s, old), Branch(b, f))
      undone == DisconnectAll(n, try.state, Branch(try.state.tail, f))
      back == ConnectAll(n, undone, old)
  IN CASE f < Height(s.eternal) -> [s EXCEPT !.stored = @ \ Range(Branch(b, f))]
       [] f >= Height(s.eternal) /\ try.ok -> try.state
       [] f >= Height(s.eternal) /\ ~try.ok /\ back.ok -> back.state
       [] OTHER -> Forget(back.state)

\* Block b reaches node n.
Arrives(n, b) ==
  /\ b \in DOMAIN block \ node[n].stored
  /\ Parent(b) \in node[n].stored
  /\ UNCHANGED <<now, block, restarts>>

\* Case 1 of tryAcceptBlock: the block extends the main chain.
Extend(n, b) ==
  /\ Arrives(n, b)
  /\ Parent(b) = node[n].tail
  /\ node' = [node EXCEPT ![n] = TryConnect(n, @, b).state]

\* Case 2: a side chain that is not longer; blocks below the eternal one are
\* refused.
StoreSide(n, b) ==
  /\ Arrives(n, b)
  /\ Parent(b) # node[n].tail
  /\ Height(b) <= Height(node[n].tail)
  /\ Height(b) > Height(node[n].eternal)
  /\ node' = [node EXCEPT ![n].stored = @ \cup {b}]

\* Case 3: a side chain outgrows the main chain.
Reorganize(n, b) ==
  /\ Arrives(n, b)
  /\ Parent(b) # node[n].tail
  /\ Height(b) > Height(node[n].tail)
  /\ node' = [node EXCEPT ![n] = reorganize(n, @, b)]

-----------------------------------------------------------------------------
(***************************************************************************)
(* Minting: run and produceBlock, once a second.                           *)
(***************************************************************************)

\* run reads the dynasty anew after it changed.
RefreshDynasty(s) ==
  IF s.dyn = None THEN [s EXCEPT !.dyn = DynastyAt(Height(s.tail))] ELSE s

\* FetchIrreversibleInfo: of the last blocks of the main chain the highest that
\* has enough commit signatures; they leave the cache.
Committers(s, b) == {n \in Node : <<b, n>> \in s.com}
FinalHeightsAny(s) ==
  {h \in 1..Height(s.tail) :
    /\ h >= Height(s.tail) - (now % RefreshInterval)
    /\ Committers(s, Anc(s.tail, h)) # {}}
FinalHeights(s) ==
  {h \in 1..Height(s.tail) :
    /\ h >= Height(s.tail) - (now % RefreshInterval)
    /\ Committers(s, Anc(s.tail, h)) # {}
    /\ Enough(Committers(s, Anc(s.tail, h)), DynastyAt(h))}
FetchIrreversibleInfo(s) ==
  IF FinalHeights(s) = {} THEN None
  ELSE LET b == Anc(s.tail, Max(FinalHeights(s))) IN
       [block |-> b, from |-> Committers(s, b)]
DropInfo(s, info) ==
  IF info = None THEN s
  ELSE [s EXCEPT !.com = {c \in @ : c[1] # info.block}]

\* It is the node's turn: it mints on its tail, and accepts its own block
\* without Verify. The switch of the dynasty shows when the block is executed.
Mint(n) ==
  LET s == RefreshDynasty(node[n])
      b == <<now, n>>
      info == FetchIrreversibleInfo(s)
      minted == [chain |-> Append(block[s.tail].chain, b), info |-> info,
                 dyn |-> s.dyn]
      e == IF SwitchesDynasty(Height(s.tail) + 1)
           THEN [s EXCEPT !.dyn = None] ELSE s
  IN /\ b \notin DOMAIN block
     /\ FindProposerWithTimeStamp(now, s.dyn) = n
     /\ block' = [c \in DOMAIN block \cup {b} |-> IF c = b THEN minted ELSE block[c]]
     /\ node' = [node EXCEPT ![n] =
          [Finalize(n, DropInfo(e, info), Height(s.tail) + 1, s.tail)
             EXCEPT !.tail = b, !.stored = @ \cup {b}]]
     /\ UNCHANGED <<now, restarts>>

\* Not the node's turn: run only refreshes the dynasty.
NotMyTurn(n) ==
  LET s == RefreshDynasty(node[n]) IN
  /\ node[n].dyn = None
  /\ FindProposerWithTimeStamp(now, s.dyn) # n
  /\ node' = [node EXCEPT ![n] = s]
  /\ UNCHANGED <<now, block, restarts>>

-----------------------------------------------------------------------------
(***************************************************************************)
(* Votes: BftService.                                                      *)
(***************************************************************************)

\* A vote of the kind from m reaches n and passes preCheck: the block is known,
\* not below the eternal block nor above the tail, m was its bookkeeper, and
\* the vote is recent.
VotesAnyKind(kind, m, n) ==
  {v.block : v \in {w \in node[m].sent : /\ n \in w.to
                                        /\ Time(w.block) \in VotesArrive}}
Votes(kind, m, n) ==
  {v.block : v \in {w \in node[m].sent : /\ w.kind = kind /\ n \in w.to
                                        /\ Time(w.block) \in VotesArrive}}
preCheck(n, m, b) ==
  /\ b \in node[n].stored
  /\ Height(b) >= Height(node[n].eternal)
  /\ Height(b) <= Height(node[n].tail)
  /\ m \in Members(DynastyAt(Height(b)))
  /\ now - Time(b) <= MaxAge

\* A vote completes the set when others are in the cache already: the first one
\* is stored without a look at how many are needed.
CompletesEarly(votes, b, m) ==
  Cardinality({v \in votes : v[1] = b}) + 2 >= (2 * Len(DynastyAt(Height(b)))) \div 3
Completes(votes, b, m) ==
  /\ \E v \in votes : v[1] = b
  /\ Enough({v[2] : v \in {w \in votes : w[1] = b}} \cup {m},
            DynastyAt(Height(b)))

\* updateEternal, for a block on the main chain above the eternal block. (Module
\* Chain has its races with ProcessBlock.)
updateEternal(s, b) ==
  IF Height(b) > Height(s.eternal) /\ OnChain(b, s.tail)
  THEN [s EXCEPT !.eternal = b] ELSE s

\* handleBlockPrepareMsg: enough prepare votes make the node send its commit
\* vote. It is sent to the dynasty the node verifies with; a node that has not
\* verified a block since it started has none, and dies of a nil pointer.
handleBlockPrepareMsg(n, m, b) ==
  LET s == node[n] IN
  /\ b \in Votes("prepare", m, n)
  /\ preCheck(n, m, b)
  /\ b \notin s.prepKey /\ <<b, m>> \notin s.prep
  /\ node' = [node EXCEPT ![n] =
       IF ~Completes(s.prep, b, m) THEN [s EXCEPT !.prep = @ \cup {<<b, m>>}]
       ELSE IF s.vdyn = None THEN Forget(s)
       ELSE [s EXCEPT !.prepKey = @ \cup {b},
                      !.prep = {v \in @ : v[1] # b},
                      !.sent = @ \cup {Vote(n, s, "commit", b)}]]
  /\ UNCHANGED <<now, block, restarts>>

\* handleBlockCommitMsg: enough commit votes make the block eternal.
handleBlockCommitMsg(n, m, b) ==
  LET s == node[n]
      t == [s EXCEPT !.com = @ \cup {<<b, m>>}]
  IN
  /\ b \in Votes("commit", m, n)
  /\ preCheck(n, m, b)
  /\ b \notin s.comKey /\ <<b, m>> \notin s.com
  /\ node' = [node EXCEPT ![n] =
       IF Completes(s.com, b, m)
       THEN updateEternal([t EXCEPT !.comKey = @ \cup {b}], b) ELSE t]
  /\ UNCHANGED <<now, block, restarts>>

\* The goroutine that Finalize started for block p.
TryToUpdateEternalBlock(n, p) ==
  LET s == [node[n] EXCEPT !.finals = @ \ {p}]
      info == block[p].info
  IN
  /\ p \in node[n].finals
  /\ node' = [node EXCEPT ![n] =
       IF Enough(info.from, s.vdyn) /\ info.block \in s.stored
       THEN updateEternal(s, info.block) ELSE s]
  /\ UNCHANGED <<now, block, restarts>>

-----------------------------------------------------------------------------
\* A second passes.
Tick ==
  /\ now < MaxTime
  /\ now' = now + 1
  /\ UNCHANGED <<block, node, restarts>>

\* The process stops and starts again.
Restart(n) ==
  /\ restarts < MaxRestarts /\ n \in MayRestart /\ now \in RestartAt
  /\ restarts' = restarts + 1
  /\ node' = [node EXCEPT ![n] = Forget(@)]
  /\ UNCHANGED <<now, block>>

Next ==
  \/ Tick
  \/ \E n \in Node :
       \/ Mint(n)
       \/ NotMyTurn(n)
       \/ Restart(n)
       \/ \E b \in DOMAIN block :
            Extend(n, b) \/ StoreSide(n, b) \/ Reorganize(n, b)
       \/ \E m \in Node \ {n} : \E b \in DOMAIN block :
            handleBlockPrepareMsg(n, m, b) \/ handleBlockCommitMsg(n, m, b)
       \/ \E p \in DOMAIN block : TryToUpdateEternalBlock(n, p)

Spec == Init /\ [][Next]_vars

-----------------------------------------------------------------------------
Voters(kind, b) ==
  {m \in Node : \E v \in node[m].sent : v.kind = kind /\ v.block = b}
Quorum(b) == (2 * Len(DynastyAt(Height(b)))) \div 3

\* The state of every node is well formed: its tail and its eternal block are in
\* its database, the eternal block on the main chain, and it sends no votes to
\* itself.
TypeOK ==
  /\ now \in 1..MaxTime /\ restarts \in 0..MaxRestarts
  /\ DOMAIN block \subseteq BlockIds
  /\ node \in [Node -> NodeState]
  /\ \A n \in Node :
       /\ {node[n].tail, node[n].eternal} \subseteq node[n].stored
       /\ OnChain(node[n].eternal, node[n].tail)
       /\ \A v \in node[n].sent : n \notin v.to

\* A node sends its commit vote for a block (handleBlockPrepareMsg) only when two
\* thirds of the bookkeepers, not counting itself, have sent their prepare vote.
CommitHasPrepares ==
  \A b \in DOMAIN block : \A n \in Voters("commit", b) :
    Cardinality(Voters("prepare", b) \ {n}) >= Quorum(b)

\* A block becomes eternal on a node, by votes that the node received
\* (handleBlockCommitMsg) or by the irreversible info of a block
\* (TryToUpdateEternalBlock), only when two thirds of its bookkeepers have sent
\* their commit vote for it.
EternalHasCommits ==
  \A n \in Node : node[n].eternal # Genesis =>
    Cardinality(Voters("commit", node[n].eternal)
                \cap Members(DynastyAt(Height(node[n].eternal))))
      >= Quorum(node[n].eternal)

\* The irreversible info that a miner puts into its block (FetchIrreversibleInfo)
\* names an earlier block of the same chain, with the commit votes of two thirds
\* of that block's bookkeepers, all of them really sent.
InfoBacked ==
  \A b \in DOMAIN block : block[b].info # None =>
    LET i == block[b].info IN
    /\ i.block # Genesis /\ i.block # b /\ OnChain(i.block, b)
    /\ i.from \subseteq Voters("commit", i.block)
    /\ Cardinality(i.from) >= Quorum(i.block)

\* A node that took the last block from another verifies the next one with the
\* dynasty in force after it: the chain notifies bpos when a block updates the
\* dynasty.
VerifyDynastyCurrent ==
  \A n \in Node : Miner(node[n].tail) # n =>
    node[n].vdyn \in {None, DynastyAt(Height(node[n].tail))}
=============================================================================

------------------------------- MODULE TxPool -------------------------------
(***************************************************************************)
(* core/txpool: the memory pool. Its maps are shared by the pool's loop    *)
(* (transactions and chain updates off the network and the bus), by the    *)
(* rpc server, by the goroutines that check scripts, by the handler of     *)
(* TopicInvalidTx and by the hourly sweep. Only maybeAcceptTx takes        *)
(* txMutex; what removes a transaction takes no lock. Each thread runs its *)
(* own stack of steps (todo): a step reads or writes one map, and pushes   *)
(* what its caller does next. The chain and the packer of the consensus    *)
(* (bpos.go) are the pool's two clients.                                   *)
(*                                                                         *)
(* A definition marked "a mistake" changes one detail of the definition    *)
(* that follows it; no action uses it.                                     *)
(***************************************************************************)
EXTENDS Naturals, Sequences, FiniteSets

CONSTANTS
  TxSeq,            \* the transactions, a parent before its children
  Vin,              \* the outpoints each one spends: sets of <<hash, index>>
  Vout,             \* how many outputs each one has
  Contract,         \* <<sender, nonce>> of a contract transaction, None of others
  Insane,           \* fail ValidateTransactionPreliminary, IsCoinBase, IsStandardTx
  Unfit,            \* fail ValidateTxInputs or the checks of the fee and the gas
  BadScript,        \* fail CheckTxScripts
  Coins,            \* the outpoints that are unspent at the start
  Threads,          \* the goroutines that run, of "loop", "rpc", "check", "bus", "sweep"
  Overlap,          \* {FALSE}: operations one after the other; {TRUE}: as the code runs them
  ScriptCap,        \* TxScriptBufferChSize
  CacheSize,        \* size of txcache
  Mined,            \* bound: the sets of transactions that may be in a block
  MaxSubmits, MaxUpdates,  \* bounds on the inputs, by overlap
  None

\* The elements of a sequence; sequences one after the other; a set as a sequence.
Members(seq) == {seq[i] : i \in DOMAIN seq}
Concat(seqs) ==
  LET join[i \in 0..Len(seqs)] == IF i = 0 THEN <<>> ELSE join[i-1] \o seqs[i]
  IN  join[Len(seqs)]
Listing(S) == CHOOSE seq \in [1..Cardinality(S) -> S] : S \subseteq Members(seq)
Txs == Members(TxSeq)

ASSUME PoolAssumption ==
  /\ TxSeq \in Seq(Txs)
  /\ DOMAIN Vin = Txs /\ DOMAIN Vout = Txs /\ DOMAIN Contract = Txs
  /\ \A t \in Txs : IsFiniteSet(Vin[t]) /\ Vout[t] \in Nat
  /\ Insane \cup Unfit \cup BadScript \subseteq Txs
  /\ ScriptCap \in Nat \ {0} /\ CacheSize \in Nat \ {0}

VARIABLES
  hashToTx,         \* the pool: [valid: IsScriptValid, old: here at the last sweep]
  outPointToTx,     \* outpoint -> the transaction of the pool that spends it
  hashToOrphanTx,   \* the orphans: here at the last sweep
  outPointToOrphan, \* outpoint -> orphans that spend it
  txcache,          \* the last CacheSize transactions accepted or confirmed
  nonceMap,         \* <<sender, nonce>> of contract transactions
  txMutex,          \* the thread that holds it, or None
  newTxScriptCh,
  scripts,          \* transactions whose goroutine checkTxScript has started
  invalid,          \* TopicInvalidTx: published and not handled yet
  chain,            \* blocks of the main chain: sequences of transactions
  updates,          \* newChainUpdateMsgCh: [detach, attach], sequences of blocks
  todo,             \* what each thread has left to do
  overlap,          \* whether an operation may start while another one runs
  submits, nUpdates

pool == <<hashToTx, outPointToTx>>
orphans == <<hashToOrphanTx, outPointToOrphan>>
env == <<chain, updates, nUpdates>>
queues == <<newTxScriptCh, scripts, invalid>>
bounds == <<submits, overlap>>
vars == <<pool, orphans, txcache, nonceMap, txMutex, queues, env, todo, bounds>>

InPool(t) == t \in DOMAIN hashToTx
IsOrphan(t) == t \in DOMAIN hashToOrphanTx
Without(f, S) == [x \in DOMAIN f \ S |-> f[x]]
With(f, x, v) == [y \in DOMAIN f \cup {x} |-> IF y = x THEN v ELSE f[y]]
InOrder(S) == Concat([i \in DOMAIN TxSeq |-> IF TxSeq[i] \in S THEN <<TxSeq[i]>> ELSE <<>>])
Outs(t) == [i \in 1..Vout[t] |-> <<t, i - 1>>]
OutSet(S) == UNION {Members(Outs(t)) : t \in S}
Spent(S) == UNION {Vin[t] : t \in S}

------------------------------------------------------------------------------
(* The main chain, as the pool sees it.                                      *)

Confirmed(c) == UNION {Members(c[i]) : i \in DOMAIN c}
Utxos(c) == (Coins \cup OutSet(Confirmed(c))) \ Spent(Confirmed(c))
Keys(S) == {Contract[t] : t \in S} \ {None}
ChainNonce(c, from) == Cardinality({k \in Keys(Confirmed(c)) : k[1] = from})

\* what a block on top of c may hold: validateBlock, LoadBlockUtxos and
\* StateProcessor.Process
ValidBlock(c, S) ==
  /\ S \cap (Confirmed(c) \cup Insane \cup Unfit \cup BadScript) = {}
  /\ Spent(S) \subseteq Utxos(c) \cup OutSet(S)
  /\ \A t, u \in S : t # u => Vin[t] \cap Vin[u] = {} /\ (Contract[t] # None => Contract[t] # Contract[u])
  /\ \A k \in Keys(S) : \A n \in ChainNonce(c, k[1]) + 1 .. k[2] : <<k[1], n>> \in Keys(S)
  /\ \A k \in Keys(S) : k[2] > ChainNonce(c, k[1])

\* without overlap everything else waits for the operation that runs
MayStart == overlap \/ \A th \in Threads : todo[th] = <<>>

NotifyUpdate(d, a) == updates' = Append(updates, [detach |-> d, attach |-> a])

\* a block connects to the main chain
Attach(S) ==
  /\ MayStart /\ nUpdates < MaxUpdates[overlap]
  /\ ValidBlock(chain, S)
  /\ chain' = Append(chain, InOrder(S))
  /\ NotifyUpdate(<<>>, <<InOrder(S)>>)
  /\ nUpdates' = nUpdates + 1
  /\ UNCHANGED <<pool, orphans, txcache, nonceMap, txMutex, queues, todo, bounds>>

\* the last block is replaced by a branch of two
Reorganize(S) ==
  /\ MayStart /\ nUpdates < MaxUpdates[overlap]
  /\ chain # <<>>
  /\ ValidBlock(SubSeq(chain, 1, Len(chain) - 1), S)
  /\ chain' = SubSeq(chain, 1, Len(chain) - 1) \o <<InOrder(S), <<>> >>
  /\ NotifyUpdate(<<chain[Len(chain)]>>, <<InOrder(S), <<>> >>)
  /\ nUpdates' = nUpdates + 1
  /\ UNCHANGED <<pool, orphans, txcache, nonceMap, txMutex, queues, todo, bounds>>

------------------------------------------------------------------------------
(* The steps of a thread.                                                    *)

Runs(th, name) == th \in Threads /\ todo[th] # <<>> /\ Head(todo[th]).op = name
Idle(th) == th \in Threads /\ todo[th] = <<>> /\ MayStart
Now(th) == Head(todo[th])
Push(th, steps) == todo' = [todo EXCEPT ![th] = steps \o Tail(@)]
Start(th, steps) == todo' = [todo EXCEPT ![th] = steps]

AcceptStep(t, dup, then, else) ==
  [op |-> "accept", tx |-> t, dup |-> dup, then |-> then, else |-> else]
On(name, t) == [op |-> name, tx |-> t]

\* processOrphans: the outputs left to look at, and at the end the orphans that
\* double spend an accepted transaction go
OrphanSteps(accepted, outs) ==
  IF outs # <<>> THEN <<[op |-> "orphans", accepted |-> accepted, outs |-> outs]>>
  ELSE [i \in DOMAIN accepted |-> On("conflicts", accepted[i])]

\* ProcessTx: maybeAcceptTx and then processOrphans
ProcessTx(t) == <<AcceptStep(t, TRUE, OrphanSteps(<<t>>, Outs(t)), <<>>)>>

\* the end of removeTx: the outputs of removed transactions left to look at
ChildSteps(outs) == IF outs = <<>> THEN <<>> ELSE <<[op |-> "children", outs |-> outs]>>

\* removeTx
RemoveTx(t, recursive) ==
  <<On("delete", t)>>
    \o [i \in 1..Cardinality(Vin[t]) |-> [op |-> "unspend", tx |-> t, out |-> Listing(Vin[t])[i]]]
    \o (IF Contract[t] # None THEN <<On("unnonce", t)>> ELSE <<>>)
    \o (IF recursive THEN ChildSteps(Outs(t)) ELSE <<>>)

CacheAdd(c, t) ==
  LET d == Append(SelectSeq(c, LAMBDA u : u # t), t)
  IN  IF Len(d) > CacheSize THEN Tail(d) ELSE d

StoreOrphan(t) ==
  /\ hashToOrphanTx' = With(hashToOrphanTx, t, FALSE)
  /\ outPointToOrphan' = [o \in DOMAIN outPointToOrphan \cup Vin[t] |->
       IF o \in DOMAIN outPointToOrphan THEN outPointToOrphan[o] ELSE {t}]

\* a mistake: the outpoints of the orphans are not looked at
DropHashes(S) ==
  /\ hashToOrphanTx' = Without(hashToOrphanTx, S)
  /\ UNCHANGED outPointToOrphan
DropOrphans(S) ==
  /\ hashToOrphanTx' = Without(hashToOrphanTx, S)
  /\ outPointToOrphan' =
       LET left == [o \in DOMAIN outPointToOrphan |->
                      outPointToOrphan[o] \ {t \in S : o \in Vin[t]}]
       IN  Without(left, {o \in DOMAIN left : left[o] = {}})

\* maybeAcceptTx, under txMutex: the lookups, and the utxos of the transaction
Exists(s) == InPool(s.tx) \/ (s.dup /\ IsOrphan(s.tx)) \/ s.tx \in Members(txcache)
HasUtxo(o) == o \in Utxos(chain) \/ (InPool(o[1]) /\ o[2] < Vout[o[1]])
MaybeAcceptTx(th) ==
  /\ Runs(th, "accept")
  /\ txMutex = None
  /\ LET s == Now(th)
     IN  \/ /\ Exists(s) \/ s.tx \in Insane
            /\ Push(th, s.else)
            /\ UNCHANGED <<orphans, txMutex>>
         \/ /\ ~Exists(s) /\ s.tx \notin Insane
            /\ \E o \in Vin[s.tx] : ~HasUtxo(o)
            /\ StoreOrphan(s.tx)
            /\ Push(th, s.else)
            /\ UNCHANGED txMutex
         \/ /\ ~Exists(s) /\ s.tx \notin Insane
            /\ \A o \in Vin[s.tx] : HasUtxo(o)
            /\ txMutex' = th
            /\ Push(th, <<[s EXCEPT !.op = "admit"]>>)
            /\ UNCHANGED orphans
  /\ UNCHANGED <<pool, txcache, nonceMap, queues, env, bounds>>

\* CheckGasAndNonce and checkDoubleSpend. The nonce stays in nonceMap when the
\* second refuses. What looks for a transaction with a bigger nonce compares the
\* new transaction with itself, and removes none.
NonceOK(t) == \A k \in Keys({t}) : k[2] > ChainNonce(chain, k[1]) /\ k \notin nonceMap
DoubleSpends(t) == Vin[t] \cap DOMAIN outPointToTx # {}
Admit(th) ==
  /\ Runs(th, "admit")
  /\ LET s == Now(th)
         fit == s.tx \notin Unfit /\ NonceOK(s.tx)
     IN  /\ nonceMap' = IF fit THEN nonceMap \cup Keys({s.tx}) ELSE nonceMap
         /\ \/ /\ ~fit \/ DoubleSpends(s.tx)
               /\ txMutex' = None
               /\ Push(th, s.else)
            \/ /\ fit /\ ~DoubleSpends(s.tx)
               /\ Push(th, <<[s EXCEPT !.op = "send"]>>)
               /\ UNCHANGED txMutex
  /\ UNCHANGED <<pool, orphans, txcache, queues, env, bounds>>

\* the script is checked later: newTxScriptCh <-
SendScript(th) ==
  /\ Runs(th, "send")
  /\ Len(newTxScriptCh) < ScriptCap
  /\ newTxScriptCh' = Append(newTxScriptCh, Now(th).tx)
  /\ Push(th, <<[Now(th) EXCEPT !.op = "store"]>>)
  /\ UNCHANGED <<pool, orphans, txcache, nonceMap, txMutex, scripts, invalid, env, bounds>>

\* addTx, in two steps, and the end of maybeAcceptTx
StoreTx(th) ==
  /\ Runs(th, "store")
  /\ hashToTx' = With(hashToTx, Now(th).tx, [valid |-> FALSE, old |-> FALSE])
  /\ Push(th, <<[Now(th) EXCEPT !.op = "spend"]>>)
  /\ UNCHANGED <<outPointToTx, orphans, txcache, nonceMap, txMutex, queues, env, bounds>>

SpendOutPoints(th) ==
  /\ Runs(th, "spend")
  /\ LET s == Now(th)
     IN  /\ outPointToTx' = [o \in DOMAIN outPointToTx \cup Vin[s.tx] |->
                               IF o \in Vin[s.tx] THEN s.tx ELSE outPointToTx[o]]
         /\ txcache' = CacheAdd(txcache, s.tx)
         /\ Push(th, s.then)
  /\ txMutex' = None
  /\ UNCHANGED <<hashToTx, orphans, nonceMap, queues, env, bounds>>

\* processOrphans: the orphan that spends an output of an accepted transaction. An
\* outpoint has one orphan: addOrphan keeps the first.
ProcessOrphans(th) ==
  /\ Runs(th, "orphans")
  /\ LET s == Now(th)
         out == Head(s.outs)
         rest == Tail(s.outs)
         found == IF out \in DOMAIN outPointToOrphan THEN outPointToOrphan[out] ELSE {}
     IN  \/ found = {} /\ Push(th, OrphanSteps(s.accepted, rest))
         \/ \E o \in found :
              Push(th, <<AcceptStep(o, FALSE,
                           <<On("unorphan", o)>> \o OrphanSteps(Append(s.accepted, o), rest \o Outs(o)),
                           OrphanSteps(s.accepted, rest))>>)
  /\ UNCHANGED <<pool, orphans, txcache, nonceMap, txMutex, queues, env, bounds>>

RemoveOrphan(th) ==
  /\ Runs(th, "unorphan")
  /\ DropOrphans({Now(th).tx})
  /\ Push(th, <<>>)
  /\ UNCHANGED <<pool, txcache, nonceMap, txMutex, queues, env, bounds>>

RemoveDoubleSpendOrphans(th) ==
  /\ Runs(th, "conflicts")
  /\ DropOrphans(UNION {outPointToOrphan[o] : o \in Vin[Now(th).tx] \cap DOMAIN outPointToOrphan})
  /\ Push(th, <<>>)
  /\ UNCHANGED <<pool, txcache, nonceMap, txMutex, queues, env, bounds>>

AddOrphan(th) ==
  /\ Runs(th, "orphan")
  /\ StoreOrphan(Now(th).tx)
  /\ Push(th, <<>>)
  /\ UNCHANGED <<pool, txcache, nonceMap, txMutex, queues, env, bounds>>

\* removeTx: out of the pool, then each outpoint is looked up and, in a step of its
\* own, freed; a transaction that double spends it goes too
DeleteTx(th) ==
  /\ Runs(th, "delete")
  /\ hashToTx' = Without(hashToTx, {Now(th).tx})
  /\ Push(th, <<>>)
  /\ UNCHANGED <<outPointToTx, orphans, txcache, nonceMap, txMutex, queues, env, bounds>>

Unspend(th) ==
  /\ Runs(th, "unspend")
  /\ LET s == Now(th)
     IN  Push(th, IF s.out \in DOMAIN outPointToTx
                  THEN <<[op |-> "free", tx |-> s.tx, out |-> s.out, ds |-> outPointToTx[s.out]]>>
                  ELSE <<>>)
  /\ UNCHANGED <<pool, orphans, txcache, nonceMap, txMutex, queues, env, bounds>>

FreeOutPoint(th) ==
  /\ Runs(th, "free")
  /\ LET s == Now(th)
     IN  /\ outPointToTx' = Without(outPointToTx, {s.out})
         /\ Push(th, IF s.ds # s.tx THEN <<On("delete", s.ds)>> ELSE <<>>)
  /\ UNCHANGED <<hashToTx, orphans, txcache, nonceMap, txMutex, queues, env, bounds>>

RemoveNonce(th) ==
  /\ Runs(th, "unnonce")
  /\ nonceMap' = nonceMap \ Keys({Now(th).tx})
  /\ Push(th, <<>>)
  /\ UNCHANGED <<pool, orphans, txcache, txMutex, queues, env, bounds>>

\* the children of a removed transaction become orphans
RemoveChildren(th) ==
  /\ Runs(th, "children")
  /\ LET outs == Now(th).outs
         rest == Tail(outs)
         child == outPointToTx[Head(outs)]
     IN  Push(th, IF Head(outs) \in DOMAIN outPointToTx
                  THEN RemoveTx(child, FALSE) \o <<On("orphan", child)>> \o ChildSteps(rest \o Outs(child))
                  ELSE ChildSteps(rest))
  /\ UNCHANGED <<pool, orphans, txcache, nonceMap, txMutex, queues, env, bounds>>

------------------------------------------------------------------------------
(* What starts a thread.                                                     *)

\* processTxMsg on the loop, SendTransaction of the rpc server
Submit(th, t) ==
  /\ th \in {"loop", "rpc"} /\ Idle(th)
  /\ submits < MaxSubmits[overlap]
  /\ submits' = submits + 1
  /\ Start(th, ProcessTx(t))
  /\ UNCHANGED <<pool, orphans, txcache, nonceMap, txMutex, queues, env, overlap>>

\* processChainUpdateMsg
Uncache(th) ==
  /\ Runs(th, "uncache")
  /\ txcache' = SelectSeq(txcache, LAMBDA u : u # Now(th).tx)
  /\ Push(th, <<>>)
  /\ UNCHANGED <<pool, orphans, nonceMap, txMutex, queues, env, bounds>>

Cache(th) ==
  /\ Runs(th, "cache")
  /\ txcache' = CacheAdd(txcache, Now(th).tx)
  /\ Push(th, <<>>)
  /\ UNCHANGED <<pool, orphans, nonceMap, txMutex, queues, env, bounds>>

Child(th) ==
  /\ Runs(th, "child")
  /\ LET o == Now(th).out
     IN  Push(th, IF o \in DOMAIN outPointToTx THEN RemoveTx(outPointToTx[o], TRUE) ELSE <<>>)
  /\ UNCHANGED <<pool, orphans, txcache, nonceMap, txMutex, queues, env, bounds>>

DetachSteps(b) ==
  Concat([i \in DOMAIN b |-> <<On("uncache", b[i]), AcceptStep(b[i], TRUE, <<>>, <<>>)>>])
    \o Concat([i \in DOMAIN b |->
         [j \in 1..Vout[b[i]] |-> [op |-> "child", out |-> Outs(b[i])[j]]]])
AttachSteps(b) ==
  Concat([i \in DOMAIN b |->
    <<On("cache", b[i])>> \o RemoveTx(b[i], FALSE) \o <<On("unorphan", b[i]), On("conflicts", b[i])>>])
ProcessChainUpdateMsg ==
  /\ Idle("loop")
  /\ updates # <<>>
  /\ LET m == Head(updates)
     IN  Start("loop", Concat([i \in DOMAIN m.detach |-> DetachSteps(m.detach[i])])
                         \o Concat([i \in DOMAIN m.attach |-> AttachSteps(m.attach[i])]))
  /\ updates' = Tail(updates)
  /\ UNCHANGED <<pool, orphans, txcache, nonceMap, txMutex, queues, chain, nUpdates, bounds>>

\* the loop starts a goroutine per script to check
StartCheck ==
  /\ Idle("loop")
  /\ newTxScriptCh # <<>>
  /\ scripts' = scripts \cup {Head(newTxScriptCh)}
  /\ newTxScriptCh' = Tail(newTxScriptCh)
  /\ UNCHANGED <<pool, orphans, txcache, nonceMap, txMutex, invalid, env, todo, bounds>>

CheckTxScript(t) ==
  /\ Idle("check")
  /\ t \in scripts
  /\ scripts' = scripts \ {t}
  /\ \/ /\ t \in BadScript
        /\ Start("check", RemoveTx(t, TRUE))
        /\ UNCHANGED hashToTx
     \/ /\ t \notin BadScript
        /\ hashToTx' = IF InPool(t) THEN [hashToTx EXCEPT ![t].valid = TRUE] ELSE hashToTx
        /\ UNCHANGED todo
  /\ UNCHANGED <<outPointToTx, orphans, txcache, nonceMap, txMutex, newTxScriptCh, invalid, env,
                 bounds>>

\* removeTx, the handler of TopicInvalidTx
RemoveInvalidTx(t) ==
  /\ Idle("bus")
  /\ t \in invalid
  /\ invalid' = invalid \ {t}
  /\ Start("bus", RemoveTx(t, TRUE))
  /\ UNCHANGED <<pool, orphans, txcache, nonceMap, txMutex, newTxScriptCh, scripts, env, bounds>>

\* cleanExpiredTxs, once every txTTL: what was here at the sweep before is too old
\* a mistake: only orphans expire
CleanOrphans ==
  /\ Idle("sweep")
  /\ LET oldOrphans == InOrder({t \in DOMAIN hashToOrphanTx : hashToOrphanTx[t]})
     IN  Start("sweep", [i \in DOMAIN oldOrphans |-> On("unorphan", oldOrphans[i])])
  /\ hashToOrphanTx' = [t \in DOMAIN hashToOrphanTx |-> TRUE]
  /\ UNCHANGED <<pool, outPointToOrphan, txcache, nonceMap, txMutex, queues, env, bounds>>
CleanExpiredTxs ==
  /\ Idle("sweep")
  /\ LET oldOrphans == InOrder({t \in DOMAIN hashToOrphanTx : hashToOrphanTx[t]})
         oldTxs == InOrder({t \in DOMAIN hashToTx : hashToTx[t].old})
     IN  Start("sweep", [i \in DOMAIN oldOrphans |-> On("unorphan", oldOrphans[i])]
                          \o Concat([i \in DOMAIN oldTxs |-> RemoveTx(oldTxs[i], TRUE)]))
  /\ hashToTx' = [t \in DOMAIN hashToTx |-> [hashToTx[t] EXCEPT !.old = TRUE]]
  /\ hashToOrphanTx' = [t \in DOMAIN hashToOrphanTx |-> TRUE]
  /\ UNCHANGED <<outPointToTx, outPointToOrphan, txcache, nonceMap, txMutex, queues, env, bounds>>

\* PackTxs and sortPendingTxs: transactions whose script was found valid, without the
\* contract transactions whose turn it is not and what descends from them, and with
\* every input in the database or in a transaction that is packed before
Below(S, T) == {t \in T : \E o \in Vin[t] : o[1] \in S}
Descendants(S, T) ==
  LET grow[n \in 0..Cardinality(T)] == IF n = 0 THEN S ELSE grow[n-1] \cup Below(grow[n-1], T)
  IN  grow[Cardinality(T)]
\* a mistake: a gap in the nonces is not noticed
NotTooLow(t, T) == \A k \in Keys({t}) : k[2] > ChainNonce(chain, k[1])
MyTurn(t, T) ==
  \A k \in Keys({t}) :
    /\ k[2] > ChainNonce(chain, k[1])
    /\ \A n \in ChainNonce(chain, k[1]) + 1 .. k[2] - 1 : <<k[1], n>> \in Keys(T)
Spendable(T) ==
  LET grow[n \in 0..Cardinality(T)] ==
        IF n = 0 THEN {} ELSE {t \in T : Vin[t] \subseteq Utxos(chain) \cup OutSet(grow[n-1])}
  IN  grow[Cardinality(T)]
Early(T) == {t \in T : ~MyTurn(t, T)}
Pending == {t \in DOMAIN hashToTx : hashToTx[t].valid}
Packable == Spendable(Pending \ Descendants(Early(Pending), Pending))

\* and contract transactions whose nonce has been used are announced as invalid
PackTxs ==
  /\ invalid' = invalid \cup
       {t \in Early(Pending) : Contract[t][2] <= ChainNonce(chain, Contract[t][1])}
  /\ UNCHANGED <<pool, orphans, txcache, nonceMap, txMutex, newTxScriptCh, scripts, env, todo, bounds>>

Init ==
  /\ hashToTx = <<>> /\ outPointToTx = <<>>
  /\ hashToOrphanTx = <<>> /\ outPointToOrphan = <<>>
  /\ txcache = <<>> /\ nonceMap = {} /\ txMutex = None
  /\ newTxScriptCh = <<>> /\ scripts = {} /\ invalid = {}
  /\ chain = <<>> /\ updates = <<>>
  /\ todo = [th \in Threads |-> <<>>]
  /\ overlap \in Overlap
  /\ submits = 0 /\ nUpdates = 0

Step(th) ==
  \/ MaybeAcceptTx(th) \/ Admit(th) \/ SendScript(th) \/ StoreTx(th) \/ SpendOutPoints(th)
  \/ ProcessOrphans(th) \/ RemoveOrphan(th) \/ RemoveDoubleSpendOrphans(th) \/ AddOrphan(th)
  \/ DeleteTx(th) \/ Unspend(th) \/ FreeOutPoint(th) \/ RemoveNonce(th) \/ RemoveChildren(th)
  \/ Uncache(th) \/ Cache(th) \/ Child(th)

Next ==
  \/ \E th \in Threads : Step(th) \/ \E t \in Txs : Submit(th, t)
  \/ \E S \in Mined : Attach(S) \/ Reorganize(S)
  \/ ProcessChainUpdateMsg \/ StartCheck \/ CleanExpiredTxs \/ PackTxs
  \/ \E t \in Txs : CheckTxScript(t) \/ RemoveInvalidTx(t)

\* The Go scheduler runs every goroutine, and the ticker of the sweep keeps firing.
Fairness ==
  /\ \A th \in Threads : WF_vars(Step(th))
  /\ WF_vars(ProcessChainUpdateMsg) /\ WF_vars(StartCheck) /\ WF_vars(CleanExpiredTxs)
  /\ \A t \in Txs : WF_vars(CheckTxScript(t)) /\ WF_vars(RemoveInvalidTx(t))

Spec == Init /\ [][Next]_vars /\ Fairness

------------------------------------------------------------------------------
(* Properties.                                                               *)

Quiet == \A th \in Threads : todo[th] = <<>>
Serial == Quiet /\ ~overlap

\* However operations overlap, an outpoint lists only orphans that are in the orphan
\* pool: processOrphans never accepts one that was dropped.
OrphansKnown ==
  Quiet => \A o \in DOMAIN outPointToOrphan : outPointToOrphan[o] \subseteq DOMAIN hashToOrphanTx

\* The maps of the pool agree with each other. As long as operations do not overlap,
\* outPointToTx names, for every outpoint that a transaction of the pool spends, that
\* transaction: checkDoubleSpend, which looks only there, then keeps every double
\* spend out of the pool.
MapsAgree ==
  /\ OrphansKnown
  /\ Serial => \A t \in DOMAIN hashToTx : \A o \in Vin[t] :
                 o \in DOMAIN outPointToTx /\ outPointToTx[o] = t

\* As long as operations do not overlap, what PackTxs would take from the pool once
\* the updates of the chain are handled is a valid block: inputs that exist and are
\* spent once, valid scripts, nonces without a gap; and removeBlockTxs has left no
\* confirmed transaction in the pool, whatever was orphaned and accepted before.
PackedValid ==
  Serial /\ updates = <<>> =>
    ValidBlock(chain, Packable) /\ DOMAIN hashToTx \cap Confirmed(chain) = {}

\* However operations overlap, the sweep empties the pool in the end: no race leaves
\* behind a transaction that is in no block and cannot be removed.
Drained == <>[](DOMAIN hashToTx = {})

\* No two transactions of the pool spend the same outpoint.
NoDoubleSpend == Quiet => \A t, u \in DOMAIN hashToTx : t # u => Vin[t] \cap Vin[u] = {}

\* The loop, the only one that receives from newTxScriptCh, does not wait to send on
\* it.
MainThreadNotBlocked == ~(Runs("loop", "send") /\ Len(newTxScriptCh) = ScriptCap)
=============================================================================

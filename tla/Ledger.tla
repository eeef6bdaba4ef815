------------------------------- MODULE Ledger -------------------------------
(***************************************************************************)
(* The money of the chain: core/chain/blockchain.go's connecting and       *)
(* disconnecting of blocks and consensus/bpos's packing and executing of   *)
(* them, over UtxoSet and Execution. A block producer executes what it     *)
(* packs and stores the result; its peers execute the block again from     *)
(* their own database, compare, and store their own result; a              *)
(* reorganization takes blocks off either node. Which block is wanted is   *)
(* the business of Chain: here any block may follow its parent and any     *)
(* tail may be taken off.                                                  *)
(*                                                                         *)
(* A block is [hash, prev, height, keeper, txs, internal, root, gasUsed,   *)
(* receipts]; its root is the world state itself. A node's db is           *)
(* [utxo, addr, txIndex, tx, splitTx, splitAddr, receipts], one field for  *)
(* each key prefix of dbkey.go, and its chain is the blocks by height.     *)
(***************************************************************************)
EXTENDS Execution

CONSTANTS
  Miner, Peers,           \* the nodes
  Keeper,                 \* the address of the producer
  BlockReward, SwitchHeight,  \* the genesis contract's parameters
  Pending,                \* scenario -> sequences of transactions the pool may offer
  Scenarios,
  GenesisUtxo, GenesisState,
  MaxBlocks, MaxUndo      \* bounds: blocks produced (by scenario), blocks taken off

Nodes == {Miner} \cup Peers

VARIABLES
  scenario,     \* which transactions are about
  db, chain,    \* of each node
  mined,        \* the blocks produced, in order
  refused,      \* <<node, block>>: refused
  undone,       \* blocks taken off so far
  odd           \* a block of an odd shape (below) was stored or taken off

vars == <<scenario, db, chain, mined, refused, undone, odd>>

TailBlock(n) == Last(chain[n])
StateOf(n) == TailBlock(n).root

------------------------------------------------------------------------------
(* Split addresses and the index of transactions.                            *)

\* the shares of an output to a split address, in proportion to the weights;
\* the last one gets what is left, and a share may itself be split
RECURSIVE splitTxOutput(_, _)
splitTxOutput(o, d) ==
  IF ~(IsPayToPubKeyHash(o.script) /\ o.script.to \in DOMAIN d.splitAddr) THEN <<o>>
  ELSE LET info == d.splitAddr[o.script.to]
           total == Sum(info.weights)
           n == Len(info.addrs)
           share(i) == (o.value * info.weights[i]) \div total
           rest == o.value - Sum([i \in 1..(n - 1) |-> share(i)])
           child(i) == [value |-> IF i = n THEN rest ELSE share(i),
                        script |-> PayToPubKeyHashScript(info.addrs[i])]
       IN FlattenSeq([i \in 1..n |-> splitTxOutput(child(i), d)])

splitTxOutputs(tx, d) ==
  LET outs == [i \in DOMAIN tx.vout |-> splitTxOutput(tx.vout[i], d)]
  IN IF \A i \in DOMAIN outs : Len(outs[i]) <= 1 THEN tx
     ELSE [tx EXCEPT !.id = <<"split", tx.id>>, !.vout = FlattenSeq(outs), !.type = "split"]

\* the copy of the block whose outputs are split
SplitBlockOutputs(b, d) == [b EXCEPT !.txs = [i \in DOMAIN @ |-> splitTxOutputs(@[i], d)]]
SplitTxs(b, d) == SelectSeq(SplitBlockOutputs(b, d).txs, LAMBDA tx : tx.id[1] = "split")

MakeSplitAddress(tx, i) == <<"split", tx.id, i>>
SplitAddrs(b) ==
  UNION {{<<MakeSplitAddress(b.txs[i], j), b.txs[i].vout[j].script.arg>> :
            j \in {k \in DOMAIN b.txs[i].vout : IsSplitAddrScript(b.txs[i].vout[k].script)}} :
         i \in DOMAIN b.txs}

AllTxs(b, split) == b.txs \o b.internal \o split
Without(f, S) == [x \in DOMAIN f \ S |-> f[x]]
Ids(txs) == {txs[i].id : i \in DOMAIN txs}

WriteTxIndex(d, b, split) ==
  LET all == AllTxs(b, split)
      at(id) == Max({i \in DOMAIN all : all[i].id = id})
  IN [d EXCEPT !.txIndex = [id \in Ids(all) |-> [height |-> b.height, index |-> at(id)]] @@ @]

DelTxIndex(d, b, split) == [d EXCEPT !.txIndex = Without(@, Ids(AllTxs(b, split)))]

\* split transactions are kept under their new hash and under the old one
StoreSplitTxs(d, split) ==
  [d EXCEPT !.tx = [id \in Ids(split) |-> CHOOSE t \in ToSet(split) : t.id = id] @@ @,
            !.splitTx = [id \in {t.id[2] : t \in ToSet(split)} |->
                           CHOOSE t \in ToSet(split) : t.id[2] = id] @@ @]
DelSplitTxs(d, split) ==
  [d EXCEPT !.tx = Without(@, Ids(split)), !.splitTx = Without(@, {t.id[2] : t \in ToSet(split)})]

WriteSplitAddrIndex(d, b) ==
  [d EXCEPT !.splitAddr = [a \in {p[1] : p \in SplitAddrs(b)} |->
                             (CHOOSE p \in SplitAddrs(b) : p[1] = a)[2]] @@ @]
\* a mistake: the address stays known
DeleteSplitAddrIndexNot(d, b) == d
DeleteSplitAddrIndex(d, b) == [d EXCEPT !.splitAddr = Without(@, {p[1] : p \in SplitAddrs(b)})]

\* writeBlockToDB: one batch
writeBlockToDB(d, b, u) ==
  LET split == SplitTxs(b, d)
      indexed == WriteSplitAddrIndex(StoreSplitTxs(WriteTxIndex(d, b, split), split), b)
  IN WriteUtxoSetToDB(u, [indexed EXCEPT !.receipts = (b.hash :> b.receipts) @@ @])

------------------------------------------------------------------------------
(* Producing a block.                                                        *)

Script(kind, to, arg) == [kind |-> kind, to |-> to, arg |-> arg]
CallVout(nonce, value) ==
  [value |-> value, script |-> MakeContractScriptPubkey(Admin, ContractAddr, IntrinsicGas, nonce)]

MakeCoinBaseContractTx(height, reward, fee, nonce) ==
  [id |-> <<"coinbase", <<height, nonce, fee>>>>, vin |-> <<<<NullHash, 1>>>>,
   vout |-> <<CallVout(nonce, reward)>> \o
            IF fee > 0 THEN <<[value |-> fee, script |-> PayToPubKeyHashScript(Keeper)]>> ELSE <<>>,
   signers |-> <<NoAddr>>, type |-> "contract"]

MakeDynastySwitchTx(height, nonce) ==
  [id |-> <<"switch", <<height, nonce>>>>, vin |-> <<<<NullHash, 0>>>>,
   vout |-> <<CallVout(nonce, 0)>>, signers |-> <<NoAddr>>, type |-> "contract"]

\* the transactions of cand whose inputs are there and whose fee is right; the
\* pool has run ValidateTxInputs on each (maybeAcceptTx)
PackedTxs(d, st, cand, height) ==
  LET fee(tx) == IF GetTxType(tx, st) = "contract"
                 THEN GetContractVout(tx, st).script.arg.gas * FixedGasPrice ELSE TransferFee
      admitted(ps, tx) == ValidateTxInputs(GetExtendedTxUtxoSet(tx, d, ps, height), tx).ok
      fits(ps, tx) == LET in == TxInputAmount(GetExtendedTxUtxoSet(tx, d, ps, height), tx)
                      IN in # 0 /\ in = OutputAmount(tx) + fee(tx) + ExtraFee(tx) /\ admitted(ps, tx)
      typed(tx) == [tx EXCEPT !.type = GetTxType(tx, st)]
  IN FoldLeft(LAMBDA ps, tx : IF fits(ps, tx) THEN Append(ps, typed(tx)) ELSE ps, <<>>, cand)

\* contracts have the same money in the set of outputs and in the state
SameBalances(u, st) ==
  \A op \in u.contract : FindUtxo(u, op).value = GetBalance(st, AddressOf(op))

\* the state and the outputs once a block is applied and its contracts have
\* run; err is an error of either. applied is what ApplyBlock returned
Processed(d, b, copy, st, applied, ord) ==
  IF applied.ok THEN Process(b, UpdateNormalTxBalanceState(copy, applied.u, st), applied.u, d, ord)
  ELSE [err |-> TRUE]
Executed(d, b, copy, st, loaded, ord) == Processed(d, b, copy, st, ApplyBlock(loaded, copy, st), ord)

\* the block with its header filled in; p is what Process returned
Finalized(b, p) ==
  LET cb == b.txs[1]
      fee == IF Len(cb.vout) = 2 THEN cb.vout[2].value ELSE 0
      paid == MakeCoinBaseContractTx(b.height, cb.vout[1].value, fee + p.used, cb.vout[1].script.arg.nonce)
      earned == p.used > 0
      u1 == IF earned THEN AddUtxo(SpendUtxo(p.u, <<cb.id, 1>>), paid, 1, b.height) ELSE p.u
      st1 == IF earned THEN AddBalance(p.st, Keeper, p.used) ELSE p.st
      full == [b EXCEPT !.txs[1] = IF earned THEN paid ELSE @, !.internal = p.txs]
      u2 == ApplyInternalTxs(u1, full)
      root == UpdateContractUtxoState(st1, u2)
  IN [ok |-> SameBalances(u2, root),
      b |-> [full EXCEPT !.root = root, !.gasUsed = p.used,
                         !.receipts = [p.receipts EXCEPT ![1].tx = full.txs[1].id]],
      u |-> u2]

\* [ok, b, u], or [ok] for an error
Outcome(b, p) == IF p.err THEN [ok |-> FALSE] ELSE Finalized(b, p)
executeBlock(d, b, st, ord) ==
  Outcome(b, Executed(d, b, SplitBlockOutputs(b, d), st, LoadBlockUtxos(b, TRUE, d, st), ord))

\* the coinbase, the call that ends a dynasty, the pool's transactions
Assemble(n, packed, ord) ==
  LET parent == TailBlock(n)
      height == parent.height + 1
      fees == SelectSeq(packed, LAMBDA tx : GetTxType(tx, parent.root) # "contract")
      fee == Sum([i \in DOMAIN fees |-> TransferFee + ExtraFee(fees[i])])
      nonce == GetNonce(parent.root, Admin) + 1
      st == LET rewarded == AddBalance(parent.root, Admin, BlockReward)
            IN IF fee > 0 THEN AddBalance(rewarded, Keeper, fee) ELSE rewarded
      own == <<MakeCoinBaseContractTx(height, BlockReward, fee, nonce)>> \o
             IF (height + 1) % SwitchHeight = 0 THEN <<MakeDynastySwitchTx(height, nonce + 1)>> ELSE <<>>
  IN executeBlock(db[n], [hash |-> Len(mined) + 1, prev |-> parent.hash, height |-> height, keeper |-> Keeper,
                          txs |-> own \o packed, internal |-> <<>>, root |-> <<>>, gasUsed |-> 0,
                          receipts |-> <<>>], st, ord)
PackTxs(n, cand, ord) ==
  Assemble(n, PackedTxs(db[n], StateOf(n), cand, TailBlock(n).height + 1), ord)

------------------------------------------------------------------------------
(* Checking a block of another node.                                         *)

\* a block off the network: the types of its transactions are not sent
Received(b) == [b EXCEPT !.txs = [i \in DOMAIN @ |-> [@[i] EXCEPT !.type = "unknown"]]]
Typed(b, st) == [b EXCEPT !.txs = [i \in DOMAIN @ |-> [@[i] EXCEPT !.type = GetTxType(b.txs[i], st)]]]

ValidateExecuteResult(b, p, fees) ==
  /\ p.txs = <<>> \/ [i \in DOMAIN p.txs |-> p.txs[i].id] = [i \in DOMAIN b.internal |-> b.internal[i].id]
  /\ b.gasUsed = p.used
  /\ OutputAmount(b.txs[1]) = BlockReward + fees + p.used
  /\ b.receipts = p.receipts

\* p, the result of executing the block, against what its header says
Matches(b, p, fees) ==
  LET u2 == ApplyInternalTxs(p.u, [b EXCEPT !.internal = IF p.txs = <<>> THEN <<>> ELSE @])
      root == UpdateContractUtxoState(p.st, u2)
  IN [ok |-> ValidateExecuteResult(b, p, fees) /\ root = b.root /\ SameBalances(u2, root), u |-> u2]
Checked(b, p, fees) == IF p.err THEN [ok |-> FALSE] ELSE Matches(b, p, fees)

ExecuteAndCheck(d, b, st0, loaded, inputs, ord) ==
  LET cb == b.txs[1]
      rewarded == AddBalance(st0, Admin, cb.vout[1].value)
      st1 == IF Len(cb.vout) = 2 THEN AddBalance(rewarded, b.keeper, cb.vout[2].value) ELSE rewarded
  IN IF /\ validateBlock(b, st0)
        /\ \A i \in 2..Len(b.txs) : IsInternalContract(b.txs[i]) \/ CheckTxScripts(loaded, b.txs[i])
        /\ inputs.ok
     THEN Checked(b, Executed(d, b, SplitBlockOutputs(b, d), st1, loaded, ord), inputs.fee)
     ELSE [ok |-> FALSE]
AdjustTyped(d, b, st0, ord) ==
  LET loaded == LoadBlockUtxos(b, TRUE, d, st0)
  IN ExecuteAndCheck(d, b, st0, loaded, validateBlockInputs(loaded, b, st0), ord)

\* [ok, u], or [ok] for an error; st0 is the parent's state
adjustAndValidateState(d, received, st0, ord) == AdjustTyped(d, Typed(received, st0), st0, ord)

------------------------------------------------------------------------------
(* Shapes of blocks on which the code departs from the properties below.     *)

\* a contract got money through an internal transaction or through a payment
\* to its address: a rollback does not look at the first, and the state does
\* not note the second
Unrecorded(b) ==
  \/ \E i \in DOMAIN b.internal : \E o \in ToSet(b.internal[i].vout) : IsContractPubkey(o.script)
  \/ \E i \in DOMAIN b.txs : \E o \in ToSet(b.txs[i].vout) :
        IsPayToPubKeyHash(o.script) /\ IsContractAddr(b.root, o.script.to)

\* a split address is paid in the block that declares it: the payment is not
\* split when the block is connected, but is when it is taken off
SplitTooLate(b) ==
  \E i \in DOMAIN b.txs : \E o \in ToSet(b.txs[i].vout) : o.script.to \in {p[1] : p \in SplitAddrs(b)}

OddToUndo(b) == Unrecorded(b) \/ SplitTooLate(b)

\* an output of a transaction that is split is spent in the same block, under
\* the hash from before the split
SpentBeforeSplit(b, d) ==
  \E i \in DOMAIN b.txs : \E op \in ToSet(b.txs[i].vin) : <<"split", op[1]>> \in Ids(SplitTxs(b, d))

\* the machine's notes miss a payment: it was undone, or a contract made it
\* before it had code; or a call pays somebody else besides the contract
Miscounted(b) ==
  \E i \in DOMAIN b.txs :
    \/ \E s \in ToSet(Get(Program, b.txs[i].id[1], NoProgram).steps) :
         s.op = "undone" \/ s.from = CreateAddress(b.txs[i].signers[1], b.txs[i].vout[1].script.arg.nonce)
    \/ /\ b.txs[i].type = "contract" /\ ~IsCoinBase(b.txs[i])
       /\ \E o \in ToSet(b.txs[i].vout) : IsPayToPubKeyHash(o.script) /\ o.script.to # b.txs[i].signers[1]
Miscounts(n) == \E i \in DOMAIN chain[n] : Miscounted(chain[n][i])

\* two contracts pay in one transaction, a contract reads the balance of the
\* producer, or a transaction got its type before its receiver became a contract
Ambiguous(b, st) ==
  \E i \in DOMAIN b.txs :
    LET steps == ToSet(Get(Program, b.txs[i].id[1], NoProgram).steps)
    IN \/ Cardinality({s.from : s \in steps}) > 1 \/ \E s \in steps : s.when = b.keeper
       \/ b.txs[i].type # ParseTxType([b.txs[i] EXCEPT !.type = "unknown"], st)

------------------------------------------------------------------------------
(* The nodes.                                                                *)

Genesis ==
  [hash |-> 0, prev |-> 0, height |-> 0, keeper |-> Keeper, internal |-> <<>>, root |-> GenesisState,
   txs |-> <<[id |-> <<"genesis", 0>>, vin |-> <<<<NullHash, 1>>>>, vout |-> GenesisUtxo,
              signers |-> <<NoAddr>>, type |-> "unknown"]>>, gasUsed |-> 0, receipts |-> <<>>]

GenesisSet ==
  LET keys == FoldLeftDomain(LAMBDA u, i : AddUtxo(u, Genesis.txs[1], i - 1, 0), NewUtxoSet, GenesisUtxo)
  IN [keys EXCEPT !.map = [op \in {ContractOutPoint(a) : a \in DOMAIN GenesisState.utxo} |->
                             GenesisState.utxo[AddressOf(op)]] @@ @]

EmptyDb == [utxo |-> <<>>, addr |-> <<>>, txIndex |-> <<>>, tx |-> <<>>, splitTx |-> <<>>,
            splitAddr |-> <<>>, receipts |-> <<>>]

Init ==
  /\ scenario \in Scenarios
  /\ db = [n \in Nodes |-> writeBlockToDB(EmptyDb, Genesis, GenesisSet)]
  /\ chain = [n \in Nodes |-> <<Genesis>>]
  /\ mined = <<>> /\ refused = {} /\ undone = 0 /\ odd = FALSE

\* the producer packs what its pool offers, and stores the block with the
\* result of executing it
Produce(e) ==
  /\ e.ok /\ validateBlock(e.b, StateOf(Miner))
  /\ mined' = Append(mined, e.b)
  /\ db' = [db EXCEPT ![Miner] = writeBlockToDB(@, e.b, e.u)]
  /\ chain' = [chain EXCEPT ![Miner] = Append(@, e.b)]
  /\ odd' = (odd \/ SpentBeforeSplit(e.b, db[Miner]))
  /\ UNCHANGED <<scenario, refused, undone>>
Mine(cand, ord) == Len(mined) < MaxBlocks[scenario] /\ Produce(PackTxs(Miner, cand, ord))

\* tryConnectBlockToMainChain: another node's block on top of the tail
StoreOrRefuse(n, i, r) ==
  /\ IF r.ok THEN /\ db' = [db EXCEPT ![n] = writeBlockToDB(@, mined[i], r.u)]
                  /\ chain' = [chain EXCEPT ![n] = Append(@, mined[i])]
                  /\ UNCHANGED refused
     ELSE refused' = refused \cup {<<n, i>>} /\ UNCHANGED <<db, chain>>
  /\ UNCHANGED <<scenario, mined, undone, odd>>
Connect(n, i, ord) ==
  /\ mined[i].prev = TailBlock(n).hash /\ <<n, i>> \notin refused
  /\ StoreOrRefuse(n, i, adjustAndValidateState(db[n], Received(mined[i]), StateOf(n), ord))

\* the outputs of the tail taken back
Reverted(n) ==
  LET copy == SplitBlockOutputs(TailBlock(n), db[n])
  IN RevertBlock(LoadBlockAllUtxos(copy, FALSE, db[n], TailBlock(n).root), copy, db[n], chain[n])

\* tryDisConnectBlockFromMainChain; a rollback that ends in other balances
\* than the parent's is an error and changes nothing
Disconnect(n) ==
  LET b == TailBlock(n)
      split == SplitTxs(b, db[n])
      contracts == MakeRollbackContractUtxos(b, chain[n][Len(chain[n]) - 1].root)
      u == [Reverted(n).u EXCEPT !.map = contracts.map @@ @]
      d == DeleteSplitAddrIndex(DelSplitTxs(DelTxIndex(db[n], b, split), split), b)
  IN /\ Len(chain[n]) > 1 /\ undone < MaxUndo
     /\ contracts.ok
     /\ undone' = undone + 1
     /\ db' = [db EXCEPT ![n] = WriteUtxoSetToDB(u, [d EXCEPT !.receipts = Without(@, {b.hash})])]
     /\ chain' = [chain EXCEPT ![n] = Front(@)]
     /\ odd' = (odd \/ \E i \in DOMAIN chain[n] : OddToUndo(chain[n][i]))
     /\ UNCHANGED <<scenario, mined, refused>>

Next ==
  \/ \E cand \in Pending[scenario], ord \in {"asc", "desc"} : Mine(cand, ord)
  \/ \E n \in Peers, i \in DOMAIN mined, ord \in {"asc", "desc"} : Connect(n, i, ord)
  \/ \E n \in Nodes : Disconnect(n)

Spec == Init /\ [][Next]_vars
------------------------------------------------------------------------------
(* Properties.                                                               *)

OwnedByContract(n, op) ==
  LET s == db[n].utxo[op].script
  IN IsPayToPubKeyHash(s) /\ IsContractAddr(StateOf(n), s.to)
SumOf(n, S) == FoldSet(LAMBDA op, x : x + db[n].utxo[op].value, 0, S)

ParentState(b) == IF b.prev = 0 THEN GenesisState ELSE mined[b.prev].root

\* Two nodes with the same chain have the same outputs, owner index,
\* transaction index, split addresses and receipts, whatever they executed
\* themselves, received from the other or took off again on the way there:
\* RevertBlock and the Del functions undo ApplyBlock and writeBlockToDB, and
\* RevertBlock finds every transaction it needs, of the block or of the index.
SameLedger ==
  ~odd => /\ \A m, n \in Nodes : chain[m] = chain[n] => db[m] = db[n]
          /\ \A n \in Nodes : Len(chain[n]) > 1 => Reverted(n).ok

\* The outputs on a node's chain are worth what the genesis block gave out and
\* one BlockReward for each block: fees, gas, refunds, calls and internal
\* transactions move money, and neither make nor lose any.
MoneyConserved ==
  ~odd => \A n \in Nodes : Miscounts(n) \/
    SumOf(n, {op \in DOMAIN db[n].utxo : ~OwnedByContract(n, op)})
      = FoldLeft(LAMBDA x, o : x + o.value, 0, GenesisUtxo)
        + FoldSet(LAMBDA a, x : x + GenesisState.utxo[a].value, 0, DOMAIN GenesisState.utxo)
        + BlockReward * (Len(chain[n]) - 1)

\* A contract has one output, worth its balance in the world state: what
\* executeBlock compares only for the contracts a block touches holds for all
\* of them, also after a rollback.
ContractBacked ==
  ~odd => \A n \in Nodes : \A a \in StateOf(n).code :
    /\ ContractOutPoint(a) \in DOMAIN db[n].utxo
    /\ db[n].utxo[ContractOutPoint(a)].value = GetBalance(StateOf(n), a)

\* An account that is no contract has the sum of its outputs as its balance in
\* the world state: the balances that UpdateNormalTxBalanceState and the
\* machine keep agree with the outputs that ApplyBlock keeps.
AccountBacked ==
  ~odd => \A n \in Nodes : Miscounts(n) \/
    \A a \in DOMAIN StateOf(n).bal \ StateOf(n).code :
      GetBalance(StateOf(n), a) =
        SumOf(n, {op \in DOMAIN db[n].utxo : IsPayToPubKeyHash(db[n].utxo[op].script)
                                             /\ db[n].utxo[op].script.to = a})

\* The index by address has exactly the unspent outputs, under their owners:
\* WriteUtxoSetToDB keeps the two in step through connects and rollbacks.
OwnersIndex ==
  \A n \in Nodes :
    db[n].addr = [k \in {AddrUtxoKey(op, db[n].utxo[op].script) : op \in DOMAIN db[n].utxo} |->
                    db[n].utxo[k.op]]

\* The outputs agree with the other records of them, on every node's chain and
\* after rollbacks: the balances of contracts and of accounts, and the index.
OutputsAgree == ContractBacked /\ AccountBacked /\ OwnersIndex

\* The outputs of a token hold the amount it was issued with: no transaction
\* that ValidateTxInputs admits burns or makes tokens, and no rollback does.
TokensConserved ==
  \A n \in Nodes :
    LET held == {op \in DOMAIN db[n].utxo : db[n].utxo[op].script.kind \in {"token", "issue"}}
        id(op) == IF IsTokenIssue(db[n].utxo[op].script) THEN op ELSE db[n].utxo[op].script.arg.token
        amount(t) == FoldSet(LAMBDA op, x : x + db[n].utxo[op].script.arg.amount, 0,
                             {op \in held : id(op) = t})
    IN \A t \in {id(op) : op \in held} :
         amount(t) = LoadBlockInfoByTxHash(t[1], db[n], chain[n]).tx.vout[t[2] + 1].script.arg.amount

\* A block that a producer packed and executed is accepted by every node whose
\* tail is its parent: executeBlock and adjustAndValidateState agree on fees,
\* gas, receipts, internal transactions and the state.
MinedAccepted ==
  odd \/ \A r \in refused : Ambiguous(mined[r[2]], ParentState(mined[r[2]]))

\* What RevertBlock's comment says with no condition: taking a block off and
\* putting it back gives the same ledger.
UndoesApplyBlock == \A m, n \in Nodes : chain[m] = chain[n] => db[m] = db[n]
==============================================================================

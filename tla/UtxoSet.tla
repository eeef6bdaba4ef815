------------------------------ MODULE UtxoSet ------------------------------
(***************************************************************************)
(* core/chain/utxoset.go, core/types/utxo.go and the parts of validate.go  *)
(* and txlogic that read them: the set of unspent outputs a block is       *)
(* loaded into, validated against, applied to and reverted from.           *)
(*                                                                         *)
(* Names stand for hashes. A transaction is [id, vin, vout, signers,       *)
(* type]; id is <<name, content>>, an outpoint <<id, index>>, an output    *)
(* [value, script] and a script [kind, to, arg]. Addresses are tuples. A   *)
(* contract has one outpoint, made of its address. A UtxoSet u is          *)
(* [map, normal, contract], its three Go maps; a world state st is         *)
(* [bal, nonce, code, utxo]; a database db is described in Ledger.         *)
(*                                                                         *)
(* A definition marked "a mistake" changes one detail of the definition    *)
(* that follows it; no other definition uses it.                           *)
(***************************************************************************)
EXTENDS Integers, FiniteSets, SequencesExt

CONSTANTS
  TransferFee, FixedGasPrice, TransferGasLimit,  \* core/const.go
  InOutNumPerExtraFee,
  ContractAddr, Admin                            \* the genesis contract, its caller

Get(f, k, default) == IF k \in DOMAIN f THEN f[k] ELSE default
Sum(s) == FoldLeft(LAMBDA n, x : n + x, 0, s)

------------------------------------------------------------------------------
(* Scripts, outpoints and transactions.                                      *)

NoAddr == <<"none">>
NoArg == [none |-> 0]
NoScript == [kind |-> "empty", to |-> NoAddr, arg |-> NoArg]
PayToPubKeyHashScript(a) == [kind |-> "pkh", to |-> a, arg |-> NoArg]
MakeContractScriptPubkey(from, to, gas, nonce) ==
  [kind |-> IF to = NoAddr THEN "create" ELSE "call", to |-> to,
   arg |-> [from |-> from, gas |-> gas, nonce |-> nonce]]

IsPayToPubKeyHash(s) == s.kind = "pkh"
IsOpReturnScript(s) == s.kind = "opreturn"
IsContractPubkey(s) == s.kind \in {"create", "call"}
IsTokenTransfer(s) == s.kind = "token"
IsTokenIssue(s) == s.kind = "issue"
IsSplitAddrScript(s) == s.kind = "split"

\* CreateAddress, MakeContractAddress
CreateAddress(from, nonce) == <<"new", from, nonce>>
ParseContractAddr(s) ==
  IF s.kind = "create" THEN CreateAddress(s.arg.from, s.arg.nonce) ELSE s.to

ContractOutPoint(a) == <<<<"contract", a>>, 0>>
IsContractType(op) == op[1][1] = "contract"
AddressOf(op) == op[1][2]

NullHash == <<"null", 0>>
IsCoinBase(tx) == tx.vin = <<<<NullHash, 1>>>>
IsInternalContract(tx) == tx.vin = <<<<NullHash, 0>>>>

ExtraFee(tx) == ((Len(tx.vin) + Len(tx.vout)) \div InOutNumPerExtraFee) * TransferFee
OutputAmount(tx) == Sum([i \in DOMAIN tx.vout |-> tx.vout[i].value])

IsContractAddr(st, a) == a \in st.code
GetBalance(st, a) == Get(st.bal, a, 0)
GetNonce(st, a) == Get(st.nonce, a, 0)
AddBalance(st, a, n) == [st EXCEPT !.bal = (a :> GetBalance(st, a) + n) @@ @]
SubBalance(st, a, n) == AddBalance(st, a, 0 - n)
SetNonce(st, a, n) == [st EXCEPT !.nonce = (a :> n) @@ @]

\* the first output that is not a plain payment decides what the transaction
\* is; after it only payments to keys, tokens of the same kind and one note
\* may follow
ParseTxType(tx, st) ==
  LET S(i) == tx.vout[i].script
      pays(i) == IsPayToPubKeyHash(S(i)) /\ IsContractAddr(st, S(i).to)
      special == {i \in DOMAIN tx.vout : pays(i) \/ S(i).kind \notin {"pkh", "opreturn"}}
      first == Min(special)
      type == CASE special = {} -> "pay"
                [] pays(first) \/ IsContractPubkey(S(first)) -> "contract"
                [] OTHER -> S(first).kind
      fits(i) == \/ i <= first
                 \/ S(i).kind \in {"pkh", "opreturn"} /\ ~pays(i)
                 \/ IsTokenTransfer(S(i)) /\ type = "token"
  IN IF /\ special = {} \/ \A i \in DOMAIN tx.vout : fits(i)
        /\ Cardinality({i \in DOMAIN tx.vout : IsOpReturnScript(S(i))}) <= 1
     THEN type ELSE "error"

\* the type is kept in the transaction once it is known
GetTxType(tx, st) == IF tx.type # "unknown" THEN tx.type ELSE ParseTxType(tx, st)

\* the output that calls or creates a contract; a payment to a contract's
\* address calls it, with the sender's next nonce
GetContractVout(tx, st) ==
  LET at == {i \in DOMAIN tx.vout :
               \/ IsContractPubkey(tx.vout[i].script)
               \/ /\ IsPayToPubKeyHash(tx.vout[i].script)
                  /\ IsContractAddr(st, tx.vout[i].script.to)}
      o == tx.vout[Min(at)]
      from == tx.signers[1]
  IN IF IsContractPubkey(o.script) THEN o
     ELSE [o EXCEPT !.script = MakeContractScriptPubkey(from, o.script.to, TransferGasLimit,
                                                         GetNonce(st, from) + 1)]

------------------------------------------------------------------------------
(* The set.                                                                  *)

NewUtxoWrap(v, s, h) == [value |-> v, script |-> s, height |-> h, spent |-> FALSE]
NewUtxoSet == [map |-> <<>>, normal |-> {}, contract |-> {}]

PutUtxo(u, op, w) == [u EXCEPT !.map = (op :> w) @@ @]
FindUtxo(u, op) == Get(u.map, op, [NewUtxoWrap(0, NoScript, 0) EXCEPT !.spent = TRUE])
Unspent(u, op) == ~FindUtxo(u, op).spent
AddValue(u, op, n) == [u EXCEPT !.map[op].value = @ + n]

\* an outpoint that is not there is entered as spent, to be deleted later
SpendUtxo(u, op) == PutUtxo(u, op, [FindUtxo(u, op) EXCEPT !.spent = TRUE])

AddUtxo(u, tx, i, height) ==
  IF \/ i >= Len(tx.vout)
     \/ IsOpReturnScript(tx.vout[i + 1].script) \/ IsContractPubkey(tx.vout[i + 1].script)
     \/ <<tx.id, i>> \in DOMAIN u.map
  THEN u
  ELSE PutUtxo(u, <<tx.id, i>>, NewUtxoWrap(tx.vout[i + 1].value, tx.vout[i + 1].script, height))

\* 0 unless every input is there
TxInputAmount(u, tx) ==
  IF \A i \in DOMAIN tx.vin : Unspent(u, tx.vin[i])
  THEN Sum([i \in DOMAIN tx.vin |-> u.map[tx.vin[i]].value]) ELSE 0

FetchUtxos(u, ops, db) ==
  [u EXCEPT !.map = [op \in ops \cap DOMAIN db.utxo |-> db.utxo[op]] @@ @]

LoadTxUtxos(u, tx, db) == FetchUtxos(u, ToSet(tx.vin), db)

\* what the packer sees of a transaction: the database and the outputs of the
\* transactions it has packed already
GetExtendedTxUtxoSet(tx, db, packed, height) ==
  LET missing(u, op) == ~Unspent(u, op)
      add(u, op) == LET p == SelectInSeq(packed, LAMBDA t : t.id = op[1])
                    IN IF missing(u, op) /\ p # 0 THEN AddUtxo(u, packed[p], op[2], height) ELSE u
  IN FoldLeft(add, LoadTxUtxos(NewUtxoSet, tx, db), tx.vin)

\* outpoints of the contracts a transaction pays
ContractOutPoints(tx, st) ==
  {ContractOutPoint(ParseContractAddr(o.script)) : o \in {x \in ToSet(tx.vout) :
      \/ x.script.kind = "call"
      \/ IsPayToPubKeyHash(x.script) /\ IsContractAddr(st, x.script.to)}}

\* an output of the same block is taken from the block, any other from the
\* database; the contracts' outpoints are wanted unless a block is reverted,
\* and those of the coinbase always
LoadBlockUtxos(b, needContract, db, st) ==
  LET n == Len(b.txs)
      at(id) == SelectInSeq(b.txs, LAMBDA t : t.id = id)
      here(i, op) == at(op[1]) \in 1..i
      wanted(i) == {op \in ToSet(b.txs[i].vin) : needContract \/ ~IsContractType(op)}
      own == UNION {{op \in wanted(i) : here(i, op)} : i \in 2..n}
      other == UNION {{op \in wanted(i) : ~here(i, op)} : i \in 2..n}
      called == UNION {ContractOutPoints(b.txs[i], st) : i \in IF needContract THEN 1..n ELSE {1}}
      mine == FoldSet(LAMBDA op, u : AddUtxo(u, b.txs[at(op[1])], op[2], b.height), NewUtxoSet, own)
  IN FetchUtxos(mine, (other \ DOMAIN mine.map) \cup called, db)

\* before a block is reverted its own outputs are loaded too
LoadBlockAllUtxos(b, needContract, db, st) ==
  LET txs == b.txs \o b.internal
      outs == UNION {{<<txs[i].id, j - 1>> : j \in {k \in DOMAIN txs[i].vout :
                        /\ ~IsOpReturnScript(txs[i].vout[k].script)
                        /\ needContract \/ ~IsContractPubkey(txs[i].vout[k].script)}} :
                     i \in DOMAIN txs}
  IN FetchUtxos(LoadBlockUtxos(b, needContract, db, st), outs, db)

------------------------------------------------------------------------------
(* Applying a block. The result is [ok, u].                                  *)

\* output j of tx
applyUtxo(u, tx, j, height, st) ==
  LET o == tx.vout[j]
      op == <<tx.id, j - 1>>
      paid == ContractOutPoint(o.script.to)
      called == ContractOutPoint(ParseContractAddr(o.script))
      done(v) == [ok |-> TRUE, u |-> v]
      failed == [ok |-> FALSE, u |-> u]
      normal(v) == IF GetTxType(tx, st) # "contract" THEN [v EXCEPT !.normal = @ \cup {op}] ELSE v
      known == IF paid \in DOMAIN u.map THEN u.map[paid] ELSE Get(st.utxo, o.script.to, NoScript)
  IN CASE ~IsContractPubkey(o.script) /\ ~IsContractAddr(st, o.script.to) ->
            IF op \in DOMAIN u.map THEN done(u)
            ELSE done(normal(PutUtxo(u, op, NewUtxoWrap(o.value, o.script, height))))
       [] ~IsContractPubkey(o.script) /\ IsContractAddr(st, o.script.to) ->
            IF o.value = 0 THEN done(u)
            ELSE IF known = NoScript THEN failed
            ELSE done(PutUtxo(u, paid, [known EXCEPT !.value = @ + o.value]))
       [] o.script.kind = "create" ->
            done([PutUtxo(u, called, NewUtxoWrap(0, o.script, height)) EXCEPT !.contract = @ \cup {called}])
       [] o.script.kind = "call" ->
            IF called \notin DOMAIN u.map THEN failed
            ELSE done([AddValue(u, called, o.value) EXCEPT !.contract = @ \cup {called}])

\* a mistake: the outputs are added after the inputs were spent
applyTxInputsFirst(u, tx, height, st) ==
  LET spent == FoldLeft(SpendUtxo, u, tx.vin)
      out(r, j) == IF r.ok /\ ~IsOpReturnScript(tx.vout[j].script)
                   THEN applyUtxo(r.u, tx, j, height, st) ELSE r
  IN FoldLeftDomain(out, [ok |-> TRUE, u |-> spent], tx.vout)

applyTx(u, tx, height, st) ==
  LET out(r, j) == IF r.ok /\ ~IsOpReturnScript(tx.vout[j].script)
                   THEN applyUtxo(r.u, tx, j, height, st) ELSE r
      added == FoldLeftDomain(out, [ok |-> TRUE, u |-> u], tx.vout)
      spend(v, op) == LET w == SpendUtxo(v, op)
                      IN IF GetTxType(tx, st) # "contract" THEN [w EXCEPT !.normal = @ \cup {op}] ELSE w
  IN IF ~added.ok \/ IsCoinBase(tx) \/ IsInternalContract(tx) THEN added
     ELSE [added EXCEPT !.u = FoldLeft(spend, @, tx.vin)]

ApplyBlock(u, b, st) ==
  FoldLeft(LAMBDA r, tx : IF r.ok THEN applyTx(r.u, tx, b.height, st) ELSE r,
           [ok |-> TRUE, u |-> u], b.txs)

\* internal transactions only add what they pay to keys: the contracts' own
\* outpoints were changed when the transactions were made
ApplyInternalTxs(u, b) ==
  LET add(v, tx) == FoldLeftDomain(LAMBDA w, j :
        IF IsPayToPubKeyHash(tx.vout[j].script)
        THEN PutUtxo(w, <<tx.id, j - 1>>, NewUtxoWrap(tx.vout[j].value, tx.vout[j].script, b.height))
        ELSE w, v, tx.vout)
  IN FoldLeft(add, u, b.internal)

\* calcNormalTxBalanceChanges, UpdateNormalTxBalanceState: accounts follow the
\* outputs that transactions without contracts make and spend
UpdateNormalTxBalanceState(b, u, st) ==
  LET pay(s, o) == IF IsPayToPubKeyHash(o.script) THEN AddBalance(s, o.script.to, o.value) ELSE s
      credit(s, tx) == IF GetTxType(tx, st) = "contract" THEN s ELSE FoldLeft(pay, s, tx.vout)
      spent == {op \in DOMAIN u.map \cap u.normal :
                  u.map[op].spent /\ IsPayToPubKeyHash(u.map[op].script)}
  IN FoldSet(LAMBDA op, s : SubBalance(s, u.map[op].script.to, u.map[op].value),
             FoldLeft(credit, st, b.txs), spent)

UpdateContractUtxoState(st, u) ==
  [st EXCEPT !.utxo = [a \in {AddressOf(op) : op \in u.contract} |-> u.map[ContractOutPoint(a)]] @@ @]

------------------------------------------------------------------------------
(* Reverting a block.                                                        *)

\* [found, tx, height]; c is the chain, the genesis block at height 0
LoadBlockInfoByTxHash(id, d, c) ==
  LET none == [found |-> FALSE, tx |-> [vout |-> <<>>], height |-> 0]
      at == d.txIndex[id]
      b == c[at.height + 1]
      own == b.txs \o b.internal
      tx == IF at.index <= Len(own) THEN own[at.index] ELSE d.tx[id]
  IN IF \/ id \notin DOMAIN d.txIndex \/ at.height >= Len(c)
        \/ at.index > Len(own) /\ id \notin DOMAIN d.tx
        \/ tx.id # id
     THEN none ELSE [found |-> TRUE, tx |-> tx, height |-> at.height]

\* an input that is neither in the set nor found by its hash is a panic, here
\* ok = FALSE
RevertTx(r, tx, d, c) ==
  LET drop(v, j) == IF IsOpReturnScript(tx.vout[j].script) \/ IsContractPubkey(tx.vout[j].script)
                    THEN v ELSE SpendUtxo(v, <<tx.id, j - 1>>)
      dropped == FoldLeftDomain(drop, r.u, tx.vout)
      back(q, op) ==
        LET prev == LoadBlockInfoByTxHash(op[1], d, c)
            out == prev.tx.vout[op[2] + 1]
        IN CASE IsContractType(op) -> q
             [] op \in DOMAIN q.u.map -> [q EXCEPT !.u.map[op].spent = FALSE]
             [] ~prev.found -> [q EXCEPT !.ok = FALSE]
             [] IsOpReturnScript(out.script) -> q
             [] OTHER -> [q EXCEPT !.u = PutUtxo(@, op, NewUtxoWrap(out.value, out.script, prev.height))]
  IN IF IsCoinBase(tx) \/ IsInternalContract(tx) THEN [r EXCEPT !.u = dropped]
     ELSE FoldLeft(back, [r EXCEPT !.u = dropped], tx.vin)

\* a mistake: first to last
RevertBlockForward(u, b, d, c) ==
  FoldLeft(LAMBDA r, tx : RevertTx(r, tx, d, c), [ok |-> TRUE, u |-> u], b.txs \o b.internal)

RevertBlock(u, b, d, c) ==
  FoldLeft(LAMBDA r, tx : RevertTx(r, tx, d, c), [ok |-> TRUE, u |-> u],
           Reverse(b.txs \o b.internal))

\* what the block paid to each contract and what internal transactions took
\* from it; an internal payment to a contract is not counted
calcContractAddrBalanceChanges(b, st) ==
  LET paid(o) == IF IsContractPubkey(o.script) THEN ParseContractAddr(o.script) ELSE o.script.to
      outs == SelectSeq(FlattenSeq([i \in DOMAIN b.txs |-> b.txs[i].vout]),
                        LAMBDA o : \/ IsContractPubkey(o.script)
                                   \/ IsPayToPubKeyHash(o.script) /\ IsContractAddr(st, o.script.to))
      ins == SelectSeq(b.internal, LAMBDA tx : IsContractType(tx.vin[1]))
      add(f, o) == (paid(o) :> Get(f, paid(o), 0) + o.value) @@ f
      sub(f, tx) == LET a == AddressOf(tx.vin[1])
                    IN (a :> Get(f, a, 0) + OutputAmount(tx)) @@ f
  IN [add |-> FoldLeft(add, <<>>, outs), sub |-> FoldLeft(sub, <<>>, ins)]

\* a mistake: as they are in the block's own state
MakeRollbackContractUtxosOwn(b, parentSt) ==
  LET change == calcContractAddrBalanceChanges(b, b.root)
  IN [ok |-> TRUE, map |-> [op \in {ContractOutPoint(a) : a \in DOMAIN change.add \cup DOMAIN change.sub} |->
                              b.root.utxo[AddressOf(op)]]]

\* the contracts' outpoints as they were in the parent's state; ok is FALSE
\* when the balance that results is not the parent's
MakeRollbackContractUtxos(b, parentSt) ==
  LET st == b.root
      change == calcContractAddrBalanceChanges(b, st)
      touched == DOMAIN change.add \cup DOMAIN change.sub
      before(a) == GetBalance(st, a) - Get(change.add, a, 0) + Get(change.sub, a, 0)
      spentWrap(a) == [NewUtxoWrap(before(a), MakeContractScriptPubkey(NoAddr, a, TransferGasLimit,
                                     GetNonce(parentSt, a)), b.height) EXCEPT !.spent = TRUE]
  IN [ok |-> \A a \in touched : before(a) = GetBalance(parentSt, a),
      map |-> [op \in {ContractOutPoint(a) : a \in touched} |->
                 Get(parentSt.utxo, AddressOf(op), spentWrap(AddressOf(op)))]]

------------------------------------------------------------------------------
(* WriteUtxoSetToDB: each outpoint under its own key and under its owner's.  *)

AddrUtxoKey(op, s) ==
  CASE IsTokenTransfer(s) -> [addr |-> s.to, token |-> s.arg.token, op |-> op]
    [] IsTokenIssue(s) -> [addr |-> s.to, token |-> op, op |-> op]
    [] IsContractType(op) -> [addr |-> AddressOf(op), token |-> <<>>, op |-> op]
    [] OTHER -> [addr |-> s.to, token |-> <<>>, op |-> op]

WriteUtxoSetToDB(u, db) ==
  LET gone == {op \in DOMAIN u.map : u.map[op].spent}
      kept == DOMAIN u.map \ gone
      keys(S) == {AddrUtxoKey(op, u.map[op].script) :
                    op \in {o \in S : u.map[o].script # NoScript \/ IsContractType(o)}}
      without(f, S) == [x \in DOMAIN f \ S |-> f[x]]
  IN [db EXCEPT
        !.utxo = [op \in kept |-> u.map[op]] @@ without(@, gone),
        !.addr = [k \in keys(kept) |-> u.map[k.op]] @@ without(@, keys(gone))]

------------------------------------------------------------------------------
(* validate.go: inputs and fees. The result is [ok, fee].                    *)

\* amounts of each token, of the outputs os at the outpoints ops
TokenAmounts(os, ops) ==
  LET id(i) == IF IsTokenIssue(os[i].script) THEN ops[i] ELSE os[i].script.arg.token
      n(i) == os[i].script.arg.amount
  IN FoldLeftDomain(LAMBDA f, i : IF IsTokenIssue(os[i].script) \/ IsTokenTransfer(os[i].script)
                                  THEN (id(i) :> Get(f, id(i), 0) + n(i)) @@ f ELSE f, <<>>, os)

\* a mistake: tokens that come in need not go out
ValidateTxInputsTokenless(u, tx) ==
  LET in == TxInputAmount(u, tx)
  IN [ok |-> (\A i \in DOMAIN tx.vin : Unspent(u, tx.vin[i])) /\ in >= OutputAmount(tx),
      fee |-> in - OutputAmount(tx)]

ValidateTxInputs(u, tx) ==
  LET in == TxInputAmount(u, tx)
      moved == SelectSeq(tx.vout, LAMBDA o : IsTokenTransfer(o.script))
  IN [ok |-> /\ \A i \in DOMAIN tx.vin : Unspent(u, tx.vin[i])
             /\ in >= OutputAmount(tx)
             /\ TokenAmounts([i \in DOMAIN tx.vin |-> u.map[tx.vin[i]]], tx.vin) = TokenAmounts(moved, <<>>),
      fee |-> in - OutputAmount(tx)]

\* CheckTxScripts: every input is there and its owner has signed
CheckTxScripts(u, tx) ==
  \A i \in DOMAIN tx.vin : Unspent(u, tx.vin[i]) /\ u.map[tx.vin[i]].script.to = tx.signers[i]

\* a mistake: the gas of a contract call counts as a fee
validateBlockInputsGas(u, b, st) ==
  LET user == SelectSeq(b.txs, LAMBDA tx : ~IsCoinBase(tx) /\ ~IsInternalContract(tx))
  IN [ok |-> \A i \in DOMAIN user : ValidateTxInputs(u, user[i]).ok,
      fee |-> Sum([i \in DOMAIN user |-> ValidateTxInputs(u, user[i]).fee])]

validateBlockInputs(u, b, st) ==
  LET user == SelectSeq(b.txs, LAMBDA tx : ~IsCoinBase(tx) /\ ~IsInternalContract(tx))
      contract(tx) == GetTxType(tx, st) = "contract"
      arg(tx) == GetContractVout(tx, st).script.arg
      right(tx) ==
        LET r == ValidateTxInputs(u, tx)
        IN /\ r.ok
           /\ IF contract(tx)
              THEN /\ r.fee = arg(tx).gas * FixedGasPrice + ExtraFee(tx)
                   /\ u.map[tx.vin[1]].script.to = arg(tx).from
              ELSE r.fee = TransferFee + ExtraFee(tx)
  IN [ok |-> \A i \in DOMAIN user : right(user[i]),
      fee |-> Sum([i \in DOMAIN user |->
                     IF contract(user[i]) THEN 0 ELSE TransferFee + ExtraFee(user[i])])]

\* validateBlock: one coinbase, first; no output spent twice; known scripts
validateBlock(b, st) ==
  LET spends == FlattenSeq([i \in DOMAIN b.txs |-> b.txs[i].vin])
  IN /\ b.txs # <<>> /\ IsCoinBase(b.txs[1])
     /\ \A i \in 2..Len(b.txs) : ~IsCoinBase(b.txs[i])
     /\ \A i, j \in DOMAIN spends : i # j => spends[i] # spends[j]
     /\ \A i \in DOMAIN b.txs : b.txs[i].vin # <<>> /\ b.txs[i].vout # <<>> /\ GetTxType(b.txs[i], st) # "error"
==============================================================================

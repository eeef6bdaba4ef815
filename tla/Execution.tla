----------------------------- MODULE Execution -----------------------------
(***************************************************************************)
(* core/chain/state_processor.go, state_transition.go, evm.go and the      *)
(* calls and creations of vm/evm.go: how a block's contract transactions   *)
(* change the world state, and the internal transactions that carry the    *)
(* same payments into the set of unspent outputs.                          *)
(*                                                                         *)
(* What the bytecode does is a program: [ok, gas, refund, steps]. A step   *)
(* is a call or a creation with a value, made when an account holds enough *)
(* (the BALANCE instruction); "undone" is a call whose callee reverted.    *)
(***************************************************************************)
EXTENDS UtxoSet

CONSTANTS
  Program,          \* name of a transaction -> its program
  VoutLimit,        \* outputs of an internal transaction
  IntrinsicGas,
  MaxBlockGasLimit

NoProgram == [ok |-> TRUE, gas |-> 0, refund |-> 0, steps |-> <<>>]

------------------------------------------------------------------------------
(* The machine: x is [st, transfers, created]. transfers is the Go map from  *)
(* a sender to its payments, in the order the senders were entered.          *)

\* payments of a contract are noted, one entry for each receiver
Transfer(x, from, to, n) ==
  LET moved == AddBalance(SubBalance(x.st, from, n), to, n)
      at == SelectInSeq(x.transfers, LAMBDA t : t.from = from)
      entry == [to |-> to, value |-> n]
      add(list) == LET i == SelectInSeq(list, LAMBDA t : t.to = to)
                   IN IF i = 0 THEN Append(list, entry) ELSE [list EXCEPT ![i].value = @ + n]
  IN [x EXCEPT
        !.st = moved,
        !.transfers = CASE ~IsContractAddr(moved, from) \/ n = 0 -> @
                        [] at = 0 -> Append(@, [from |-> from, list |-> <<entry>>])
                        [] OTHER -> [@ EXCEPT ![at].list = add(@)]]

ContractCreated(x, caller, addr, n, nonce) ==
  [x EXCEPT !.created = Append(@, [caller |-> caller, address |-> addr, value |-> n, nonce |-> nonce])]

CanTransfer(st, from, n) == GetBalance(st, from) >= n

\* one instruction of the program that calls or creates; what cannot be paid
\* is not done, and what the callee reverts is undone in the state only
RunStep(x, s) ==
  LET nonce == GetNonce(x.st, s.from) + 1
      addr == CreateAddress(s.from, nonce)
      born == ContractCreated(Transfer([x EXCEPT !.st = SetNonce(SetNonce(@, s.from, nonce), addr, 1)],
                                       s.from, addr, s.value), s.from, addr, s.value, nonce)
  IN CASE ~CanTransfer(x.st, s.from, s.value) \/ GetBalance(x.st, s.when) < s.atLeast -> x
       [] s.op = "call" -> Transfer(x, s.from, s.to, s.value)
       [] s.op = "undone" -> [Transfer(x, s.from, s.to, s.value) EXCEPT !.st = x.st]
       [] s.op = "create" -> [born EXCEPT !.st.code = @ \cup {addr}]

\* evm.run: [x, ok, left]; running out of gas costs all of it, a revert does not
Run(x, p, gas) ==
  IF p.gas > gas THEN [x |-> x, ok |-> FALSE, left |-> 0]
  ELSE [x |-> FoldLeft(RunStep, x, p.steps), ok |-> p.ok, left |-> gas - p.gas]

\* [x, ok, poor, left]: poor is ErrInsufficientBalance, the only error that
\* makes the block invalid
Poor(x, gas) == [x |-> x, ok |-> FALSE, poor |-> TRUE, left |-> gas]

\* what a run that failed did to the state is undone, up to the snapshot
Ended(r, snapshot) ==
  [x |-> IF r.ok THEN r.x ELSE [r.x EXCEPT !.st = snapshot], ok |-> r.ok, poor |-> FALSE, left |-> r.left]

Call(x, from, to, gas, value, p) ==
  IF ~CanTransfer(x.st, from, value) THEN Poor(x, gas)
  ELSE IF to \notin DOMAIN x.st.bal /\ value = 0
    THEN [x |-> x, ok |-> TRUE, poor |-> FALSE, left |-> gas]
  ELSE Ended(Run(Transfer(x, from, to, value), p, gas), x.st)

Coded(r, addr) == IF r.ok THEN [r EXCEPT !.x.st.code = @ \cup {addr}] ELSE r

Create(x, from, gas, value, p) ==
  LET nonce == GetNonce(x.st, from) + 1
      addr == CreateAddress(from, nonce)
      called == [x EXCEPT !.st = SetNonce(@, from, nonce)]
      born == ContractCreated(Transfer([called EXCEPT !.st = SetNonce(@, addr, 1)], from, addr, value),
                              from, addr, value, nonce)
  IN IF ~CanTransfer(x.st, from, value) THEN Poor(x, gas)
     ELSE IF GetNonce(x.st, addr) # 0 \/ IsContractAddr(x.st, addr)
       THEN [x |-> called, ok |-> FALSE, poor |-> FALSE, left |-> 0]
     ELSE Ended(Coded(Run(born, p, gas), addr), called.st)

------------------------------------------------------------------------------
(* state_transition.go                                                       *)

Lesser(a, b) == IF a < b THEN a ELSE b

\* refundGas: r is the result of the call or the creation
refundGas(st, vt, p, r) ==
  LET left == r.left + Lesser((vt.gas - r.left) \div 2, IF r.ok THEN p.refund ELSE 0)
      remaining == left * vt.price
  IN [err |-> GetBalance(st, vt.from) < vt.gas * vt.price \/ vt.gas < IntrinsicGas \/ r.poor,
      failed |-> ~r.ok,
      x |-> [r.x EXCEPT !.st = AddBalance(@, vt.from, remaining)],
      used |-> vt.gas - left,
      remaining |-> remaining]

\* [err, failed, x, used, remaining]
TransitionDb(st, vt, p) ==
  LET x0 == [st |-> SubBalance(st, vt.from, vt.gas * vt.price), transfers |-> <<>>, created |-> <<>>]
      called == [x0 EXCEPT !.st = SetNonce(@, vt.from, GetNonce(@, vt.from) + 1)]
      gas == vt.gas - IntrinsicGas
  IN refundGas(st, vt, p, IF vt.create THEN Create(x0, vt.from, gas, vt.value, p)
                          ELSE Call(called, vt.from, vt.to, gas, vt.value, p))

InternalTx(vin, nonce, vout) ==
  [id |-> <<"internal", <<vin, nonce, vout>>>>, vin |-> <<vin>>, vout |-> vout,
   signers |-> <<NoAddr>>, type |-> "unknown"]

createGasRefundUtxoTx(from, value, nonce) ==
  InternalTx(<<NullHash, 1>>, nonce, <<[value |-> value, script |-> PayToPubKeyHashScript(from)]>>)

------------------------------------------------------------------------------
(* Internal transactions. r is [err, u, txs].                                *)

\* payments begin + 1 .. end of one sender, as one transaction
makeTx(r, t, nonce, begin, end, db, st) ==
  LET inOp == ContractOutPoint(t.from)
      loaded == IF inOp \in DOMAIN r.u.map THEN r.u ELSE FetchUtxos(r.u, {inOp}, db)
      script(to) == IF IsContractAddr(st, to) THEN MakeContractScriptPubkey(t.from, to, 1, 0)
                    ELSE PayToPubKeyHashScript(to)
      list == SubSeq(t.list, begin + 1, end)
      receive(u, to, n) ==
        LET op == ContractOutPoint(to)
            have == IF op \in DOMAIN u.map \/ to \notin DOMAIN st.utxo THEN u
                    ELSE PutUtxo(u, op, st.utxo[to])
        IN IF IsContractAddr(st, to) /\ op \in DOMAIN have.map
           THEN [AddValue(have, op, n) EXCEPT !.contract = @ \cup {op}] ELSE have
      pay(q, i) ==
        LET v == receive(q.u, i.to, i.value)
        IN IF q.err \/ (IsContractAddr(st, i.to) /\ ContractOutPoint(i.to) \notin DOMAIN v.map)
                    \/ v.map[inOp].value < i.value
           THEN [q EXCEPT !.err = TRUE]
           ELSE [q EXCEPT !.u = AddValue(v, inOp, 0 - i.value)]
      vouts == [i \in DOMAIN list |-> [value |-> list[i].value, script |-> script(list[i].to)]]
      known == inOp \in DOMAIN loaded.map
      start == [r EXCEPT !.u = [loaded EXCEPT !.contract = @ \cup {inOp}], !.err = @ \/ ~known]
  IN IF r.err \/ ~known THEN [r EXCEPT !.err = TRUE]
     ELSE [FoldLeft(pay, start, list) EXCEPT !.txs = Append(@, InternalTx(inOp, nonce, vouts))]

\* the chunks of a long list; the last one ends at its length less its start
createChunks(r, t, nonce, db, st) ==
  LET n == Len(t.list)
      chunk(q, i) ==
        LET begin == (i - 1) * VoutLimit
        IN makeTx(q, t, nonce, begin, IF i * VoutLimit < n THEN i * VoutLimit ELSE n - begin, db, st)
  IN IF n > VoutLimit THEN FoldLeft(chunk, r, [i \in 1..(n \div VoutLimit + 1) |-> i])
     ELSE makeTx(r, t, nonce, 0, n, db, st)

\* the senders come in the order of a Go map: ord is "asc" or "desc"
createUtxoTx(transfers, nonce, u, db, st, ord) ==
  FoldLeft(LAMBDA r, t : createChunks(r, t, nonce, db, st), [err |-> FALSE, u |-> u, txs |-> <<>>],
           IF ord = "asc" THEN transfers ELSE Reverse(transfers))

\* the value of a failed call goes back to its sender
createRefundTx(vt, nonce, u, addr) ==
  LET op == ContractOutPoint(addr)
  IN [err |-> ~vt.create /\ (op \notin DOMAIN u.map \/ FindUtxo(u, op).value < vt.value),
      u |-> IF vt.create \/ op \notin DOMAIN u.map THEN u ELSE AddValue(u, op, 0 - vt.value),
      txs |-> <<InternalTx(op, nonce, <<[value |-> vt.value, script |-> PayToPubKeyHashScript(vt.from)]>>)>>]

\* the outpoint of a contract that a contract creates is filled by the
\* internal transaction that pays it
addNewContractUtxos(items, u, st, height) ==
  LET add(v, item) ==
        LET op == ContractOutPoint(item.address)
            value == IF IsContractAddr(st, item.caller) THEN 0 ELSE item.value
            w == NewUtxoWrap(value, MakeContractScriptPubkey(item.caller, item.address, 1, item.nonce), height)
        IN [(IF op \in DOMAIN v.map THEN AddValue(v, op, item.value) ELSE PutUtxo(v, op, w))
              EXCEPT !.contract = @ \cup {op}]
  IN FoldLeft(add, u, items)

------------------------------------------------------------------------------
(* state_processor.go                                                        *)

\* [is, from, to, value, gas, price, nonce, create]
ExtractVMTransaction(tx, st) ==
  LET o == GetContractVout(tx, st)
      a == o.script.arg
  IN [from |-> a.from, to |-> o.script.to, value |-> o.value, gas |-> a.gas,
      price |-> IF IsCoinBase(tx) \/ IsInternalContract(tx) THEN 0 ELSE FixedGasPrice,
      nonce |-> a.nonce, create |-> o.script.kind = "create"]

\* the payments a transaction made, as internal transactions; t is the result
\* of TransitionDb
createTxs(t, vt, addr, u, db, ord) ==
  LET nonce == GetNonce(t.x.st, vt.from)
  IN IF ~t.failed THEN createUtxoTx(t.x.transfers, nonce, u, db, t.x.st, ord)
     ELSE IF vt.value > 0 THEN createRefundTx(vt, nonce, u, addr)
     ELSE [err |-> FALSE, u |-> u, txs |-> <<>>]

\* the outpoints of the contracts that t created
withNewContracts(t, vt, addr, u, height) ==
  LET news == addNewContractUtxos(t.x.created, u, t.x.st, height)
  IN IF t.failed THEN u
     ELSE IF vt.create
       THEN AddValue(news, ContractOutPoint(addr), GetBalance(t.x.st, addr) - vt.value)
     ELSE news

Applied(tx, vt, t, addr, made) ==
  LET nonce == GetNonce(t.x.st, vt.from)
      gasTx == IF t.remaining = 0 THEN <<>> ELSE <<createGasRefundUtxoTx(vt.from, t.remaining, nonce)>>
      txs == gasTx \o made.txs
  IN [err |-> t.err \/ made.err, st |-> t.x.st, u |-> made.u, txs |-> txs, used |-> t.used,
      receipt |-> [tx |-> tx.id, contract |-> addr, failed |-> t.failed, used |-> t.used,
                   internal |-> [i \in DOMAIN txs |-> txs[i].id]]]

Transitioned(tx, vt, t, u, db, height, ord) ==
  LET addr == IF vt.create THEN CreateAddress(vt.from, vt.nonce) ELSE vt.to
  IN Applied(tx, vt, t, addr, createTxs(t, vt, addr, withNewContracts(t, vt, addr, u, height), db, ord))

\* [err, st, u, txs, used, receipt]
ApplyTransaction(tx, vt, u, db, st, height, ord) ==
  Transitioned(tx, vt, TransitionDb(st, vt, Get(Program, tx.id[1], NoProgram)), u, db, height, ord)

\* one turn of Process; a is the result of ApplyTransaction
Accumulated(r, tx, vt, a) ==
  LET gas == vt.price * a.used + ExtraFee(tx)
  IN IF a.err THEN [r EXCEPT !.err = TRUE]
     ELSE [err |-> FALSE, st |-> a.st, u |-> a.u, receipts |-> Append(r.receipts, a.receipt),
           used |-> r.used + gas, sum |-> r.sum + gas, txs |-> r.txs \o a.txs]

ProcessTx(r, tx, db, height, ord) ==
  LET vt == ExtractVMTransaction(tx, r.st)
  IN IF r.err THEN r
     ELSE IF r.sum > MaxBlockGasLimit THEN [r EXCEPT !.err = TRUE]
     ELSE IF GetTxType(tx, r.st) # "contract" THEN [r EXCEPT !.sum = @ + TransferFee + ExtraFee(tx)]
     ELSE IF vt.nonce # GetNonce(r.st, vt.from) + 1 THEN [r EXCEPT !.err = TRUE]
     ELSE Accumulated(r, tx, vt, ApplyTransaction(tx, vt, r.u, db, r.st, height, ord))

\* [err, st, u, receipts, used, sum, txs]
Process(b, st, u, db, ord) ==
  FoldLeft(LAMBDA r, tx : ProcessTx(r, tx, db, b.height, ord),
           [err |-> FALSE, st |-> st, u |-> u, receipts |-> <<>>, used |-> 0, sum |-> 0, txs |-> <<>>],
           b.txs)
==============================================================================

------------------------------- MODULE StateDB -------------------------------
(***************************************************************************)
(* The world state of core/worldstate: the accounts in a trie, the live    *)
(* objects that cache and collect changes, and the journal from which the  *)
(* changes since a snapshot are undone. A StateDB is the record            *)
(*   [trie, codes, objs, dirtyObjs, journal, dirties, revs, nextId,        *)
(*    refund, logs, logSize, thash]                                        *)
(* and an operation takes one and returns the one after it. The hash of a  *)
(* code is the code; the root of an account's storage is its trie. Reading *)
(* an account also caches it, which nothing can observe: it is modelled    *)
(* where the account is then changed. Logs are kept by transaction.        *)
(***************************************************************************)
EXTENDS Trie, TLC

CONSTANTS
  Addrs, Keys,            \* accounts, storage keys
  Path,                   \* their keys in a trie
  Txs                     \* transactions of a block: 1, 2, ...

NoCode == "none"          \* nil code, and the hash of it
None == [none |-> TRUE]   \* a map has no such entry
Addresses == {Path[a] : a \in Addrs}

Account(nonce, balance, root, codeHash) ==
  [nonce |-> nonce, balance |-> balance, root |-> root, codeHash |-> codeHash]

newObject(data) ==
  [data |-> data, trie |-> data.root, code |-> NoCode, dirtyCode |-> FALSE,
   origin |-> [k \in {} |-> 0], dirty |-> [k \in {} |-> 0],
   suicided |-> FALSE, deleted |-> FALSE]

\* a database is opened at the root of a block; codes are in the same table
New(root, codes) ==
  [trie |-> root, codes |-> codes, objs |-> [a \in Addrs |-> None], dirtyObjs |-> {},
   journal |-> <<>>, dirties |-> [a \in Addrs |-> 0], revs |-> <<>>, nextId |-> 0,
   refund |-> 0, logs |-> [t \in Txs |-> <<>>], logSize |-> 0, thash |-> 0]

------------------------------------------------------------------------------
(* Reading.                                                                  *)

\* the live object, else the one the trie holds
getStateObject(s, a) ==
  IF s.objs[a] /= None THEN IF s.objs[a].deleted THEN None ELSE s.objs[a]
  ELSE LET data == get(s.trie, Path[a]) IN IF data = Nil THEN None ELSE newObject(data)

Exist(s, a) == getStateObject(s, a) /= None
GetBalance(s, a) == IF Exist(s, a) THEN getStateObject(s, a).data.balance ELSE 0
GetNonce(s, a) == IF Exist(s, a) THEN getStateObject(s, a).data.nonce ELSE 0
HasSuicided(s, a) == Exist(s, a) /\ getStateObject(s, a).suicided

\* the code of an object: what it carries, else what the database has for its hash
Code(s, o) ==
  CASE o.code /= NoCode -> o.code
    [] o.code = NoCode /\ o.data.codeHash = NoCode -> NoCode
    [] o.code = NoCode /\ o.data.codeHash /= NoCode ->
         IF o.data.codeHash \in s.codes THEN o.data.codeHash ELSE "lost"
GetCode(s, a) == IF Exist(s, a) THEN Code(s, getStateObject(s, a)) ELSE NoCode

GetCommittedState(o, k) ==
  IF k \in DOMAIN o.origin THEN o.origin[k]
  ELSE LET enc == get(o.trie, Path[k]) IN IF enc = Nil THEN 0 ELSE enc.content
GetObjState(o, k) == IF k \in DOMAIN o.dirty THEN o.dirty[k] ELSE GetCommittedState(o, k)
GetState(s, a, k) == IF Exist(s, a) THEN GetObjState(getStateObject(s, a), k) ELSE 0

------------------------------------------------------------------------------
(* The journal: each change appends an entry that can undo it, and counts    *)
(* its account as dirty.                                                     *)

Put(f, x, v) == (x :> v) @@ f

dirtied(e) == IF e.change \in {"resetObject", "refund", "addLog"} THEN {} ELSE {e.account}
append(s, e) ==
  [s EXCEPT !.journal = Append(@, e),
            !.dirties = [a \in Addrs |-> IF a \in dirtied(e) THEN @[a] + 1 ELSE @[a]]]
setStateObject(s, a, o) == [s EXCEPT !.objs[a] = o]

createObject(s, a) ==
  LET prev == getStateObject(s, a)
      e == IF prev = None THEN [change |-> "createObject", account |-> a]
           ELSE [change |-> "resetObject", account |-> a, prev |-> prev]
  IN setStateObject(append(s, e), a,
                    newObject(Account(0, 0, Nil, NoCode)))

\* the balance is carried over, outside the journal
CreateAccount(s, a) ==
  [createObject(s, a) EXCEPT !.objs[a].data.balance = GetBalance(s, a)]

\* the object of an account is made live, or created
getOrNewStateObject(s, a) ==
  IF Exist(s, a) THEN setStateObject(s, a, getStateObject(s, a)) ELSE createObject(s, a)

SetBalance(s, a, amount) ==
  LET t == getOrNewStateObject(s, a)
      e == [change |-> "balance", account |-> a, prevBalance |-> t.objs[a].data.balance]
  IN [append(t, e) EXCEPT !.objs[a].data.balance = amount]

empty(o) == o.data.nonce = 0 /\ o.data.balance = 0 /\ o.data.codeHash = NoCode
touch(s, a) == append(s, [change |-> "touch", account |-> a])

AddBalance(s, a, amount) ==
  LET t == getOrNewStateObject(s, a)
  IN CASE amount /= 0 -> SetBalance(t, a, t.objs[a].data.balance + amount)
       [] amount = 0 /\ empty(t.objs[a]) -> touch(t, a)
       [] amount = 0 /\ ~empty(t.objs[a]) -> t
SubBalance(s, a, amount) ==
  LET t == getOrNewStateObject(s, a)
  IN IF amount = 0 THEN t ELSE SetBalance(t, a, t.objs[a].data.balance - amount)

SetNonce(s, a, nonce) ==
  LET t == getOrNewStateObject(s, a)
      e == [change |-> "nonce", account |-> a, prevNonce |-> t.objs[a].data.nonce]
  IN [append(t, e) EXCEPT !.objs[a].data.nonce = nonce]

setCode(o, hash, code) == [o EXCEPT !.code = code, !.data.codeHash = hash, !.dirtyCode = TRUE]
SetCode(s, a, code) ==
  LET t == getOrNewStateObject(s, a)
      o == t.objs[a]
      e == [change |-> "code", account |-> a, prevHash |-> o.data.codeHash, prevCode |-> Code(t, o)]
  IN setStateObject(append(t, e), a, setCode(o, code, code))

\* writing a slot reads it first, and so remembers what the trie has
SetState(s, a, k, v) ==
  LET t == getOrNewStateObject(s, a)
      o == t.objs[a]
      read == IF k \in DOMAIN o.dirty THEN o
              ELSE [o EXCEPT !.origin = Put(@, k, GetCommittedState(o, k))]
      e == [change |-> "storage", account |-> a, key |-> k, prevalue |-> GetObjState(o, k)]
  IN IF GetObjState(o, k) = v THEN setStateObject(t, a, read)
     ELSE setStateObject(append(t, e), a, [read EXCEPT !.dirty = Put(@, k, v)])

Suicide(s, a) ==
  LET t == getOrNewStateObject(s, a)
      o == t.objs[a]
      e == [change |-> "suicide", account |-> a, prev |-> o.suicided,
            prevBalance |-> o.data.balance]
  IN IF ~Exist(s, a) THEN s
     ELSE setStateObject(append(t, e), a, [o EXCEPT !.suicided = TRUE, !.data.balance = 0])

AddRefund(s, gas) ==
  [append(s, [change |-> "refund", prevRefund |-> s.refund]) EXCEPT !.refund = @ + gas]

AddLog(s, a) ==
  [append(s, [change |-> "addLog", txhash |-> s.thash])
     EXCEPT !.logs[s.thash] = Append(@, [address |-> a, index |-> s.logSize]),
            !.logSize = @ + 1]

Prepare(s, thash) == [s EXCEPT !.thash = thash]

------------------------------------------------------------------------------
(* Snapshots.                                                                *)

Snapshot(s) ==
  [s EXCEPT !.nextId = @ + 1,
            !.revs = Append(@, [id |-> s.nextId, journalIndex |-> Len(s.journal)])]

revertCreate(s, e) ==
  [s EXCEPT !.objs[e.account] = None, !.dirtyObjs = @ \ {e.account}]

revertSuicide(s, e) ==
  [s EXCEPT !.objs[e.account].suicided = e.prev, !.objs[e.account].data.balance = e.prevBalance]

undo(s, e) ==
  CASE e.change = "createObject" -> revertCreate(s, e)
    [] e.change = "resetObject" -> setStateObject(s, e.account, e.prev)
    [] e.change = "suicide" -> revertSuicide(s, e)
    [] e.change = "touch" -> s
    [] e.change = "balance" -> [s EXCEPT !.objs[e.account].data.balance = e.prevBalance]
    [] e.change = "nonce" -> [s EXCEPT !.objs[e.account].data.nonce = e.prevNonce]
    [] e.change = "code" ->
         [s EXCEPT !.objs[e.account] = setCode(@, e.prevHash, e.prevCode)]
    [] e.change = "storage" -> [s EXCEPT !.objs[e.account].dirty = Put(@, e.key, e.prevalue)]
    [] e.change = "refund" -> [s EXCEPT !.refund = e.prevRefund]
    [] e.change = "addLog" ->
         [s EXCEPT !.logs[e.txhash] = Front(@), !.logSize = @ - 1]

\* undo the entries from the last to the first, and what they counted as dirty
revert(s, snapshot) ==
  LET undone == Reverse(SubSeq(s.journal, snapshot + 1, Len(s.journal)))
      drop(t, e) == [undo(t, e) EXCEPT
                       !.dirties = [a \in Addrs |-> IF a \in dirtied(e) THEN @[a] - 1 ELSE @[a]]]
  IN [FoldLeft(drop, s, undone) EXCEPT !.journal = SubSeq(@, 1, snapshot)]

RevertToSnapshot(s, id) ==
  LET i == CHOOSE i \in DOMAIN s.revs : s.revs[i].id = id
  IN [revert(s, s.revs[i].journalIndex) EXCEPT !.revs = SubSeq(@, 1, i - 1)]

------------------------------------------------------------------------------
(* Commit: Go visits the maps in any order, here the orders addrs and keys.  *)

Encoded(v) == [content |-> v]

writeSlot(tr, k, v) ==
  IF v = 0 THEN delete(tr, Path[k]) ELSE update(tr, Path[k], Encoded(v))

updateTrie(o, keys) ==
  LET slot(p, k) ==
        IF k \notin DOMAIN p.dirty \/ p.dirty[k] = p.origin[k] THEN p
        ELSE [p EXCEPT !.trie = writeSlot(@, k, p.dirty[k]), !.origin[k] = p.dirty[k]]
  IN [FoldLeft(slot, o, keys) EXCEPT !.dirty = [k \in {} |-> 0]]
updateRoot(o, keys) == LET p == updateTrie(o, keys) IN [p EXCEPT !.data.root = p.trie]

\* deleting twice is an error that is only remembered
deleteStateObject(s, a) ==
  LET tr == delete(s.trie, Path[a])
  IN [s EXCEPT !.objs[a].deleted = TRUE, !.trie = IF tr = NotFound THEN @ ELSE tr]
updateStateObject(s, a) == [s EXCEPT !.trie = update(@, Path[a], s.objs[a].data)]

clearJournalAndRefund(s) ==
  [s EXCEPT !.journal = <<>>, !.dirties = [a \in Addrs |-> 0], !.revs = <<>>, !.refund = 0]

finaliseObject(s, a, keys) ==
  [IF s.objs[a].suicided THEN deleteStateObject(s, a)
   ELSE updateStateObject(setStateObject(s, a, updateRoot(s.objs[a], keys)), a)
   EXCEPT !.dirtyObjs = @ \cup {a}]
finalise(s, addrs, keys) ==
  LET visit(t, a) == IF s.dirties[a] > 0 /\ s.objs[a] /= None THEN finaliseObject(t, a, keys) ELSE t
  IN clearJournalAndRefund(FoldLeft(visit, s, addrs))

commitCode(s, o) ==
  IF o.code /= NoCode /\ o.dirtyCode THEN s.codes \cup {o.code} ELSE s.codes

commitObject(s, a, keys) ==
  LET o == s.objs[a]
      p == updateTrie([o EXCEPT !.dirtyCode = @ /\ o.code = NoCode], keys)
  IN [CASE o.suicided -> deleteStateObject(s, a)
        [] ~o.suicided /\ a \in s.dirtyObjs ->
             updateStateObject([s EXCEPT !.codes = commitCode(s, o), !.objs[a] = p], a)
        [] ~o.suicided /\ a \notin s.dirtyObjs -> s
      EXCEPT !.dirtyObjs = @ \ {a}]

\* Commit(false): empty accounts stay
Commit(s, addrs, keys) ==
  LET visit(t, a) == IF t.objs[a] /= None THEN commitObject(t, a, keys) ELSE t
  IN FoldLeft(visit, finalise(s, addrs, keys), addrs)
==============================================================================

--------------------------------- MODULE Evm ---------------------------------
(***************************************************************************)
(* The execution of contracts on the world state: the transactions of a    *)
(* block one after the other, each a call or a creation that may call and  *)
(* create further (vm/evm.go), whose instructions change the state         *)
(* (vm/instructions.go), and the commit at the end of the block, after     *)
(* which the next one opens the state at the root. A contract may do       *)
(* anything its instructions allow, in any order, and fail at any point    *)
(* (REVERT, out of gas, write protection): the code that runs is left      *)
(* open. A call that is refused at once, for its depth or for lack of      *)
(* balance, changes nothing and is no step.                                *)
(*                                                                         *)
(* A frame is [op, self, snapshot, static, runs]: self is the account the  *)
(* instructions act on, runs is false when there is no code.               *)
(***************************************************************************)
EXTENDS StateDB

CONSTANTS
  Users,                  \* accounts that send transactions
  Codes, Values,          \* codes of contracts, values of a storage slot
  CreateAddress,          \* <<caller, nonce>> -> address
  CreateAddress2,         \* caller -> address, for one salt and one code
  CallCreateDepth,
  Scenes                  \* where a block may start and how far it goes:
                          \* [accounts, codes, ops, slots, steps, blocks], where ops are
                          \* the instructions used, slots the keys written, and steps
                          \* and blocks bound how many

VARIABLES
  scene,
  s,            \* the StateDB
  frames,       \* the calls in progress
  steps, blocks \* used up so far

vars == <<scene, s, frames, steps, blocks>>

Top == Last(frames)
Self == Top.self
\* a mistake: a call made by a static call is not static
readOnlyTop == Top.static
readOnly == \E i \in DOMAIN frames : frames[i].static
Running == frames /= <<>> /\ Top.runs
Writing == Running /\ ~readOnly
Spend(op) ==
  /\ op \in scene.ops /\ blocks < scene.blocks /\ steps < scene.steps
  /\ steps' = steps + 1
  /\ UNCHANGED <<scene, blocks>>

Frame(op, self, static, runs) ==
  [op |-> op, self |-> self, snapshot |-> s.nextId, static |-> static, runs |-> runs]
Enter(f) == frames' = Append(frames, f)
DepthLeft == Len(frames) <= CallCreateDepth

CanTransfer(t, a, amount) == GetBalance(t, a) >= amount
Transfer(t, sender, recipient, amount) ==
  AddBalance(SubBalance(t, sender, amount), recipient, amount)

------------------------------------------------------------------------------
(* Calls.                                                                    *)

\* what Call and create do before the code runs
BeginCall(t, caller, addr, value) ==
  LET u == Snapshot(t)
  IN Transfer(IF Exist(t, addr) THEN u ELSE CreateAccount(u, addr), caller, addr, value)

Call(t, caller, addr, value) ==
  /\ DepthLeft /\ CanTransfer(t, caller, value)
  /\ IF ~Exist(t, addr) /\ value = 0     \* calling nobody
     THEN s' = Snapshot(t) /\ UNCHANGED frames
     ELSE /\ s' = BeginCall(t, caller, addr, value)
          /\ Enter(Frame("call", addr, FALSE, GetCode(t, addr) /= NoCode))

BeginCreate(t, caller, addr, value) ==
  LET u == CreateAccount(Snapshot(SetNonce(t, caller, GetNonce(t, caller) + 1)), addr)
  IN Transfer(SetNonce(u, addr, 1), caller, addr, value)

Collides(t, addr) == GetNonce(t, addr) /= 0 \/ GetCode(t, addr) /= NoCode

create(t, caller, addr, value) ==
  /\ DepthLeft /\ CanTransfer(t, caller, value)
  /\ IF Collides(SetNonce(t, caller, GetNonce(t, caller) + 1), addr)
     THEN s' = SetNonce(t, caller, GetNonce(t, caller) + 1) /\ UNCHANGED frames
     ELSE /\ s' = BeginCreate(t, caller, addr, value)
          /\ Enter(Frame("create", addr, FALSE, TRUE))

NewAddresses(t, caller) ==
  {CreateAddress[x] : x \in DOMAIN CreateAddress \cap {<<caller, GetNonce(t, caller) + 1>>}}
    \cup {CreateAddress2[x] : x \in DOMAIN CreateAddress2 \cap {caller}}

\* a transaction: TransitionDb, after the gas is paid. One that creates takes its
\* address from the nonce (Create2 is an instruction)
Transact ==
  \E u \in Users, value \in 0..1 :
    /\ frames = <<>> /\ Spend("transact")
    /\ s.thash + 1 \in Txs
    /\ LET t == Prepare(s, s.thash + 1)
       IN \/ \E to \in Addrs \ {u} : Call(SetNonce(t, u, GetNonce(t, u) + 1), u, to, value)
          \/ \E x \in DOMAIN CreateAddress \cap {<<u, GetNonce(t, u) + 1>>} :
               create(t, u, CreateAddress[x], value)

opCall ==
  \E to \in Addrs, value \in 0..1 :
    Running /\ Spend("CALL") /\ (value > 0 => ~readOnly) /\ Call(s, Self, to, value)

\* CallCode and DelegateCall run the code of another account on this one
opDelegateCall ==
  \E to \in Addrs :
    /\ Running /\ Spend("DELEGATECALL") /\ DepthLeft
    /\ s' = Snapshot(s)
    /\ Enter(Frame("delegate", Self, FALSE, GetCode(s, to) /= NoCode))

\* StaticCall touches the account, which creates it
opStaticCall ==
  \E to \in Addrs :
    /\ Running /\ Spend("STATICCALL") /\ DepthLeft
    /\ s' = AddBalance(Snapshot(s), to, 0)
    /\ Enter(Frame("static", to, TRUE, GetCode(s, to) /= NoCode))

opCreate ==
  \E value \in 0..1 :
    Writing /\ Spend("CREATE") /\ \E addr \in NewAddresses(s, Self) : create(s, Self, addr, value)

------------------------------------------------------------------------------
(* Instructions.                                                             *)

opSstore ==
  \E k \in scene.slots, v \in Values :
    /\ Writing /\ Spend("SSTORE")
    /\ s' = SetState(IF GetState(s, Self, k) /= 0 /\ v = 0 THEN AddRefund(s, 1) ELSE s, Self, k, v)
    /\ UNCHANGED frames

makeLog == Writing /\ Spend("LOG") /\ s' = AddLog(s, Self) /\ UNCHANGED frames

\* the end of a frame that succeeded: what a creation returns becomes the code
Leave(t, code) ==
  /\ s' = IF Top.op = "create" THEN SetCode(t, Self, code) ELSE t
  /\ frames' = Front(frames)

opSuicide ==
  \E to \in Addrs :
    /\ Writing /\ Spend("SELFDESTRUCT")
    /\ LET t == IF HasSuicided(s, Self) THEN s ELSE AddRefund(s, 1)
       IN Leave(Suicide(AddBalance(t, to, GetBalance(s, Self)), Self), NoCode)

\* the return of a frame; more instructions cannot come once it is left
Return ==
  \E code \in Codes \cup {NoCode} :
    /\ frames /= <<>> /\ (Top.op /= "create" => code = NoCode)
    /\ Leave(s, code)
    /\ UNCHANGED <<scene, steps, blocks>>

\* a mistake: the newest snapshot is taken for the one of the frame
FailedNewest == RevertToSnapshot(s, Last(s.revs).id)
Failed == RevertToSnapshot(s, Top.snapshot)

Fail ==
  /\ Running
  /\ s' = Failed
  /\ frames' = Front(frames)
  /\ UNCHANGED <<scene, steps, blocks>>

------------------------------------------------------------------------------
\* the end of the block: the next one opens the state that was written
EndBlock ==
  /\ frames = <<>> /\ steps > 0 /\ blocks < scene.blocks
  /\ \E addrs \in SetToSeqs({a \in Addrs : s.objs[a] /= None}),
        keys \in SetToSeqs(UNION {DOMAIN s.objs[a].dirty : a \in {a \in Addrs : s.objs[a] /= None}}) :
       LET t == Commit(s, addrs, keys) IN s' = New(t.trie, t.codes)
  /\ blocks' = blocks + 1 /\ steps' = 0
  /\ UNCHANGED <<scene, frames>>

Init ==
  /\ scene \in Scenes
  /\ s = New(Build(scene.accounts), scene.codes)
  /\ frames = <<>> /\ steps = 0 /\ blocks = 0

Next ==
  \/ Transact \/ opCall \/ opDelegateCall \/ opStaticCall \/ opCreate
  \/ opSstore \/ makeLog \/ opSuicide \/ Return \/ Fail \/ EndBlock

Spec == Init /\ [][Next]_vars
------------------------------------------------------------------------------
(* Properties.                                                               *)

View(t, a) ==
  IF ~Exist(t, a)
  THEN [exists |-> FALSE, nonce |-> 0, balance |-> 0, code |-> NoCode,
        storage |-> [k \in Keys |-> 0], suicided |-> FALSE]
  ELSE LET o == getStateObject(t, a)
       IN [exists |-> TRUE, nonce |-> o.data.nonce, balance |-> o.data.balance,
           code |-> Code(t, o), storage |-> [k \in Keys |-> GetObjState(o, k)],
           suicided |-> o.suicided]
AccountsOf(t) == [a \in Addrs |-> View(t, a)]
AllLogs(t) == UNION {{t.logs[x][i] : i \in DOMAIN t.logs[x]} : x \in Txs}
WorldOf(t) ==
  [accounts |-> AccountsOf(t), refund |-> t.refund,
   logs |-> [i \in 1..t.logSize |-> (CHOOSE l \in AllLogs(t) : l.index = i - 1).address]]

\* the worlds put aside are what undoing the calls would give
SavedOf(t, fs) == [i \in DOMAIN fs |-> WorldOf(RevertToSnapshot(t, fs[i].snapshot))]

\* The root depends on the contents alone, so that nodes which visit their maps in
\* different orders agree on it: after any updates and deletes the trie of the
\* accounts and those of their storage are the smallest ones for what they hold
\* (trie.go update and delete, StateDB.Commit).
CanonicalRoot ==
  LET held == Contents(s.trie, Addresses)
  IN /\ s.trie = Build(held)
     /\ \A p \in DOMAIN held :
          held[p].root = Build(Contents(held[p].root, {Path[k] : k \in Keys}))

\* A static call, and whatever it calls, changes nothing but to create empty
\* accounts where it calls nobody (StaticCall, enforceRestrictions).
StaticOnlyReads ==
  \A i \in DOMAIN frames : frames[i].static =>
    LET before == AccountsOf(RevertToSnapshot(s, frames[i].snapshot))
        now == AccountsOf(s)
    IN \A a \in Addrs : now[a] = before[a]
         \/ (~before[a].exists /\ now[a] = [before[a] EXCEPT !.exists = TRUE])

==============================================================================

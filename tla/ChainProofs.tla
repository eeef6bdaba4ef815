---------------------------- MODULE ChainProofs ----------------------------
(***************************************************************************)
(* The theorems about Chain, for every tree of blocks, any number of       *)
(* goroutines in updateEternal and any number of crashes.                  *)
(***************************************************************************)
EXTENDS ChainStepProofs, ChainChoice

-----------------------------------------------------------------------------
(* Every step of Core, of Next and of LockedNext keeps the invariant.      *)

\* A new database with the genesis block satisfies the invariant.
LEMMA InitInv == Init => Inv
<1> SUFFICES ASSUME Init PROVE Inv
  OBVIOUS
<1>1. Genesis \in Block /\ Height[Genesis] = 0 /\ 0 \in Heights
      /\ Anc(Genesis, 0) = Genesis /\ MaxHeight \in Nat
  BY TreeAssumption DEF Heights
<1>2. ChainType
  BY <1>1 DEF Init, ChainType
<1>3. Storage
  <2>1. ChainOf(Genesis) = {Genesis}
    BY <1>1 DEF ChainOf
  <2>2. IndexOnMainChain
    BY <1>1 DEF Init, IndexOnMainChain, Heights
  <2> QED  BY <2>1, <2>2 DEF Init, Storage, MainChainStored, CacheOnMainChain, MainChain
<1>4. PoolType /\ ControlType /\ ReorgOK
  BY <1>1 DEF Init, PoolType, ControlType, ReorgOK, Results
<1>5. OtherType
  BY <1>1, HeaderAssumption DEF Init, OtherType
<1> QED  BY <1>2, <1>3, <1>4, <1>5 DEF Inv, CoreInv

\* Every operation but those of the eternal block keeps the invariant.
LEMMA CoreStep ==
  ASSUME Inv, Core
  PROVE  Inv'
<1>0. CoreInv /\ OtherType /\ ChainType /\ Storage
  BY DEF Inv, CoreInv
<1>1. ASSUME NEW b \in Block, NEW f \in {"peer", "sync"}, Receive(b, f)
      PROVE  Inv'
  <2>1. CoreInv'
    BY <1>0, <1>1, ProcessBlockStep DEF Receive
  <2>2. OtherType'
    BY <1>0, <1>1 DEF Receive, OtherType, otherVars
  <2> QED  BY <2>1, <2>2 DEF Inv
<1>2. CASE ProcessMinted
  <2>1. minting \in Block
    BY <1>0, <1>2, HeaderAssumption DEF ProcessMinted, OtherType
  <2>2. CoreInv'
    BY <1>0, <1>2, <2>1, ProcessBlockStep DEF ProcessMinted
  <2>3. OtherType'
    BY <1>0, <1>2 DEF ProcessMinted, OtherType
  <2> QED  BY <2>2, <2>3 DEF Inv
<1>3. CASE LockHolder
  <2>1. CoreInv'
    BY ZenonT(60), <1>0, <1>3, TakeOrphanStep, NextAcceptedStep, DetachStep, AttachStep, UndoStep,
       RedoStep DEF LockHolder
  <2>2. UNCHANGED otherVars
    BY <1>3 DEF LockHolder, TakeOrphan, NextAccepted, Detach, Attach, Undo, Redo,
       otherVars
  <2>3. OtherType'
    BY <1>0, <2>2 DEF OtherType, otherVars
  <2> QED  BY <2>1, <2>3 DEF Inv
<1>4. ASSUME NEW b \in Own, Produce(b)
      PROVE  Inv'
  <2>1. CoreInv'
    BY <1>0, <1>4, ProduceStep
  <2>2. OtherType'
    BY <1>0, <1>4 DEF Produce, OtherType
  <2> QED  BY <2>1, <2>2 DEF Inv
<1>5. CASE AfterPanic
  <2>1. index' = index /\ stored' = stored /\ stored \subseteq Block /\ NewBlockChain
        /\ crashes' = crashes
    BY <1>0, <1>5 DEF AfterPanic, ChainType
  <2>2. CoreInv'
    BY <1>0, <2>1, RestartStep
  <2>3. OtherType'
    BY <1>0, <2>1 DEF NewBlockChain, OtherType
  <2> QED  BY <2>2, <2>3 DEF Inv
<1>6. CASE Crash
  <2>1. index' \in {index, Unindexed} /\ stored' \subseteq Block
        /\ stored \subseteq stored' /\ NewBlockChain
    BY <1>0, <1>6 DEF Crash, ChainType
  <2>2. CoreInv'
    BY <1>0, <2>1, RestartStep
  <2>3. crashes' \in 0..MaxCrashes
    BY <1>0, <1>6, HeaderAssumption DEF Crash, OtherType
  <2>4. OtherType'
    BY <1>0, <2>1, <2>3 DEF NewBlockChain, OtherType
  <2> QED  BY <2>2, <2>4 DEF Inv
<1> QED  BY <1>1, <1>2, <1>3, <1>4, <1>5, <1>6 DEF Core

\* updateEternal and SetEternal as the code has them keep the invariant.
LEMMA EternalStep ==
  ASSUME Inv, NEW t \in Finalizer,
         SetEternal(t) \/ \E b \in Block : CheckEternal(t, b)
  PROVE  Inv'
<1>0. CoreInv /\ OtherType
  BY DEF Inv
<1>1. CASE SetEternal(t)
  <2>1. CoreInv'
    BY <1>0, <1>1, SameCore DEF SetEternal
  <2>2. OtherType'
    BY <1>0, <1>1 DEF SetEternal, OtherType
  <2> QED  BY <2>1, <2>2 DEF Inv
<1>2. ASSUME NEW b \in Block, CheckEternal(t, b)
      PROVE  Inv'
  <2>1. CoreInv'
    BY ZenonT(60), <1>0, <1>2, CheckEternalStep
  <2>2. OtherType'
    BY <1>0, <1>2 DEF CheckEternal, OtherType
  <2> QED  BY <2>1, <2>2 DEF Inv
<1> QED  BY <1>1, <1>2

\* updateEternal under chainLock keeps the invariant.
LEMMA UpdateEternalStep ==
  ASSUME Inv, NEW b \in Block, UpdateEternal(b)
  PROVE  Inv'
<1>1. CoreInv'
  BY SameCore DEF UpdateEternal, Inv
<1>2. OtherType'
  BY DEF UpdateEternal, Inv, OtherType
<1> QED  BY ZenonT(60), <1>1, <1>2 DEF Inv

\* A step that changes nothing keeps the invariant.
LEMMA StutterStep ==
  ASSUME Inv, UNCHANGED vars
  PROVE  Inv'
<1>1. CoreInv'
  BY SameCore DEF vars, Inv
<1>2. OtherType'
  BY DEF vars, otherVars, Inv, OtherType
<1> QED  BY <1>1, <1>2 DEF Inv

\* The inductive invariant: types, what database, cache and index say about the
\* main chain, and where reorganize is, at every step of the code as it is.
THEOREM SpecInv == Spec => []Inv
<1>1. Inv /\ [Next]_vars => Inv'
  BY CoreStep, EternalStep, StutterStep DEF Next
<1> QED  BY <1>1, InitInv, PTL DEF Spec

\* The same invariant when updateEternal waits for chainLock.
THEOREM LockedInv == LockedSpec => []Inv
<1>1. Inv /\ [LockedNext]_vars => Inv'
  BY CoreStep, UpdateEternalStep, StutterStep DEF LockedNext
<1> QED  BY <1>1, InitInv, PTL DEF LockedSpec

\* Type correctness of the node, with crashes and unlocked finalisation.
THEOREM TypeCorrect == Spec => []TypeOK
<1>1. Inv => TypeOK
  BY TypeSplit DEF Inv, CoreInv
<1> QED  BY <1>1, SpecInv, PTL

\* Whatever blocks arrive, however reorganize ends and wherever the process
\* crashes: the main chain is in the database, the cache and the height index
\* name only blocks of the main chain.
THEOREM StorageCorrect == Spec => []Storage
<1>1. Inv => Storage
  BY DEF Inv, CoreInv
<1> QED  BY <1>1, SpecInv, PTL

-----------------------------------------------------------------------------
(* The eternal block, when updateEternal waits for chainLock.              *)

\* The eternal block is an ancestor of the tail, and a reorganisation in progress
\* forks above it.
EternalOK ==
  /\ Height[eternal] <= Height[tail]
  /\ Anc(tail, Height[eternal]) = eternal
  /\ pc \in {"detach", "attach", "undo", "redo"} => Height[eternal] <= fork

\* A child of the tail has the ancestors of the tail.
LEMMA EternalUp ==
  ASSUME Inv, EternalOK, NEW b \in Block \ {Genesis}, Parent[b] = tail
  PROVE  Height[eternal] <= Height[b] /\ Anc(b, Height[eternal]) = eternal
<1>1. Height[b] = Height[tail] + 1 /\ Height[tail] \in Nat /\ Height[eternal] \in Nat
      /\ Height[b] \in Nat
  BY ChainParent, ChainEnds DEF Inv, OtherType, CoreInv, ChainType
<1>2. Height[eternal] \in 0..Height[b] /\ Height[eternal] < Height[b]
  BY <1>1 DEF EternalOK
<1> QED  BY <1>1, <1>2, TreeAssumption DEF EternalOK

\* So has its parent, above the eternal block.
LEMMA EternalDown ==
  ASSUME Inv, EternalOK, tail # Genesis, Height[eternal] < Height[tail]
  PROVE  /\ Height[eternal] <= Height[Parent[tail]]
         /\ Anc(Parent[tail], Height[eternal]) = eternal
<1>1. Height[tail] = Height[Parent[tail]] + 1 /\ Height[Parent[tail]] \in Nat
      /\ Height[eternal] \in Nat /\ tail \in Block
  BY ChainParent, ChainEnds DEF Inv, OtherType, CoreInv, ChainType
<1>2. Height[eternal] \in 0..Height[tail]
  BY <1>1
<1> QED  BY <1>1, <1>2, TreeAssumption DEF EternalOK

\* tryAcceptBlock does not move the main chain off the eternal block.
LEMMA EternalAccept ==
  ASSUME Inv, EternalOK, NEW b \in Block \ {Genesis}, NEW f, NEW rest, NEW pool,
         TryAccept(b, f, rest, pool), eternal' = eternal
  PROVE  EternalOK'
<1>1. CASE ResetControl(AcceptError(b, f)) /\ UNCHANGED chainVars
  BY <1>1 DEF ResetControl, chainVars, EternalOK
<1>2. CASE Parent[b] = tail /\ Connect(b, f) /\ Accepted(b, f, rest)
  <2>1. tail' = b /\ pc' = "orphans"
    BY <1>2 DEF Connect, ChangeNewTail, Accepted
  <2> QED  BY ZenonT(60), <1>2, <2>1, EternalUp DEF EternalOK
<1>3. CASE pc' = "orphans" /\ tail' = tail
  BY ZenonT(60), <1>3 DEF EternalOK
<1>4. CASE Reorganize(b, f, rest, pool)
  <2>1. Height[eternal] \in Nat /\ \A k \in Heights : k \in Nat
    BY ChainEnds DEF Inv, OtherType, Heights
  <2> QED  BY <1>4, <2>1 DEF Reorganize, Panic, Accepted, EternalOK, BelowEternal,
                chainVars
<1> QED  BY <1>1, <1>2, <1>3, <1>4 DEF TryAccept, Failed

\* Neither does any step of reorganize and processOrphans.
LEMMA EternalLockHolder ==
  ASSUME Inv, EternalOK, LockHolder
  PROVE  EternalOK'
<1>0. CoreInv /\ ChainType /\ ControlType /\ ReorgOK /\ eternal \in Block
  BY ZenonT(60) DEF Inv, CoreInv, OtherType
<1>1. eternal' = eternal
  BY DEF LockHolder, TakeOrphan, NextAccepted, Detach, Attach, Undo, Redo, otherVars
<1>2. fork \in Nat /\ Height[tail] \in Nat /\ Height[eternal] \in Nat
  BY <1>0, ChainEnds DEF ControlType, ChainType, Heights
<1>3. CASE TakeOrphan
  <2>1. Head(kids) \in Block \ {Genesis}
    BY <1>0, <1>3 DEF ControlType, TakeOrphan
  <2> QED  BY <1>1, <1>3, <2>1, EternalAccept DEF TakeOrphan
<1>4. CASE NextAccepted
  BY <1>1, <1>4 DEF NextAccepted, ResetControl, chainVars, EternalOK
<1>5. ASSUME Disconnect, fork < Height[tail], Height[eternal] <= fork
      PROVE  Height[eternal] <= Height[tail'] /\ Anc(tail', Height[eternal]) = eternal
  <2>1. tail # Genesis /\ Height[eternal] < Height[tail] /\ tail' = Parent[tail]
    BY <1>0, <1>2, <1>5, TreeAssumption DEF Disconnect, ChangeNewTail
  <2> QED  BY <2>1, EternalDown
<1>6. CASE Detach
  <2>1. fork < Height[tail] /\ Height[eternal] <= fork /\ Disconnect /\ fork' = fork
    BY <1>0, <1>6 DEF Detach, ReorgOK, EternalOK, reorgVars
  <2> QED  BY <1>1, <1>5, <2>1 DEF EternalOK
<1>7. CASE Undo
  <2>1. fork < Height[tail] /\ Height[eternal] <= fork /\ Disconnect
    BY <1>0, <1>7 DEF Undo, ReorgOK, EternalOK
  <2>2. pc' \in {"detach", "attach", "undo", "redo"} => fork' = fork
    BY <1>7 DEF Undo, Reattach, Failed, ResetControl, reorgVars
  <2> QED  BY <1>1, <1>5, <2>1, <2>2 DEF EternalOK
<1>8. ASSUME NEW t \in Block, Height[tail] < Height[t], tail = Anc(t, Height[tail]),
             tail' = Anc(t, Height[tail] + 1)
      PROVE  Height[eternal] <= Height[tail'] /\ Anc(tail', Height[eternal]) = eternal
  <2>1. tail' \in Block \ {Genesis} /\ Parent[tail'] = tail
    BY <1>2, <1>8, AncNext
  <2> QED  BY ZenonT(60), <2>1, EternalUp
<1>9. CASE Attach
  <2>1. target \in Block /\ Height[tail] < Height[target]
        /\ tail = Anc(target, Height[tail]) /\ Height[eternal] <= fork
    BY ZenonT(60), <1>0, <1>9 DEF Attach, ReorgOK, EternalOK
  <2>2. tail' \in {tail, Anc(target, Height[tail] + 1)}
    BY ZenonT(60), <1>9 DEF Attach, Connect, ChangeNewTail, chainVars
  <2>3. pc' \in {"detach", "attach", "undo", "redo"} => fork' = fork
    BY <1>9 DEF Attach, Accepted, Reattach, Failed, ResetControl, reorgVars
  <2> QED  BY <1>1, <1>8, <2>1, <2>2, <2>3 DEF EternalOK
<1>10. CASE Redo
  <2>1. old \in Block /\ Height[tail] < Height[old]
        /\ tail = Anc(old, Height[tail]) /\ Height[eternal] <= fork
    BY ZenonT(60), <1>0, <1>10 DEF Redo, ReorgOK, EternalOK
  <2>2. tail' \in {tail, Anc(old, Height[tail] + 1)}
    BY <1>10 DEF Redo, Connect, ChangeNewTail, Panic, chainVars
  <2>3. pc' \in {"detach", "attach", "undo", "redo"} => fork' = fork
    BY <1>10 DEF Redo, Failed, ResetControl, Panic, reorgVars
  <2> QED  BY <1>1, <1>8, <2>1, <2>2, <2>3 DEF EternalOK
<1> QED  BY <1>3, <1>4, <1>6, <1>7, <1>9, <1>10 DEF LockHolder

\* Nor does ProcessBlock.
LEMMA EternalProcess ==
  ASSUME Inv, EternalOK, NEW b \in Block, NEW f, ProcessBlock(b, f), eternal' = eternal
  PROVE  EternalOK'
<1>1. CASE UNCHANGED <<chainVars, pc, reorgVars>>
  BY <1>1 DEF chainVars, reorgVars, EternalOK
<1>2. CASE ProcessError(b) = "none" /\ TryAccept(b, f, <<>>, orphans)
  <2>1. Genesis \in stored
    BY ChainEnds DEF Inv, CoreInv, Storage, MainChainStored, MainChain, ChainType
  <2>2. b # Genesis
    BY <1>2, <2>1 DEF ProcessError, blockExists
  <2> QED  BY <1>2, <2>2, EternalAccept
<1> QED  BY <1>1, <1>2 DEF ProcessBlock, AddOrphan

\* The eternal block stays on the main chain: no reorganisation detaches it and a
\* restart does not lose it. (With the code's unlocked updateEternal this fails.)
THEOREM Irreversible == LockedSpec => []EternalOnMainChain
<1>1. Init => EternalOK
  BY TreeAssumption DEF Init, EternalOK
<1>2. Inv /\ EternalOK /\ [LockedNext]_vars => EternalOK'
  <2> SUFFICES ASSUME Inv, EternalOK, [LockedNext]_vars
               PROVE  EternalOK'
    OBVIOUS
  <2>1. ASSUME NEW b \in Block, NEW f \in {"peer", "sync"}, Receive(b, f)
        PROVE  EternalOK'
    BY <2>1, EternalProcess DEF Receive, otherVars
  <2>2. CASE ProcessMinted
    <3>1. minting \in Block
      BY <2>2, HeaderAssumption DEF ProcessMinted, Inv, OtherType
    <3> QED  BY <2>2, <3>1, EternalProcess DEF ProcessMinted
  <2>3. CASE LockHolder
    BY ZenonT(60), <2>3, EternalLockHolder
  <2>4. ASSUME NEW b \in Own, Produce(b)
        PROVE  EternalOK'
    BY <2>4 DEF Produce, EternalOK, reorgVars
  <2>5. CASE NewBlockChain
    BY Zenon, <2>5 DEF NewBlockChain, ResetControl, EternalOK
  <2>6. ASSUME NEW b \in Block, UpdateEternal(b)
        PROVE  EternalOK'
    <3>1. Height[b] <= Height[tail] /\ b = Anc(tail, Height[b])
      <4>1. Height[b] \in Heights /\ index[Height[b]] # None
        BY <2>6, TreeAssumption, HeaderAssumption DEF UpdateEternal
      <4> QED  BY ZenonT(60), <2>6, <4>1 DEF UpdateEternal, Inv, CoreInv, Storage, IndexOnMainChain
    <3> QED  BY Zenon, <2>6, <3>1 DEF UpdateEternal, EternalOK, chainVars
  <2>7. CASE UNCHANGED vars
    BY <2>7 DEF vars, chainVars, reorgVars, otherVars, EternalOK
  <2> QED  BY <2>1, <2>2, <2>3, <2>4, <2>5, <2>6, <2>7
           DEF LockedNext, Core, AfterPanic, Crash
<1>3. Inv /\ EternalOK => EternalOnMainChain
  <2> SUFFICES ASSUME Inv, EternalOK PROVE EternalOnMainChain
    OBVIOUS
  <2>1. Height[eternal] \in Nat /\ Height[tail] \in Nat
    BY ChainEnds DEF Inv, OtherType, CoreInv, ChainType
  <2>2. Height[eternal] \in 0..Height[tail]
    BY <2>1 DEF EternalOK
  <2> QED  BY <2>2 DEF EternalOK, EternalOnMainChain, MainChain, ChainOf
<1> QED  BY <1>1, <1>2, <1>3, LockedInv, PTL DEF LockedSpec

-----------------------------------------------------------------------------
(* reorganize is all or nothing.                                           *)

\* The tail where a reorganisation ends.
AtomicStep ==
  (pc \in {"attach", "undo", "redo"} /\ crashes' = crashes) =>
    CASE pc' = "orphans" -> tail' = target
      [] pc' = "idle" -> tail' = old
      [] OTHER -> TRUE

\* The steps of reorganize leave its loops only at the target or at the old tail.
LEMMA AtomicLockHolder ==
  ASSUME Inv, LockHolder, pc \in {"attach", "undo", "redo"}
  PROVE  /\ pc' = "orphans" => tail' = target
         /\ pc' = "idle" => tail' = old
<1>0. ChainType /\ ControlType /\ ReorgOK /\ fork \in Nat
  BY DEF Inv, CoreInv, ControlType, Heights
<1>1. CASE Attach
  <2>1. CASE Connect(Anc(target, Height[tail] + 1), from)
             /\ Anc(target, Height[tail] + 1) = target
             /\ Accepted(Anc(target, Height[tail] + 1), from, kids)
    BY <2>1 DEF Connect, ChangeNewTail, Accepted
  <2>2. CASE pc' \in {"attach", "undo"}
    BY <2>2
  <2>3. CASE ~(Height[tail] > fork) /\ Reattach /\ UNCHANGED chainVars
    <3>1. Height[tail] = fork /\ old \in Block /\ tail = Anc(old, fork)
          /\ Height[tail] \in Nat
      BY <1>0, <1>1, <2>3, ChainEnds DEF Attach, ReorgOK, ChainType
    <3> QED  BY Zenon, <2>3, <3>1, TreeAssumption DEF Reattach, Failed, ResetControl, chainVars
  <2> QED  BY Zenon, <1>1, <2>1, <2>2, <2>3 DEF Attach
<1>2. CASE Undo
  <2>1. CASE pc' = "undo"
    BY <2>1
  <2>2. CASE Height[tail] = fork + 1 /\ Reattach
    <3>1. target \in Block /\ old \in Block /\ tail = Anc(target, fork + 1)
          /\ fork < Height[target] /\ Anc(target, fork) = Anc(old, fork)
          /\ tail' = Parent[tail] /\ Height[tail] \in Nat /\ Height[target] \in Nat
      BY <1>0, <1>2, <2>2, ChainEnds DEF Undo, ReorgOK, ChainType, Disconnect, ChangeNewTail
    <3>2. tail' = Anc(old, fork)
      BY <1>0, <3>1, AncNext
    <3> QED  BY Zenon, <2>2, <3>1, <3>2, TreeAssumption DEF Reattach, Failed, ResetControl
  <2> QED  BY <1>2, <2>1, <2>2 DEF Undo
<1>3. CASE Redo
  <2>1. CASE Connect(Anc(old, Height[tail] + 1), from)
             /\ Anc(old, Height[tail] + 1) = old /\ Failed("ErrConnect")
    BY <2>1 DEF Connect, ChangeNewTail, Failed, ResetControl
  <2>2. CASE pc' \in {"redo", "rollbackFailed"}
    BY <2>2
  <2> QED  BY ZenonT(60), <1>3, <2>1, <2>2 DEF Redo, Panic
<1> QED  BY <1>1, <1>2, <1>3 DEF LockHolder, TakeOrphan, NextAccepted, Detach

\* Unless the process stops, a reorganisation ends at the block that caused it or
\* at the old tail.
THEOREM ReorgAllOrNothing == Spec => ReorgAtomic
<1>1. Inv /\ [Next]_vars => [AtomicStep]_vars
  <2> SUFFICES ASSUME Inv, Next, pc \in {"attach", "undo", "redo"}, crashes' = crashes
               PROVE  /\ pc' = "orphans" => tail' = target
                      /\ pc' = "idle" => tail' = old
    BY DEF AtomicStep
  <2>1. CASE LockHolder
    BY <2>1, AtomicLockHolder
  <2>2. CASE \E b \in Block, f \in {"peer", "sync"} : Receive(b, f)
    BY ZenonT(60), <2>2 DEF Receive, ProcessBlock
  <2>3. CASE ProcessMinted
    BY ZenonT(60), <2>3 DEF ProcessMinted, ProcessBlock
  <2>4. CASE \E b \in Own : Produce(b)
    BY <2>4 DEF Produce
  <2>5. CASE AfterPanic
    BY ZenonT(60), <2>5 DEF AfterPanic, Panics
  <2>6. CASE Crash
    BY <2>6, HeaderAssumption DEF Crash, Inv, OtherType
  <2>7. CASE \E t \in Finalizer : SetEternal(t) \/ \E b \in Block : CheckEternal(t, b)
    BY Zenon, <2>7 DEF SetEternal, CheckEternal
  <2> QED  BY <2>1, <2>2, <2>3, <2>4, <2>5, <2>6, <2>7 DEF Next, Core
<1> QED  BY <1>1, SpecInv, PTL DEF Spec, ReorgAtomic, AtomicStep

-----------------------------------------------------------------------------
(* Blocks that were not verified.                                          *)

\* The blocks on top of one of p, and those whose chain is verified but for blocks
\* on top of one of p.
Above(p) == {b \in Block \ {Genesis} : ChainOf(b) \cap p # {}}
Sound(p) == {b \in Block : ChainOf(b) \cap Invalid \subseteq Above(p)}

ChildrenOf(b) == {c \in Block \ {Genesis} : Parent[c] = b}

\* Whatever is processed with the empty messageFrom of a minted block is on top of
\* one, and what reorganize may connect again is sound.
TrustInv ==
  /\ tail \in Sound(produced)
  /\ produced \subseteq Sound(produced)
  /\ minting # None => minting \in produced
  /\ Reorganizing => old \in Sound(produced)
  /\ pc = "idle" => queue = <<>> /\ kids = <<>>
  /\ \A b \in Block : children[b] \in Seq(ChildrenOf(b))
  /\ from = "local" => /\ queue \in Seq(Above(produced)) /\ kids \in Seq(Above(produced))
                       /\ Reorganizing => target \in Above(produced)

\* A child of a block on top of one minted here is on top of it, too.
LEMMA AboveChild ==
  ASSUME NEW p, NEW b \in Above(p)
  PROVE  ChildrenOf(b) \subseteq Above(p)
BY ChainParent DEF Above, ChildrenOf

\* A block minted here is on top of itself.
LEMMA AboveSelf ==
  ASSUME NEW p \in SUBSET Own
  PROVE  p \subseteq Above(p)
BY ChainEnds, HeaderAssumption DEF Above

\* The chain of an ancestor is part of the chain of a block.
LEMMA ChainPrefix ==
  ASSUME NEW b \in Block, NEW c \in ChainOf(b)
  PROVE  c \in Block /\ ChainOf(c) \subseteq ChainOf(b)
<1>1. PICK k \in 0..Height[b] : c = Anc(b, k)
  BY DEF ChainOf
<1>2. c \in Block /\ Height[c] = k /\ Height[b] \in Nat
  BY ZenonT(60), <1>1, TreeAssumption, ChainEnds
<1>3. \A h \in 0..k : h \in 0..Height[b] /\ Anc(c, h) = Anc(b, h)
  BY <1>1, <1>2, TreeAssumption
<1> QED  BY <1>2, <1>3 DEF ChainOf

\* Two blocks of one chain: one of them is on the chain of the other.
LEMMA ChainLinear ==
  ASSUME NEW b \in Block, NEW c \in ChainOf(b), NEW d \in ChainOf(b)
  PROVE  c \in ChainOf(d) \/ d \in ChainOf(c)
<1>1. PICK h \in 0..Height[b] : c = Anc(b, h)
  BY DEF ChainOf
<1>2. PICK k \in 0..Height[b] : d = Anc(b, k)
  BY DEF ChainOf
<1>3. Height[b] \in Nat /\ c \in Block /\ d \in Block /\ Height[c] = h /\ Height[d] = k
  BY <1>1, <1>2, TreeAssumption, ChainEnds
<1>4. CASE h <= k
  <2>1. Anc(d, h) = c /\ h \in 0..Height[d]
    BY <1>1, <1>2, <1>3, <1>4, TreeAssumption
  <2> QED  BY ZenonT(60), <2>1 DEF ChainOf
<1>5. CASE k <= h
  <2>1. Anc(c, k) = d /\ k \in 0..Height[c]
    BY <1>1, <1>2, <1>3, <1>5, TreeAssumption
  <2> QED  BY ZenonT(60), <2>1 DEF ChainOf
<1> QED  BY <1>3, <1>4, <1>5

\* A child of a sound block is sound if it is verified or on top of a block minted
\* here.
LEMMA SoundChild ==
  ASSUME NEW p, NEW b \in Block \ {Genesis}, Parent[b] \in Sound(p),
         b \in Invalid => b \in Above(p)
  PROVE  b \in Sound(p)
BY ChainParent DEF Sound

\* Every ancestor of a sound block is sound.
LEMMA SoundPrefix ==
  ASSUME NEW p, NEW b \in Sound(p), NEW c \in ChainOf(b)
  PROVE  c \in Sound(p)
BY ChainPrefix DEF Sound

\* More blocks minted, more sound ones.
LEMMA SoundMore ==
  ASSUME NEW p, NEW q, p \subseteq q
  PROVE  Above(p) \subseteq Above(q) /\ Sound(p) \subseteq Sound(q)
BY DEF Above, Sound

\* What reorganize attaches for a block on top of one minted here is verified or on
\* top of one, too: it is below that block, and was connected before, or above it.
LEMMA SoundBranch ==
  ASSUME NEW p \in SUBSET Own, p \subseteq Sound(p), NEW t \in Above(p), NEW c \in ChainOf(t)
  PROVE  c \in Invalid => c \in Above(p)
<1>1. PICK m \in p : m \in ChainOf(t)
  BY DEF Above
<1>2. m \in Block /\ t \in Block
  BY <1>1, HeaderAssumption DEF Above
<1>3. CASE c \in ChainOf(m)
  BY <1>1, <1>3 DEF Sound
<1>4. CASE m \in ChainOf(c)
  BY Zenon, <1>1, <1>4, HeaderAssumption DEF Above
<1> QED  BY <1>1, <1>2, <1>3, <1>4, ChainLinear

\* tryAcceptBlock connects what is sound, and hands on what is on top of a block
\* minted here with the empty messageFrom.
LEMMA TrustAccept ==
  ASSUME Inv, TrustInv, NEW b \in Block \ {Genesis}, NEW f \in {"peer", "sync", "local"},
         NEW rest \in Seq(Block \ {Genesis}), NEW pool, TryAccept(b, f, rest, pool),
         produced' = produced, minting' \in {minting, None},
         f = "local" => /\ b \in Above(produced) /\ queue \in Seq(Above(produced))
                        /\ kids \in Seq(Above(produced)) /\ rest \in Seq(Above(produced))
  PROVE  TrustInv'
<1>0. \A c \in Block : ChildrenOf(c) \subseteq Block \ {Genesis}
  BY Zenon DEF ChildrenOf
<1>1. \A c \in Block : children'[c] \in Seq(ChildrenOf(c))
  <2>1. \A c \in Block : children'[c] \in {children[c], <<>>}
    BY Zenon DEF TryAccept, Reorganize
  <2>2. \A S : <<>> \in Seq(S)
    BY SMTT(60)
  <2> QED  BY Zenon, <2>1, <2>2 DEF TrustInv
<1>2. f = "local" => /\ children[b] \in Seq(Above(produced))
                     /\ children'[b] \in Seq(Above(produced))
  <2>1. f = "local" => ChildrenOf(b) \subseteq Above(produced)
    BY ZenonT(60), AboveChild
  <2> QED  BY <1>1, <2>1 DEF TrustInv
<1>3. ASSUME tail' \in Sound(produced), pc' # "idle", Reorganizing' => old' \in Sound(produced),
             from' = "local" => /\ queue' \in Seq(Above(produced))
                                /\ kids' \in Seq(Above(produced))
                                /\ Reorganizing' => target' \in Above(produced)
      PROVE  TrustInv'
  BY ZenonT(60), <1>1, <1>3 DEF TrustInv
<1>4. CASE ResetControl(AcceptError(b, f)) /\ UNCHANGED chainVars
  BY <1>1, <1>4 DEF ResetControl, chainVars, Reorganizing, TrustInv
<1>5. ASSUME Accepted(b, f, rest), tail' \in Sound(produced)
      PROVE  TrustInv'
  <2>1. pc' = "orphans" /\ from' = f /\ queue' = Append(queue, b)
        /\ kids' \in {children'[b], rest}
    BY ZenonT(60), <1>5 DEF Accepted
  <2>2. f = "local" => queue' \in Seq(Above(produced)) /\ kids' \in Seq(Above(produced))
    BY <1>2, <2>1
  <2> QED  BY ZenonT(60), <1>3, <1>5, <2>1, <2>2 DEF Reorganizing
<1>6. CASE /\ AcceptError(b, f) = "none" /\ Parent[b] = tail
           /\ Connect(b, f) /\ Accepted(b, f, rest)
  <2>1. ConnectOk(b, f)
    BY <1>6 DEF AcceptError
  <2>2. b \in Invalid => b \in Above(produced)
    BY Zenon, <2>1 DEF ConnectOk
  <2>3. b \in Sound(produced)
    BY ZenonT(60), <1>6, <2>2, SoundChild DEF TrustInv
  <2> QED  BY ZenonT(60), <1>5, <1>6, <2>3 DEF Connect, ChangeNewTail
<1>7. CASE /\ pc' = "orphans" /\ from' = f /\ queue' = <<b>> /\ kids' = children[b]
           /\ tail' = tail
  <2>1. f = "local" => queue' \in Seq(Above(produced)) /\ kids' \in Seq(Above(produced))
    BY <1>2, <1>7
  <2>2. tail' \in Sound(produced) /\ pc' # "idle" /\ ~Reorganizing'
    BY Zenon, <1>7 DEF TrustInv, Reorganizing
  <2> QED  BY ZenonT(60), <1>3, <1>7, <2>1, <2>2
<1>8. CASE Reorganize(b, f, rest, pool)
  <2>1. CASE Panic("forkNotFound", f)
    BY <1>3, <2>1 DEF Panic, TrustInv, Reorganizing, chainVars
  <2>2. CASE Accepted(b, f, rest) /\ tail' = tail
    BY ZenonT(60), <1>5, <2>2 DEF TrustInv
  <2>3. CASE /\ pc' \in {"attach", "detach"} /\ target' = b /\ old' = tail
             /\ from' = f /\ kids' = rest /\ queue' = queue /\ tail' = tail
    BY Zenon, <1>3, <2>3 DEF TrustInv, Reorganizing
  <2> QED  BY ZenonT(60), <1>8, <2>1, <2>2, <2>3 DEF Reorganize, chainVars
<1> QED  BY Zenon, <1>4, <1>6, <1>7, <1>8 DEF TryAccept, Failed

\* So do the steps of reorganize and processOrphans.
LEMMA TrustLockHolder ==
  ASSUME Inv, TrustInv, LockHolder
  PROVE  TrustInv'
<1>0. ChainType /\ ControlType /\ ReorgOK /\ produced \in SUBSET Own
  BY Zenon DEF Inv, CoreInv, OtherType
<1>1. produced' = produced /\ minting' = minting
  BY Zenon DEF LockHolder, TakeOrphan, NextAccepted, Detach, Attach, Undo, Redo, otherVars
<1>2. CASE TakeOrphan
  <2>1. Head(kids) \in Block \ {Genesis} /\ Tail(kids) \in Seq(Block \ {Genesis})
        /\ from \in {"peer", "sync", "local"}
    BY <1>0, <1>2 DEF ControlType, ReorgOK, TakeOrphan
  <2>2. from = "local" => /\ Head(kids) \in Above(produced)
                          /\ Tail(kids) \in Seq(Above(produced))
    BY <1>2 DEF TakeOrphan, TrustInv
  <2> QED  BY Zenon, <1>1, <1>2, <2>1, <2>2, TrustAccept DEF TakeOrphan, TrustInv
<1>3. CASE NextAccepted
  <2>1. \A c \in Block : children'[c] \in Seq(ChildrenOf(c))
    <3>1. \A c \in Block : children'[c] \in {children[c], <<>>}
      BY <1>0, <1>3 DEF NextAccepted, Inv, CoreInv, PoolType
    <3>2. \A S : <<>> \in Seq(S)
      OBVIOUS
    <3> QED  BY Zenon, <3>1, <3>2 DEF TrustInv
  <2>2. CASE ResetControl(IF frame = "side" THEN "ErrBlockInSideChain" ELSE "ok")
    BY <1>1, <1>3, <2>1, <2>2 DEF NextAccepted, ResetControl, chainVars, Reorganizing, TrustInv
  <2>3. CASE /\ Tail(queue) # <<>> /\ queue' = Tail(queue)
             /\ kids' = children'[Head(Tail(queue))] /\ UNCHANGED <<pc, from, frame, reorgVars>>
    <3>1. pc' = "orphans" /\ tail' = tail /\ queue # <<>>
      BY <1>0, <1>3, <2>3 DEF NextAccepted, chainVars, ReorgOK
    <3>2. from = "local" => queue' \in Seq(Above(produced)) /\ kids' \in Seq(Above(produced))
      <4> SUFFICES ASSUME from = "local"
                   PROVE  queue' \in Seq(Above(produced)) /\ kids' \in Seq(Above(produced))
        OBVIOUS
      <4>1. queue' \in Seq(Above(produced)) /\ Head(queue') \in Above(produced)
        BY <2>3, <3>1 DEF TrustInv
      <4>2. Head(queue') \in Block /\ ChildrenOf(Head(queue')) \subseteq Above(produced)
        BY <4>1, AboveChild DEF Above
      <4>3. kids' \in Seq(ChildrenOf(Head(queue')))
        BY <2>1, <2>3, <4>2
      <4> QED  BY <4>1, <4>2, <4>3
    <3> QED  BY ZenonT(60), <1>1, <2>1, <2>3, <3>1, <3>2 DEF Reorganizing, TrustInv, reorgVars
  <2> QED  BY <1>3, <2>2, <2>3 DEF NextAccepted
<1>4. ASSUME UNCHANGED poolVars, tail' \in Sound(produced), Reorganizing,
             \/ UNCHANGED <<frameVars, reorgVars>> /\ pc' \in {"attach", "detach", "undo", "redo"}
             \/ Failed("ErrConnect")
             \/ Panic("rollbackFailed", from)
      PROVE  TrustInv'
  <2>1. children' = children
    BY <1>4 DEF poolVars
  <2>2. CASE Failed("ErrConnect")
    BY Zenon, <1>1, <1>4, <2>1, <2>2 DEF Failed, ResetControl, Reorganizing, TrustInv
  <2>3. CASE UNCHANGED <<frameVars, reorgVars>> /\ pc' \in {"attach", "detach", "undo", "redo"}
    BY Zenon, <1>1, <1>4, <2>1, <2>3 DEF frameVars, reorgVars, Reorganizing, TrustInv
  <2>4. CASE Panic("rollbackFailed", from)
    BY ZenonT(60), <1>1, <1>4, <2>1, <2>4 DEF Panic, reorgVars, Reorganizing, TrustInv
  <2> QED  BY <1>4, <2>2, <2>3, <2>4
<1>5. tail \in Block /\ Height[tail] \in Nat /\ fork \in Nat
  BY <1>0, ChainEnds DEF ChainType, ControlType, Heights
<1>6. ASSUME Disconnect, fork < Height[tail]
      PROVE  tail' \in Sound(produced)
  <2>1. tail \in Block \ {Genesis} /\ tail' = Parent[tail]
    BY <1>5, <1>6, TreeAssumption DEF Disconnect, ChangeNewTail
  <2>2. Parent[tail] \in ChainOf(tail)
    BY <2>1, ChainParent, ChainEnds, TreeAssumption
  <2> QED  BY ZenonT(60), <2>1, <2>2, SoundPrefix DEF TrustInv
<1>7. CASE Detach
  <2>1. tail' \in Sound(produced)
    BY <1>0, <1>6, <1>7 DEF Detach, ReorgOK
  <2> QED  BY Zenon, <1>4, <1>7, <2>1 DEF Detach, Reorganizing
<1>8. CASE Undo
  <2>1. tail' \in Sound(produced)
    BY Zenon, <1>0, <1>6, <1>8 DEF Undo, ReorgOK
  <2> QED  BY Zenon, <1>4, <1>8, <2>1 DEF Undo, Reattach, Reorganizing
<1>9. CASE Attach
  <2> DEFINE b == Anc(target, Height[tail] + 1)
  <2>1. b \in Block \ {Genesis} /\ Parent[b] = tail /\ b \in ChainOf(target)
    <3>1. target \in Block /\ Height[tail] < Height[target] /\ tail = Anc(target, Height[tail])
      BY <1>0, <1>9 DEF Attach, ReorgOK
    <3>2. Height[tail] + 1 \in 0..Height[target]
      BY <1>5, <3>1, ChainEnds
    <3> QED  BY ZenonT(60), <1>5, <3>1, <3>2, AncNext DEF ChainOf
  <2>2. CASE ConnectOk(b, from) /\ Connect(b, from)
             /\ IF b = target THEN Accepted(b, from, kids)
                              ELSE UNCHANGED <<pc, frameVars, reorgVars, result>>
    <3>1. b \in Invalid => b \in Above(produced)
      <4>1. CASE from = "local"
        BY Zenon, <1>0, <1>9, <2>1, <4>1, SoundBranch DEF Attach, Reorganizing, TrustInv
      <4>2. CASE from # "local"
        BY <2>2, <4>2 DEF ConnectOk
      <4> QED  BY Zenon, <4>1, <4>2
    <3>2. tail' \in Sound(produced)
      <4>1. tail' = b
        BY Zenon, <2>2 DEF Connect, ChangeNewTail
      <4> HIDE DEF b
      <4>2. b \in Sound(produced)
        BY Zenon, <2>1, <3>1, SoundChild DEF TrustInv
      <4> QED  BY Zenon, <4>1, <4>2
    <3>3. CASE b = target /\ Accepted(b, from, kids)
      <4>1. /\ pc' = "orphans" /\ from' = from /\ queue' = Append(queue, target)
            /\ kids' \in {children'[target], kids} /\ children' = children
        BY ZenonT(60), <1>9, <3>3 DEF Accepted, Attach, poolVars
      <4>2. from = "local" => queue' \in Seq(Above(produced)) /\ kids' \in Seq(Above(produced))
        <5> SUFFICES ASSUME from = "local"
                     PROVE  queue' \in Seq(Above(produced)) /\ kids' \in Seq(Above(produced))
          OBVIOUS
        <5>1. target \in Above(produced) /\ queue \in Seq(Above(produced))
              /\ kids \in Seq(Above(produced))
          BY Zenon, <1>9 DEF Attach, Reorganizing, TrustInv
        <5>2. target \in Block /\ ChildrenOf(target) \subseteq Above(produced)
          BY <5>1, AboveChild DEF Above
        <5>3. children[target] \in Seq(ChildrenOf(target))
          BY <5>2 DEF TrustInv
        <5>4. children[target] \in Seq(Above(produced))
          BY <5>2, <5>3
        <5> QED  BY <4>1, <5>1, <5>4
      <4> QED  BY ZenonT(60), <1>1, <3>2, <4>1, <4>2 DEF Reorganizing, TrustInv
    <3>4. CASE UNCHANGED <<pc, frameVars, reorgVars, result>>
      BY Zenon, <1>4, <1>9, <3>2, <3>4 DEF Attach, Reorganizing
    <3> QED  BY <2>2, <3>3, <3>4
  <2>3. CASE /\ IF Height[tail] > fork
                  THEN pc' = "undo" /\ UNCHANGED <<frameVars, reorgVars, result>>
                  ELSE Reattach
             /\ UNCHANGED chainVars
    <3>1. tail' \in Sound(produced)
      BY Zenon, <2>3 DEF TrustInv, chainVars
    <3> QED  BY Zenon, <1>4, <1>9, <2>3, <3>1 DEF Attach, Reattach, Reorganizing
  <2> QED  BY <1>9, <2>2, <2>3 DEF Attach
<1>10. CASE Redo
  <2> DEFINE b == Anc(old, Height[tail] + 1)
  <2>1. b \in ChainOf(old)
    <3>1. old \in Block /\ Height[tail] < Height[old]
      BY <1>0, <1>10 DEF Redo, ReorgOK
    <3>2. Height[tail] + 1 \in 0..Height[old]
      BY <1>5, <3>1, ChainEnds
    <3> QED  BY Zenon, <3>2 DEF ChainOf
  <2>2. b \in Sound(produced)
    BY Zenon, <1>10, <2>1, SoundPrefix DEF Redo, Reorganizing, TrustInv
  <2>3. tail' \in Sound(produced)
    BY Zenon, <1>10, <2>2 DEF Redo, Connect, ChangeNewTail, Panic, chainVars, TrustInv
  <2> QED  BY <1>4, <1>10, <2>3 DEF Redo, Reorganizing
<1> QED  BY <1>2, <1>3, <1>7, <1>8, <1>9, <1>10 DEF LockHolder

\* So does ProcessBlock, if it is called with the empty messageFrom for a block on
\* top of one minted here only.
LEMMA TrustProcess ==
  ASSUME Inv, TrustInv, NEW b \in Block, NEW f \in {"peer", "sync", "local"},
         ProcessBlock(b, f), f = "local" => b \in Above(produced),
         produced' = produced, minting' \in {minting, None}
  PROVE  TrustInv'
<1>0. ControlType /\ PoolType
  BY DEF Inv, CoreInv
<1>1. b # Genesis \/ ProcessError(b) # "none"
  <2>1. Genesis \in stored
    BY Zenon, ChainEnds DEF Inv, CoreInv, Storage, MainChainStored, MainChain, ChainType
  <2> QED  BY <2>1 DEF ProcessError, blockExists
<1>2. ASSUME UNCHANGED <<chainVars, pc, frameVars, reorgVars>>,
             \A c \in Block : children'[c] \in Seq(ChildrenOf(c))
      PROVE  TrustInv'
  BY Zenon, <1>2 DEF chainVars, frameVars, reorgVars, Reorganizing, TrustInv
<1>3. CASE UNCHANGED <<chainVars, poolVars, pc, frameVars, reorgVars>>
  BY ZenonT(60), <1>2, <1>3 DEF poolVars, TrustInv
<1>4. CASE ProcessError(b) = "none" /\ AddOrphan(b, f)
  <2>1. CASE UNCHANGED poolVars
    BY Zenon, <1>3, <1>4, <2>1 DEF AddOrphan
  <2>2. CASE children' = [children EXCEPT ![Parent[b]] = Append(@, b)]
    <3>1. b \in ChildrenOf(Parent[b]) /\ Parent[b] \in Block
      BY Zenon, <1>1, <1>4, TreeAssumption DEF ChildrenOf
    <3>2. Append(children[Parent[b]], b) \in Seq(ChildrenOf(Parent[b]))
      <4>1. children[Parent[b]] \in Seq(ChildrenOf(Parent[b]))
        BY ZenonT(60), <3>1 DEF TrustInv
      <4> QED  BY ZenonT(60), <3>1, <4>1, AppendOK
    <3>3. \A c \in Block : children'[c] \in Seq(ChildrenOf(c))
      BY <1>0, <2>2, <3>2 DEF PoolType, TrustInv
    <3> QED  BY Zenon, <1>2, <1>4, <3>3 DEF AddOrphan
  <2> QED  BY <1>4, <2>1, <2>2 DEF AddOrphan
<1>5. CASE pc = "idle" /\ ProcessError(b) = "none" /\ TryAccept(b, f, <<>>, orphans)
  <2>1. queue = <<>> /\ kids = <<>> /\ <<>> \in Seq(Above(produced))
        /\ <<>> \in Seq(Block \ {Genesis})
    BY <1>5 DEF TrustInv
  <2> QED  BY Zenon, <1>1, <1>5, <2>1, TrustAccept
<1> QED  BY <1>3, <1>4, <1>5 DEF ProcessBlock

\* Every operation of the node keeps what it trusts.
LEMMA TrustStep ==
  ASSUME Inv, TrustInv, [Next \/ LockedNext]_vars
  PROVE  TrustInv'
<1>0. ChainType /\ minting \in Own \cup {None} /\ produced \in SUBSET Own
  BY DEF Inv, CoreInv, OtherType
<1>1. ASSUME NEW b \in Block, NEW f \in {"peer", "sync"}, Receive(b, f)
      PROVE  TrustInv'
  BY <1>1, TrustProcess DEF Receive, otherVars
<1>2. CASE ProcessMinted
  <2>1. minting \in Block /\ minting \in Above(produced)
    BY <1>0, <1>2, AboveSelf, HeaderAssumption DEF ProcessMinted, TrustInv
  <2> QED  BY ZenonT(60), <1>2, <2>1, TrustProcess DEF ProcessMinted
<1>3. CASE LockHolder
  BY Zenon, <1>3, TrustLockHolder
<1>4. ASSUME NEW b \in Own, Produce(b)
      PROVE  TrustInv'
  <2>1. b \in Block \ {Genesis} /\ b \notin Invalid /\ Parent[b] = tail
    BY Zenon, <1>4, HeaderAssumption DEF Produce
  <2>2. b \in Sound(produced)
    BY <2>1, SoundChild DEF TrustInv
  <2>3. produced' = produced \cup {b} /\ minting' = b /\ from # "local"
        /\ UNCHANGED <<tail, poolVars, pc, frameVars, reorgVars>>
    BY Zenon, <1>4 DEF Produce
  <2>4. Sound(produced) \subseteq Sound(produced')
    BY ZenonT(60), <2>3, SoundMore
  <2> QED  BY ZenonT(60), <2>2, <2>3, <2>4 DEF poolVars, frameVars, reorgVars, Reorganizing, TrustInv
<1>5. CASE NewBlockChain
  <2>1. \A S : <<>> \in Seq(S)
    OBVIOUS
  <2> QED  BY <1>5, <2>1 DEF NewBlockChain, ResetControl, Reorganizing, TrustInv
<1>6. CASE /\ UNCHANGED <<tail, poolVars, frameVars, reorgVars, minting, produced>>
           /\ pc' \in {pc, "nilBlock"}
  BY <1>6 DEF poolVars, frameVars, reorgVars, Reorganizing, TrustInv
<1>7. ASSUME NEW t \in Finalizer, SetEternal(t) \/ \E b \in Block : CheckEternal(t, b)
      PROVE  TrustInv'
  BY Zenon, <1>6, <1>7 DEF SetEternal, CheckEternal, chainVars
<1>8. ASSUME NEW b \in Block, UpdateEternal(b)
      PROVE  TrustInv'
  BY <1>6, <1>8 DEF UpdateEternal, chainVars
<1>9. CASE UNCHANGED vars
  BY Zenon, <1>6, <1>9 DEF vars, chainVars, otherVars
<1> QED  BY ZenonT(60), <1>1, <1>2, <1>3, <1>4, <1>5, <1>7, <1>8, <1>9
         DEF Next, LockedNext, Core, AfterPanic, Crash

\* The first main chain is the genesis block.
LEMMA TrustInit == Init => TrustInv
<1> SUFFICES ASSUME Init PROVE TrustInv
  OBVIOUS
<1>1. ChainOf(Genesis) = {Genesis} /\ Genesis \in Block /\ Genesis \notin Invalid
  BY TreeAssumption, HeaderAssumption DEF ChainOf
<1>2. \A S : <<>> \in Seq(S)
  OBVIOUS
<1> QED  BY ZenonT(60), <1>1, <1>2 DEF Init, Sound, Reorganizing, TrustInv

\* No block that Verify or adjustAndValidateState refuses gets into the main chain,
\* whatever is stored, attached, rolled back or read back after a crash, unless it
\* is on top of a block minted here.
THEOREM Verified == Spec => []MainChainVerified
<1>1. Inv /\ TrustInv => MainChainVerified
  BY Zenon DEF TrustInv, Sound, Above, MainChainVerified, MainChain, Minted
<1>2. Inv /\ TrustInv /\ [Next]_vars => TrustInv'
  BY Zenon, TrustStep
<1> QED  BY <1>1, <1>2, TrustInit, SpecInv, PTL DEF Spec

-----------------------------------------------------------------------------
(* The height index and the longest chain, on a node that has not crashed. *)

\* The main chain grows at its end by one block, with its index entry, loses its
\* last block and the index entry of it, or stays.
MainChainStep ==
  \/ UNCHANGED <<tail, index>>
  \/ \E b \in Block \ {Genesis}, f \in {"none", "peer", "sync", "local"} :
       Parent[b] = tail /\ Connect(b, f)
  \/ tail # Genesis /\ Disconnect

\* tryAcceptBlock appends at most one block.
LEMMA AcceptMoves ==
  ASSUME NEW b \in Block \ {Genesis}, NEW f \in {"none", "peer", "sync", "local"},
         NEW rest, NEW pool, TryAccept(b, f, rest, pool)
  PROVE  MainChainStep
<1>1. CASE Parent[b] = tail /\ Connect(b, f)
  BY Zenon, <1>1 DEF MainChainStep
<1>2. CASE UNCHANGED <<tail, index>>
  BY ZenonT(60), <1>2 DEF MainChainStep
<1>3. CASE Reorganize(b, f, rest, pool)
  BY <1>2, <1>3 DEF Reorganize, Panic, chainVars
<1> QED  BY ZenonT(60), <1>1, <1>2, <1>3 DEF TryAccept, chainVars

\* Every operation but a crash moves the end of the main chain by one block.
LEMMA CoreMoves ==
  ASSUME Inv, Core, crashes' = crashes
  PROVE  MainChainStep
<1>0. ChainType /\ ControlType /\ ReorgOK
  BY Zenon DEF Inv, CoreInv
<1>1. ASSUME NEW b \in Block, NEW f \in {"none", "peer", "sync", "local"}, ProcessBlock(b, f)
      PROVE  MainChainStep
  <2>1. CASE UNCHANGED <<tail, index>>
    BY <2>1 DEF MainChainStep
  <2>2. CASE ProcessError(b) = "none" /\ TryAccept(b, f, <<>>, orphans)
    <3>1. Genesis \in stored
      BY ChainEnds DEF Inv, CoreInv, Storage, MainChainStored, MainChain, ChainType
    <3>2. b # Genesis
      BY <2>2, <3>1 DEF ProcessError, blockExists
    <3> QED  BY ZenonT(60), <2>2, <3>2, AcceptMoves
  <2> QED  BY ZenonT(60), <1>1, <2>1, <2>2 DEF ProcessBlock, AddOrphan, chainVars
<1>2. CASE \E b \in Block, f \in {"peer", "sync"} : Receive(b, f)
  BY <1>1, <1>2 DEF Receive
<1>3. CASE ProcessMinted
  <2>1. minting \in Block
    BY Zenon, <1>3, HeaderAssumption DEF ProcessMinted, Inv, OtherType
  <2> QED  BY Zenon, <1>1, <1>3, <2>1 DEF ProcessMinted
<1>4. CASE TakeOrphan
  <2>1. Head(kids) \in Block \ {Genesis} /\ from \in {"none", "peer", "sync", "local"}
    BY <1>0, <1>4 DEF ControlType, TakeOrphan
  <2> QED  BY <1>4, <2>1, AcceptMoves DEF TakeOrphan
<1>5. CASE NextAccepted
  BY Zenon, <1>5 DEF NextAccepted, chainVars, MainChainStep
<1>6. CASE Detach \/ Undo
  <2>1. fork < Height[tail] /\ fork \in Nat /\ Height[tail] \in Nat
    BY <1>0, <1>6, ChainEnds DEF Detach, Undo, ReorgOK, ControlType, ChainType, Heights
  <2>2. tail # Genesis
    BY <2>1, TreeAssumption
  <2> QED  BY ZenonT(60), <1>6, <2>2 DEF Detach, Undo, MainChainStep
<1>7. ASSUME NEW t \in Block, Height[tail] < Height[t], tail = Anc(t, Height[tail]),
             Connect(Anc(t, Height[tail] + 1), from)
      PROVE  MainChainStep
  <2>1. Anc(t, Height[tail] + 1) \in Block \ {Genesis}
        /\ Parent[Anc(t, Height[tail] + 1)] = tail
    BY Zenon, <1>0, <1>7, AncNext, ChainEnds DEF ChainType
  <2> QED  BY Zenon, <1>0, <1>7, <2>1 DEF MainChainStep, ControlType
<1>8. CASE Attach
  <2>1. target \in Block /\ Height[tail] < Height[target] /\ tail = Anc(target, Height[tail])
    BY Zenon, <1>0, <1>8 DEF Attach, ReorgOK
  <2>2. CASE UNCHANGED chainVars
    BY Zenon, <2>2 DEF chainVars, MainChainStep
  <2> QED  BY Zenon, <1>7, <1>8, <2>1, <2>2 DEF Attach
<1>9. CASE Redo
  <2>1. old \in Block /\ Height[tail] < Height[old] /\ tail = Anc(old, Height[tail])
    BY Zenon, <1>0, <1>9 DEF Redo, ReorgOK
  <2>2. CASE Panic("rollbackFailed", from)
    BY Zenon, <2>2 DEF Panic, chainVars, MainChainStep
  <2> QED  BY Zenon, <1>7, <1>9, <2>1, <2>2 DEF Redo
<1>10. CASE (\E b \in Own : Produce(b)) \/ AfterPanic
  BY ZenonT(60), <1>10 DEF Produce, AfterPanic, NewBlockChain, MainChainStep
<1>11. CASE Crash
  BY <1>11, HeaderAssumption DEF Crash, Inv, OtherType
<1> QED  BY <1>2, <1>3, <1>4, <1>5, <1>6, <1>8, <1>9, <1>10, <1>11 DEF Core, LockHolder

\* Connecting or disconnecting a block keeps the index complete.
LEMMA IndexMoves ==
  ASSUME Inv, MainChainIndexed, MainChainStep
  PROVE  MainChainIndexed'
<1>0. ChainType /\ tail \in Block /\ Height[tail] \in Nat
  BY ChainEnds DEF Inv, CoreInv, ChainType
<1>1. CASE UNCHANGED <<tail, index>>
  BY Zenon, <1>1 DEF MainChainIndexed
<1>2. ASSUME NEW b \in Block \ {Genesis}, Parent[b] = tail, tail' = b,
             index' = [index EXCEPT ![Height[b]] = b]
      PROVE  MainChainIndexed'
  <2>1. Height[b] = Height[tail] + 1 /\ Height[b] \in Heights /\ Anc(b, Height[b]) = b
    BY <1>2, TreeAssumption
  <2>2. \A h \in Heights : h <= Height[tail] => h \in 0..Height[b] /\ h < Height[b]
    BY SMTT(60), <1>0, <2>1 DEF Heights
  <2>3. \A h \in Heights : h <= Height[tail] => Anc(b, h) = Anc(tail, h)
    BY <1>2, <2>2, TreeAssumption
  <2>4. \A h \in Heights : h <= Height[b] => h = Height[b] \/ h <= Height[tail]
    BY <1>0, <2>1 DEF Heights
  <2>5. \A h \in Heights : h <= Height[b] => index'[h] = Anc(b, h)
    BY ZenonT(60), <1>0, <1>2, <2>1, <2>2, <2>3, <2>4 DEF MainChainIndexed, ChainType
  <2> QED  BY Zenon, <1>2, <2>5 DEF MainChainIndexed
<1>3. CASE tail # Genesis /\ Disconnect
  <2>1. tail' = Parent[tail] /\ index' = [index EXCEPT ![Height[tail]] = None]
    BY Zenon, <1>3 DEF Disconnect, ChangeNewTail
  <2>2. Height[tail] = Height[Parent[tail]] + 1 /\ Height[Parent[tail]] \in Nat
    BY ZenonT(60), <1>0, <1>3, ChainParent, ChainEnds
  <2>3. \A h \in Heights : h <= Height[Parent[tail]] => h \in 0..Height[tail] /\ h < Height[tail]
    BY <1>0, <2>2 DEF Heights
  <2>4. \A h \in Heights : h <= Height[Parent[tail]] => Anc(tail, h) = Anc(Parent[tail], h)
    BY ZenonT(60), <1>0, <2>3, TreeAssumption
  <2>5. \A h \in Heights : h <= Height[Parent[tail]] => index'[h] = index[h] /\ h <= Height[tail]
    BY <1>0, <2>1, <2>2, <2>3 DEF ChainType
  <2>6. \A h \in Heights : h <= Height[tail] => index[h] = Anc(tail, h)
    BY Zenon DEF MainChainIndexed
  <2>7. \A h \in Heights : h <= Height[Parent[tail]] => index'[h] = Anc(Parent[tail], h)
    BY Zenon, <2>4, <2>5, <2>6
  <2> QED  BY Zenon, <2>1, <2>7 DEF MainChainIndexed
<1> QED  BY Zenon, <1>1, <1>2, <1>3 DEF MainChainStep, Connect, ChangeNewTail

\* Before the first crash every block of the main chain can be found by its height,
\* at every step of a reorganisation, if updateEternal waits for chainLock. (A crash
\* between the two writes of tryDisConnectBlockFromMainChain leaves a hole.)
THEOREM IndexComplete == LockedSpec => [](crashes = 0 => MainChainIndexed)
<1>1. Init => MainChainIndexed
  BY TreeAssumption DEF Init, MainChainIndexed, Heights
<1>2. Inv /\ (crashes = 0 => MainChainIndexed) /\ [LockedNext]_vars
        => (crashes = 0 => MainChainIndexed)'
  <2> SUFFICES ASSUME Inv, crashes = 0 => MainChainIndexed, [LockedNext]_vars, crashes' = 0
               PROVE  MainChainIndexed'
    BY Zenon
  <2>1. crashes \in Nat
    BY HeaderAssumption DEF Inv, OtherType
  <2>2. CASE Core
    <3>1. crashes' = crashes
      <4>1. crashes' \in {crashes, crashes + 1}
        BY Zenon, <2>2 DEF Core, Receive, ProcessMinted, LockHolder, TakeOrphan, NextAccepted,
           Detach, Attach, Undo, Redo, Produce, AfterPanic, Crash, otherVars
      <4> QED  BY <2>1, <4>1
    <3> QED  BY <2>2, <3>1, CoreMoves, IndexMoves
  <2>3. CASE UNCHANGED <<tail, index, crashes>>
    BY Zenon, <2>3 DEF MainChainIndexed
  <2> QED  BY Zenon, <2>2, <2>3 DEF LockedNext, UpdateEternal, vars, chainVars, otherVars
<1> QED  BY <1>1, <1>2, LockedInv, PTL DEF LockedSpec

\* Nothing in the database is higher than the tail, or, while reorganize is under
\* way, than the tail it started from; rolling back connects the old blocks again.
LongInv ==
  /\ ~Reorganizing => \A b \in stored : Height[b] <= Height[tail]
  /\ Reorganizing => /\ \A b \in stored : Height[b] <= Height[old]
                     /\ Height[target] <= Height[old] + 1
  /\ pc \notin {"rollbackFailed", "nilBlock"}

\* tryAcceptBlock stores a block above the tail only if that is the new tail.
LEMMA LongAccept ==
  ASSUME Inv, LongInv, ~Reorganizing, NEW b \in Block \ {Genesis}, NEW f, NEW rest, NEW pool,
         TryAccept(b, f, rest, pool)
  PROVE  LongInv'
<1>0. ChainType /\ Storage /\ stored \subseteq Block /\ tail \in Block
  BY ZenonT(60) DEF Inv, CoreInv, ChainType
<1>1. \A c \in Block : Height[c] \in Nat
  BY ChainEnds
<1>2. \A c \in stored : Height[c] <= Height[tail]
  BY Zenon DEF LongInv
<1>3. Height[b] = Height[Parent[b]] + 1 /\ Parent[b] \in Block
  BY Zenon, TreeAssumption
<1>4. CASE ResetControl(AcceptError(b, f)) /\ UNCHANGED chainVars
  BY <1>2, <1>4 DEF ResetControl, chainVars, Reorganizing, LongInv
<1>5. CASE Parent[b] = tail /\ Connect(b, f) /\ Accepted(b, f, rest)
  <2>1. tail' = b /\ stored' = stored \cup {b} /\ pc' = "orphans"
    BY ZenonT(60), <1>5 DEF Connect, ChangeNewTail, Accepted
  <2>2. \A c \in stored' : Height[c] <= Height[b]
    BY <1>0, <1>1, <1>2, <1>3, <1>5, <2>1
  <2> QED  BY Zenon, <2>1, <2>2 DEF Reorganizing, LongInv
<1>6. CASE ~Outgrows(b) /\ stored' = stored \cup {b} /\ pc' = "orphans" /\ tail' = tail
  <2>1. Height[b] <= Height[tail]
    BY <1>0, <1>1, <1>6 DEF Outgrows, LongestChainHeight
  <2> QED  BY <1>2, <1>6, <2>1 DEF Reorganizing, LongInv
<1>7. CASE AcceptError(b, f) = "none" /\ Reorganize(b, f, rest, pool)
  <2>1. Height[Parent[b]] <= Height[tail]
    <3>1. Parent[b] \in blockcache \cup stored
      BY ZenonT(60), <1>7 DEF AcceptError, blockExists
    <3>2. Parent[b] \in stored
      BY Zenon, <3>1, <1>0 DEF Storage, CacheOnMainChain, MainChainStored
    <3> QED  BY Zenon, <1>2, <3>2
  <2>2. CASE pc' = "forkNotFound" /\ tail' = tail /\ stored' = stored
    BY Zenon, <1>2, <2>2 DEF Reorganizing, LongInv
  <2>3. CASE pc' = "orphans" /\ tail' = tail /\ stored' \subseteq stored
    BY ZenonT(60), <1>2, <2>3 DEF Reorganizing, LongInv
  <2>4. CASE pc' \in {"attach", "detach"} /\ target' = b /\ old' = tail /\ stored' = stored
    <3>1. Reorganizing' /\ pc' \notin {"rollbackFailed", "nilBlock"}
      BY Zenon, <2>4 DEF Reorganizing
    <3>2. Height[b] <= Height[tail] + 1
      BY <1>0, <1>1, <1>3, <2>1
    <3> QED  BY Zenon, <1>2, <2>4, <3>1, <3>2 DEF LongInv
  <2> QED  BY Zenon, <1>7, <2>2, <2>3, <2>4 DEF Reorganize, Panic, Accepted, chainVars
<1> QED  BY Zenon, <1>4, <1>5, <1>6, <1>7 DEF TryAccept, Failed

\* reorganize ends at the target or at the old tail, which are both highest.
LEMMA LongLockHolder ==
  ASSUME Inv, TrustInv, LongInv, produced = {}, LockHolder
  PROVE  LongInv'
<1>0. ChainType /\ ControlType /\ ReorgOK /\ Above(produced) = {} /\ stored \subseteq Block
  BY DEF Inv, CoreInv, ChainType, Above
<1>1. \A c \in Block : Height[c] \in Nat
  BY ChainEnds
<1>2. CASE TakeOrphan
  <2>1. Head(kids) \in Block \ {Genesis} /\ ~Reorganizing
    BY <1>0, <1>2 DEF ControlType, TakeOrphan, Reorganizing
  <2> QED  BY <1>2, <2>1, LongAccept DEF TakeOrphan
<1>3. CASE NextAccepted
  BY <1>3 DEF NextAccepted, ResetControl, chainVars, Reorganizing, LongInv
<1>4. ASSUME Reorganizing, Reorganizing', stored' = stored, UNCHANGED reorgVars
      PROVE  LongInv'
  BY Zenon, <1>4 DEF reorgVars, Reorganizing, LongInv
<1>5. ASSUME Reorganizing, pc' = "idle", tail' = old, stored' \subseteq stored \cup {old}, old \in Block
      PROVE  LongInv'
  BY <1>1, <1>5 DEF Reorganizing, LongInv
<1>6. CASE Detach
  BY <1>4, <1>6 DEF Detach, Disconnect, Reorganizing
<1>7. CASE Undo
  <2>1. CASE pc' = "idle"
    BY Zenon, <1>0, <1>5, <1>7, <2>1, AtomicLockHolder DEF Undo, Disconnect, ReorgOK, Reorganizing
  <2>2. CASE pc' \in {"undo", "redo"} /\ UNCHANGED reorgVars
    BY ZenonT(60), <1>4, <1>7, <2>2 DEF Undo, Disconnect, Reorganizing
  <2> QED  BY Zenon, <1>7, <2>1, <2>2 DEF Undo, Reattach, Failed, ResetControl
<1>8. CASE Attach
  <2>1. target \in Block /\ old \in Block /\ Height[tail] < Height[target]
        /\ tail \in Block /\ Reorganizing
    BY ZenonT(60), <1>0, <1>8 DEF Attach, ReorgOK, ChainType, Reorganizing
  <2>2. CASE UNCHANGED chainVars /\ pc' = "idle"
    BY ZenonT(60), <1>5, <1>8, <2>1, <2>2, AtomicLockHolder DEF Attach, chainVars
  <2>3. CASE UNCHANGED chainVars /\ pc' \in {"undo", "redo"} /\ UNCHANGED reorgVars
    BY ZenonT(60), <1>4, <2>1, <2>3 DEF chainVars, Reorganizing
  <2> DEFINE b == Anc(target, Height[tail] + 1)
  <2>4. CASE Connect(b, from) /\ IF b = target THEN Accepted(b, from, kids)
                                   ELSE UNCHANGED <<pc, frameVars, reorgVars, result>>
    <3>1. Height[tail] + 1 \in 0..Height[target]
      BY <1>1, <2>1
    <3>2. b \in Block /\ Height[b] = Height[tail] + 1 /\ (b # target => Height[b] < Height[target])
      <4>1. b \in Block /\ Height[b] = Height[tail] + 1
        BY Zenon, <2>1, <3>1, TreeAssumption
      <4>2. Height[b] = Height[target] => b = target
        BY Zenon, <2>1, <4>1, TreeAssumption
      <4> QED  BY <1>1, <2>1, <3>1, <4>1, <4>2
    <3>3. stored' = stored \cup {b} /\ tail' = b
      BY Zenon, <2>4 DEF Connect, ChangeNewTail
    <3> HIDE DEF b
    <3>4. CASE b = target /\ pc' = "orphans"
      <4>1. \A c \in stored : Height[c] <= Height[target]
        <5>1. Height[old] < Height[target] /\ \A c \in stored : Height[c] <= Height[old]
          BY <1>0, <1>8, <2>1 DEF Attach, ReorgOK, LongInv
        <5>2. Height[old] \in Nat /\ Height[target] \in Nat /\ \A c \in stored : Height[c] \in Nat
          BY Zenon, <1>0, <1>1, <2>1
        <5> QED  BY SMTT(30), <5>1, <5>2
      <4> QED  BY <1>1, <3>2, <3>3, <3>4, <4>1 DEF Reorganizing, LongInv
    <3>5. CASE b # target /\ UNCHANGED <<pc, reorgVars>>
      <4>1. Height[b] <= Height[old]
        BY <1>1, <2>1, <3>2, <3>5 DEF LongInv
      <4> QED  BY Zenon, <2>1, <3>3, <3>5, <4>1 DEF Reorganizing, reorgVars, LongInv
    <3> QED  BY <2>4, <3>4, <3>5 DEF Accepted
  <2> QED  BY Zenon, <1>8, <2>2, <2>3, <2>4 DEF Attach, Reattach, Failed, ResetControl
<1>9. CASE Redo
  <2> DEFINE b == Anc(old, Height[tail] + 1)
  <2>1. old \in Block /\ Height[tail] < Height[old] /\ tail \in Block /\ Reorganizing
    BY <1>0, <1>9 DEF Redo, ReorgOK, ChainType, Reorganizing
  <2>2. Height[tail] + 1 \in 0..Height[old]
    BY SMTT(60), <1>1, <2>1
  <2>3. b \in Block /\ b \in ChainOf(old) /\ Height[b] <= Height[old]
    BY <1>1, <2>1, <2>2, TreeAssumption DEF ChainOf
  <2>4. ConnectOk(b, from)
    <3>1. from # "local"
      BY Zenon, <1>0, <2>1 DEF TrustInv
    <3>2. b \notin Invalid
      BY Zenon, <1>0, <2>1, <2>3 DEF TrustInv, Sound
    <3> QED  BY Zenon, <3>1, <3>2 DEF ConnectOk
  <2>5. Connect(b, from) /\ IF b = old THEN Failed("ErrConnect")
                              ELSE UNCHANGED <<pc, frameVars, reorgVars, result>>
    BY ZenonT(60), <1>9, <2>4 DEF Redo
  <2>6. stored' = stored \cup {b} /\ tail' = b
    BY ZenonT(60), <2>5 DEF Connect, ChangeNewTail
  <2> HIDE DEF b
  <2>7. CASE b = old /\ pc' = "idle"
    BY Zenon, <1>5, <2>1, <2>6, <2>7
  <2>8. CASE UNCHANGED <<pc, reorgVars>>
    BY <2>1, <2>3, <2>6, <2>8 DEF reorgVars, Reorganizing, LongInv
  <2> QED  BY ZenonT(60), <2>5, <2>7, <2>8 DEF Failed, ResetControl
<1> QED  BY Zenon, <1>2, <1>3, <1>6, <1>7, <1>8, <1>9 DEF LockHolder

\* On a node that mints no block and has not crashed, no stored block is higher than
\* the tail between two blocks, if updateEternal waits for chainLock: a side chain
\* that is longer has become the main chain, and a failed reorganisation has been
\* rolled back.
THEOREM LongestChain ==
  LockedSpec => [](crashes = 0 /\ produced = {} => TailLongest /\ RollbackConnects)
<1> DEFINE Quiet == crashes = 0 /\ produced = {}
<1>1. Init => LongInv
  BY SMTT(60), TreeAssumption DEF Init, Reorganizing, LongInv
<1>2. Inv /\ TrustInv /\ (Quiet => LongInv) /\ [LockedNext]_vars => (Quiet => LongInv)'
  <2> SUFFICES ASSUME Inv, TrustInv, Quiet => LongInv, [LockedNext]_vars, Quiet'
               PROVE  LongInv'
    BY ZenonT(60)
  <2>1. crashes \in Nat
    BY HeaderAssumption DEF Inv, OtherType
  <2>2. crashes' \in {crashes, crashes + 1} /\ produced \subseteq produced'
    BY Zenon DEF LockedNext, Core, Receive, ProcessMinted, LockHolder, TakeOrphan, NextAccepted,
       Detach, Attach, Undo, Redo, Produce, AfterPanic, Crash, NewBlockChain, UpdateEternal,
       otherVars, vars
  <2>3. crashes = 0 /\ crashes' = crashes /\ produced = {} /\ LongInv
    BY <2>1, <2>2
  <2>4. ASSUME NEW b \in Block, NEW f, ProcessBlock(b, f)
        PROVE  LongInv'
    <3>1. CASE UNCHANGED <<chainVars, pc, reorgVars>>
      BY <2>3, <3>1 DEF chainVars, reorgVars, Reorganizing, LongInv
    <3>2. CASE ProcessError(b) = "none" /\ TryAccept(b, f, <<>>, orphans)
      <4>1. Genesis \in stored
        BY ChainEnds DEF Inv, CoreInv, Storage, MainChainStored, MainChain, ChainType
      <4>2. b # Genesis
        BY ZenonT(60), <3>2, <4>1 DEF ProcessError, blockExists
      <4>3. ~Reorganizing
        BY <2>4 DEF ProcessBlock, Reorganizing
      <4> QED  BY Zenon, <2>3, <3>2, <4>2, <4>3, LongAccept
    <3> QED  BY ZenonT(60), <2>4, <3>1, <3>2 DEF ProcessBlock, AddOrphan
  <2>5. CASE \E b \in Block, f \in {"peer", "sync"} : Receive(b, f)
    BY <2>4, <2>5 DEF Receive
  <2>6. CASE ProcessMinted
    <3>1. minting \in Block
      BY <2>6, HeaderAssumption DEF ProcessMinted, Inv, OtherType
    <3> QED  BY ZenonT(60), <2>4, <2>6, <3>1 DEF ProcessMinted
  <2>7. CASE LockHolder
    BY Zenon, <2>3, <2>7, LongLockHolder
  <2>8. CASE \E b \in Own : Produce(b)
    BY ZenonT(60), <2>3, <2>8 DEF Produce
  <2>9. CASE AfterPanic
    BY ZenonT(60), <2>3, <2>9 DEF AfterPanic, NewBlockChain, ResetControl, Panics, Reorganizing, LongInv
  <2>10. CASE Crash
    BY <2>1, <2>3, <2>10 DEF Crash
  <2>11. CASE UNCHANGED <<chainVars, pc, reorgVars>>
    BY <2>3, <2>11 DEF chainVars, reorgVars, Reorganizing, LongInv
  <2> QED  BY <2>5, <2>6, <2>7, <2>8, <2>9, <2>10, <2>11
           DEF LockedNext, Core, UpdateEternal, vars
<1>3. (Quiet => LongInv) => (crashes = 0 /\ produced = {} => TailLongest /\ RollbackConnects)
  BY DEF LongInv, TailLongest, RollbackConnects, Reorganizing, LongestChainHeight
<1>4. Inv /\ TrustInv /\ [LockedNext]_vars => TrustInv'
  BY TrustStep
<1>5. LockedSpec => []TrustInv
  BY <1>4, TrustInit, LockedInv, PTL DEF LockedSpec
<1> DEFINE Long == Quiet => LongInv
<1>6. Init => Long
  BY Zenon, <1>1
<1>7. Inv /\ TrustInv /\ Long /\ [LockedNext]_vars => Long'
  BY Zenon, <1>2
<1>8. Long => (crashes = 0 /\ produced = {} => TailLongest /\ RollbackConnects)
  BY Zenon, <1>3
<1> HIDE DEF Quiet, Long
<1> QED  BY <1>5, <1>6, <1>7, <1>8, LockedInv, PTL DEF LockedSpec

-----------------------------------------------------------------------------
(* The chain implements ForkChoice.                                        *)

\* What a reader between two blocks sees does not change, or it is a higher chain.
ChoiceKept == SettledTail' = SettledTail /\ eternal' = eternal
ChoiceGrows == /\ ~Reorganizing' /\ Height[tail'] > Height[SettledTail]
               /\ eternal' = eternal

\* A higher chain is a step of ForkChoice, as the eternal block is on it.
LEMMA GrowStep ==
  ASSUME Inv', EternalOnMainChain', ChoiceKept \/ ChoiceGrows
  PROVE  [Node!Step]_(Node!Choice)
<1>1. CASE ChoiceKept
  BY <1>1 DEF ChoiceKept, Node!Choice
<1>2. CASE ChoiceGrows
  <2>1. SettledTail' = tail' /\ eternal' = eternal
    BY <1>2 DEF ChoiceGrows, SettledTail
  <2>2. tail' \in Block
    BY DEF Inv, CoreInv, ChainType
  <2>3. eternal \in Node!On(tail')
    BY <2>1 DEF EternalOnMainChain, MainChain, ChainOf, Node!On
  <2>4. Node!Grow(tail')
    BY <1>2, <2>1, <2>3 DEF Node!Grow, ChoiceGrows
  <2> QED  BY <2>2, <2>4 DEF Node!Step
<1> QED  BY <1>1, <1>2

\* tryAcceptBlock appends a block, begins a reorganisation, or leaves the tail.
LEMMA GrowAccept ==
  ASSUME Inv, ~Reorganizing, NEW b \in Block \ {Genesis}, NEW f, NEW rest, NEW pool,
         TryAccept(b, f, rest, pool), eternal' = eternal
  PROVE  ChoiceKept \/ ChoiceGrows
<1>0. SettledTail = tail /\ tail \in Block
  BY DEF SettledTail, Inv, CoreInv, ChainType
<1>1. CASE pc' \in {"idle", "orphans", "forkNotFound"} /\ tail' = tail
  BY <1>0, <1>1 DEF ChoiceKept, SettledTail, Reorganizing
<1>2. CASE Parent[b] = tail /\ Connect(b, f) /\ Accepted(b, f, rest)
  <2>1. tail' = b /\ pc' = "orphans"
    BY ZenonT(60), <1>2 DEF Connect, ChangeNewTail, Accepted
  <2>2. Height[b] > Height[tail]
    <3>1. Height[b] = Height[tail] + 1
      BY Zenon, <1>2, TreeAssumption
    <3>2. Height[tail] \in Nat
      BY Zenon, <1>0, ChainEnds
    <3> QED  BY <3>1, <3>2
  <2> QED  BY ZenonT(30), <1>0, <2>1, <2>2 DEF ChoiceGrows, Reorganizing
<1>3. CASE pc' \in {"attach", "detach"} /\ old' = tail
  BY <1>0, <1>3 DEF ChoiceKept, SettledTail, Reorganizing
<1>4. CASE Reorganize(b, f, rest, pool)
  BY Zenon, <1>1, <1>3, <1>4 DEF Reorganize, Panic, Accepted, chainVars
<1> QED  BY Zenon, <1>1, <1>2, <1>4 DEF TryAccept, Failed, ResetControl, chainVars

\* reorganize shows its old chain until it ends at the target, which is higher.
LEMMA GrowLockHolder ==
  ASSUME Inv, LockHolder, RollbackConnects'
  PROVE  ChoiceKept \/ ChoiceGrows
<1>0. ControlType /\ ReorgOK
  BY ZenonT(60) DEF Inv, CoreInv
<1>1. eternal' = eternal
  BY DEF LockHolder, TakeOrphan, NextAccepted, Detach, Attach, Undo, Redo, otherVars
<1>2. CASE TakeOrphan
  <2>1. Head(kids) \in Block \ {Genesis} /\ ~Reorganizing
    BY <1>0, <1>2 DEF ControlType, TakeOrphan, Reorganizing
  <2> QED  BY ZenonT(60), <1>1, <1>2, <2>1, GrowAccept DEF TakeOrphan
<1>3. CASE NextAccepted
  <2>1. pc = "orphans" /\ pc' \in {"orphans", "idle"} /\ tail' = tail
    BY Zenon, <1>3 DEF NextAccepted, ResetControl, chainVars
  <2> QED  BY <1>1, <2>1 DEF ChoiceKept, SettledTail, Reorganizing
<1>4. CASE Reorganizing /\ Reorganizing' /\ UNCHANGED reorgVars
  BY <1>1, <1>4 DEF ChoiceKept, SettledTail, reorgVars
<1>5. CASE pc \in {"attach", "undo", "redo"} /\ pc' = "idle"
  <2>1. tail' = old
    BY ZenonT(60), <1>5, AtomicLockHolder
  <2> QED  BY <1>1, <1>5, <2>1 DEF ChoiceKept, SettledTail, Reorganizing
<1>6. CASE pc = "attach" /\ pc' = "orphans"
  <2>1. tail' = target /\ Height[old] < Height[target]
    BY ZenonT(60), <1>0, <1>6, AtomicLockHolder DEF ReorgOK
  <2>2. SettledTail = old /\ old \in Block /\ target \in Block /\ ~Reorganizing'
    BY <1>0, <1>6 DEF SettledTail, Reorganizing, ReorgOK
  <2> QED  BY ZenonT(60), <1>1, <2>1, <2>2, ChainEnds DEF ChoiceGrows
<1>7. CASE Detach
  <2>1. pc = "detach" /\ pc' \in {"attach", "detach"} /\ UNCHANGED reorgVars
    BY Zenon, <1>7 DEF Detach
  <2> QED  BY <1>4, <2>1 DEF Reorganizing
<1>8. CASE Attach
  <2>1. /\ pc = "attach"
        /\ \/ pc' \in {"idle", "orphans"}
           \/ pc' \in {"attach", "undo", "redo"} /\ UNCHANGED reorgVars
    BY Zenon, <1>8 DEF Attach, Accepted, Reattach, Failed, ResetControl
  <2> QED  BY <1>4, <1>5, <1>6, <2>1 DEF Reorganizing
<1>9. CASE Undo
  <2>1. /\ pc = "undo"
        /\ \/ pc' = "idle"
           \/ pc' \in {"undo", "redo"} /\ UNCHANGED reorgVars
    BY Zenon, <1>9 DEF Undo, Reattach, Failed, ResetControl
  <2> QED  BY <1>4, <1>5, <2>1 DEF Reorganizing
<1>10. CASE Redo
  <2>1. /\ pc = "redo"
        /\ \/ pc' = "idle"
           \/ pc' = "redo" /\ UNCHANGED reorgVars
    BY Zenon, <1>10 DEF Redo, Panic, Failed, ResetControl, RollbackConnects
  <2> QED  BY <1>4, <1>5, <2>1 DEF Reorganizing
<1> QED  BY <1>2, <1>3, <1>7, <1>8, <1>9, <1>10 DEF LockHolder

\* Every step of the node is a step of ForkChoice or none, unless it crashes or
\* fails to roll back.
LEMMA ChoiceStep ==
  ASSUME Inv, Inv', EternalOnMainChain', [LockedNext]_vars, crashes' = crashes,
         RollbackConnects'
  PROVE  [Node!Step]_(Node!Choice)
<1>1. ASSUME NEW b \in Block, NEW f, ProcessBlock(b, f), eternal' = eternal
      PROVE  ChoiceKept \/ ChoiceGrows
  <2>1. pc = "idle" /\ ~Reorganizing
    BY ZenonT(60), <1>1 DEF ProcessBlock, Reorganizing
  <2>2. CASE UNCHANGED <<chainVars, pc, reorgVars>>
    BY ZenonT(60), <1>1, <2>2 DEF chainVars, reorgVars, ChoiceKept, SettledTail, Reorganizing
  <2>3. CASE ProcessError(b) = "none" /\ TryAccept(b, f, <<>>, orphans)
    <3>1. Genesis \in stored
      BY ZenonT(60), ChainEnds DEF Inv, CoreInv, Storage, MainChainStored, MainChain, ChainType
    <3>2. b # Genesis
      BY <2>3, <3>1 DEF ProcessError, blockExists
    <3> QED  BY ZenonT(60), <1>1, <2>1, <2>3, <3>2, GrowAccept
  <2> QED  BY Zenon, <1>1, <2>2, <2>3 DEF ProcessBlock, AddOrphan
<1>2. CASE \E b \in Block, f \in {"peer", "sync"} : Receive(b, f)
  BY Zenon, <1>1, <1>2, GrowStep DEF Receive, otherVars
<1>3. CASE ProcessMinted
  <2>1. minting \in Block
    BY <1>3, HeaderAssumption DEF ProcessMinted, Inv, OtherType
  <2> QED  BY ZenonT(30), <1>1, <1>3, <2>1, GrowStep DEF ProcessMinted
<1>4. CASE LockHolder
  BY ZenonT(60), <1>4, GrowLockHolder, GrowStep
<1>5. CASE \E b \in Own : Produce(b)
  <2>1. UNCHANGED <<tail, pc, old, eternal>>
    BY Zenon, <1>5 DEF Produce, reorgVars
  <2> QED  BY <2>1, GrowStep DEF ChoiceKept, SettledTail, Reorganizing
<1>6. CASE AfterPanic
  <2>1. pc \in Panics /\ pc' = "idle" /\ tail' = tail /\ eternal' = eternal
    BY ZenonT(60), <1>6 DEF AfterPanic, NewBlockChain, ResetControl
  <2> QED  BY <2>1, GrowStep DEF ChoiceKept, SettledTail, Reorganizing, Panics
<1>7. CASE Crash
  BY <1>7, HeaderAssumption DEF Crash, Inv, OtherType
<1>8. ASSUME NEW b \in Block, UpdateEternal(b)
      PROVE  [Node!Step]_(Node!Choice)
  <2>1. eternal' = b /\ tail' = tail /\ Height[b] > Height[eternal] /\ SettledTail = tail
        /\ SettledTail' = tail
    BY <1>8 DEF UpdateEternal, chainVars, SettledTail, Reorganizing
  <2>2. b \in Node!On(tail)
    BY <2>1 DEF EternalOnMainChain, MainChain, ChainOf, Node!On
  <2>3. Node!Finalize(b)
    BY ZenonT(60), <2>1, <2>2 DEF Node!Finalize
  <2> QED  BY ZenonT(60), <2>3 DEF Node!Step
<1>9. CASE UNCHANGED vars
  BY <1>9, GrowStep DEF vars, chainVars, reorgVars, otherVars, ChoiceKept, SettledTail, Reorganizing
<1> QED  BY <1>2, <1>3, <1>4, <1>5, <1>6, <1>7, <1>8, <1>9 DEF LockedNext, Core

\* If updateEternal waits for chainLock, a node that does not crash and never fails
\* to roll back implements ForkChoice: it leaves its chain only for a higher one
\* that contains the eternal block, and a reorganisation happens at once.
THEOREM ImplementsForkChoice ==
  LockedSpec /\ [](crashes = 0 /\ RollbackConnects) => GrowsOnly
<1>1. Init => Node!Start
  BY DEF Init, Node!Start, SettledTail, Reorganizing
<1> DEFINE Settles == crashes = 0 /\ RollbackConnects
<1>2. /\ Inv /\ Inv' /\ EternalOnMainChain' /\ [LockedNext]_vars
      /\ Settles /\ Settles'
      => [Node!Step]_(Node!Choice)
  BY Zenon, ChoiceStep
<1> HIDE DEF Settles
<1>3. LockedSpec /\ []Settles => GrowsOnly
  BY <1>1, <1>2, LockedInv, Irreversible, PTL DEF LockedSpec, GrowsOnly, Node!Promise
<1> QED  BY ZenonT(60), <1>3 DEF Settles

\* A node that mints no block always can roll back, so it implements ForkChoice as
\* long as it does not crash.
THEOREM QuietImplementsForkChoice ==
  LockedSpec /\ [](crashes = 0 /\ produced = {}) => GrowsOnly
<1> QED  BY ImplementsForkChoice, LongestChain, PTL

=============================================================================

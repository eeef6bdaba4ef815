--------------------------- MODULE BlockSyncProofs ---------------------------
(***************************************************************************)
(* The theorems about BlockSync, for any peers and chains, any answers,    *)
(* late or lost, and any number of syncs one after the other: while blocks *)
(* are fetched, those that have arrived and those that are expected make   *)
(* up what was asked for; nothing but what was asked for is processed; and *)
(* when all have arrived none is missing.                                  *)
(*                                                                         *)
(* startSync is meant to run once at a time ("prevent startSync being      *)
(* executed again", OneSync). The check of StartSync does not ensure that: *)
(* two goroutines that pass it share the fields of the manager. The        *)
(* theorems are about the behaviours in which no two of them overlap.      *)
(***************************************************************************)
EXTENDS BlockSync, FiniteSetTheorems, TLAPS

-----------------------------------------------------------------------------
(* The invariant.                                                          *)

Hash == Seq(Nat)
Info == [idx : Nat, block : Hash]
Before == {"off", "spawned"}
Fetching == {"fetch", "info", "blocks", "retry", "wait"}
Places == Before \cup Fetching \cup
          {"reset", "locateHashes", "locate", "pickCheck", "check", "exit", "recover"}

\* The types of what the proof is about.
Typed ==
  /\ status \in {"free", "locate", "check", "blocks"}
  /\ pc \in [Sync -> Places] /\ waited \in [Sync -> Nat]
  /\ fetchHashes \in Seq(Hash) /\ infos \in [Peer -> SUBSET Info]
  /\ blocksSynced \in Nat /\ blocksDoneCh \in Nat /\ locateDoneCh \in BOOLEAN
  /\ main \in Hash /\ got \subseteq Hash /\ lastLocatedHash \in Hash \cup {None}

\* Requests go to peers, and locators are hashes.
RequestsOK ==
  /\ todo = [s \in Sync |-> todo[s]]
  /\ \A m \in net : /\ m.peer \in Peer
                    /\ m.kind \in {"locate", "light"} => m.locator \subseteq Hash
  /\ \A s \in Sync : pc[s] = "pickCheck" =>
       \A m \in todo[s] : m.peer \in Peer /\ m.kind = "check"
  /\ \A s \in Sync : pc[s] = "info" => todo[s] \subseteq Peer

\* What is expected is one of the hashes of the round, from one peer.
InfosOK ==
  /\ IsFiniteSet(Pending)
  /\ \A x \in Pending : x.idx \in DOMAIN fetchHashes /\ x.block = fetchHashes[x.idx]
  /\ \A p, q \in Peer : infos[p] \cap infos[q] # {} => p = q
  /\ status = "locate" => Pending = {}

\* A block has arrived when it is with a goroutine, was processed or refused.
Arrived(b) == b \in got \cup Bad \/ \E w \in workers : w.block = b

\* Of the first n hashes, blocksSynced have arrived and the others are expected.
Asked(n) ==
  /\ blocksSynced + Cardinality(Pending) = n
  /\ \A x \in Pending : x.idx <= n
  /\ \A i \in 1..n :
       [idx |-> i, block |-> fetchHashes[i]] \in Pending \/ Arrived(fetchHashes[i])

Nothing == Pending = {} /\ blocksSynced = 0

\* What holds at each place of startSync.
Phase(s) ==
  /\ pc[s] \in {"locateHashes", "locate", "pickCheck", "check", "recover"} => Nothing
  /\ pc[s] = "locate" /\ locateDoneCh => fetchHashes # <<>>
  /\ pc[s] \in {"pickCheck", "check"} => fetchHashes # <<>> /\ status = "check"
  /\ pc[s] \in Fetching => status = "blocks" /\ blocksDoneCh <= blocksSynced
  /\ pc[s] \in {"fetch", "info"} =>
       waited[s] \in 1..Len(fetchHashes) /\ Asked(waited[s] - 1)
  /\ pc[s] \in {"blocks", "retry", "wait"} => Asked(Len(fetchHashes))
  /\ pc[s] = "wait" => blocksSynced >= Len(fetchHashes)

IInv ==
  /\ Typed /\ RequestsOK /\ InfosOK
  /\ \A w \in workers : w.block \in Hash
  /\ (\A s \in Sync : pc[s] \in Before) => Nothing
  /\ \A s \in Sync : Phase(s)

-----------------------------------------------------------------------------
(* What a peer answers, and what becomes of it.                            *)

Less == {pair \in Nat \X Nat : pair[1] < pair[2]}

\* A set of natural numbers that is not empty has a least element.
LEMMA LeastNumber ==
  ASSUME NEW T \in SUBSET Nat, T # {}
  PROVE  \E x \in T : \A y \in T : x <= y
<1>1. IsWellFoundedOn(Less, Nat)
  BY NatLessThanWellFounded DEF OpToRel, Less
<1>2. PICK x \in T : \A y \in T : ~(<<y, x>> \in Less)
  BY Zenon, <1>1, WFMin
<1>3. \A y \in Nat : y < x => <<y, x>> \in Less
  BY DEF Less
<1>4. \A y \in T : ~(y < x) /\ y \in Nat /\ x \in Nat
  BY Zenon, <1>2, <1>3
<1> QED  BY <1>4

\* A set of natural numbers that has a bound and is not empty has a greatest one.
LEMMA GreatestNumber ==
  ASSUME NEW n \in Nat, NEW S \in SUBSET (0..n), S # {}
  PROVE  \E x \in S : \A y \in S : y <= x
<1> DEFINE T == {n - x : x \in S}
<1>1. T \in SUBSET Nat /\ T # {}
  <2>1. \A x \in S : n - x \in Nat
    OBVIOUS
  <2> QED  BY Zenon, <2>1
<1>2. PICK z \in T : \A y \in T : z <= y
  BY Zenon, <1>1, LeastNumber
<1>3. PICK x \in S : z = n - x
  OBVIOUS
<1>4. ASSUME NEW y \in S PROVE y <= x
  <2>1. n - x <= n - y /\ x \in 0..n /\ y \in 0..n
    BY <1>2, <1>3
  <2> QED  BY <2>1
<1> QED  BY <1>4

\* Blocks: hashes of a chain.
LEMMA BlocksOK ==
  ASSUME NEW c \in Seq(Nat), NEW lo \in Nat \ {0}, NEW hi \in Nat, hi <= Len(c), lo <= hi + 1
  PROVE  Blocks(c, lo, hi) \in Seq(Hash)
<1>1. \A i \in 1..(hi + 1 - lo) : SubSeq(c, 1, lo + i - 1) \in Hash
  BY DEF Hash
<1>2. hi + 1 - lo \in Nat
  OBVIOUS
<1> QED  BY <1>1, <1>2 DEF Blocks

\* LocateForkPointAndFetchHeaders returns hashes or fails.
LEMMA HeadersOK ==
  ASSUME NEW p \in Peer, NEW L \in SUBSET Hash
  PROVE  Headers(p, L) \in Seq(Hash) \cup {None}
<1> DEFINE c == PeerChain[p]
           known == {Len(b) : b \in {x \in L : OnChain(x, c)}}
           h == CHOOSE k \in known : \A j \in known : j <= k
<1>1. c \in Seq(Nat) /\ Len(c) \in Nat /\ MaxBlocksPerSync \in Nat \ {0}
  BY SyncAssumption
<1>2. known \in SUBSET (0..Len(c))
  <2>1. ASSUME NEW b \in L, OnChain(b, c) PROVE Len(b) \in 0..Len(c)
    BY <1>1, <2>1 DEF OnChain, Hash
  <2> QED  BY <2>1
<1>3. CASE known = {}
  <2>1. <<>> \in Seq(Hash)
    OBVIOUS
  <2> QED  BY Zenon, <1>3, <2>1 DEF Headers
<1>4. CASE known # {}
  <2> HIDE DEF c, known
  <2>1. h \in 0..Len(c)
    <3>1. \E k \in known : \A j \in known : j <= k
      BY Zenon, <1>1, <1>2, <1>4, GreatestNumber
    <3>2. h \in known
      BY Zenon, <3>1
    <3> QED  BY Zenon, <1>2, <3>2
  <2> HIDE DEF h
  <2>2. Blocks(c, h + 1, Len(c)) \in Seq(Hash)
    BY <1>1, <2>1, BlocksOK
  <2>3. Len(c) - h >= MaxBlocksPerSync => Blocks(c, h + 1, h + MaxBlocksPerSync) \in Seq(Hash)
    BY <1>1, <2>1, BlocksOK
  <2> QED  BY Zenon, <1>4, <2>2, <2>3 DEF Headers, c, known, h
<1> QED  BY <1>3, <1>4

\* rmOverlap cuts leading hashes.
LEMMA RestOK ==
  ASSUME NEW hs \in Seq(Hash)
  PROVE  rmOverlap(hs) \in Seq(Hash)
<1> DEFINE news == {i \in DOMAIN hs : ~Stored(hs[i]) \/ Len(hs[i]) > Len(main)}
           k == CHOOSE i \in news : \A j \in news : i <= j
<1>1. CASE news = {}
  <2>1. <<>> \in Seq(Hash)
    OBVIOUS
  <2> QED  BY Zenon, <1>1, <2>1 DEF rmOverlap
<1>2. CASE news # {}
  <2>1. news \in SUBSET (1..Len(hs)) /\ news \in SUBSET Nat
    OBVIOUS
  <2> HIDE DEF news
  <2>2. k \in 1..Len(hs)
    <3>1. \E i \in news : \A j \in news : i <= j
      BY Zenon, <1>2, <2>1, LeastNumber
    <3> QED  BY Zenon, <2>1, <3>1
  <2> HIDE DEF k
  <2>3. SubSeq(hs, k, Len(hs)) \in Seq(Hash)
    BY <2>2
  <2> QED  BY Zenon, <1>2, <2>3 DEF rmOverlap, news, k
<1> QED  BY <1>1, <1>2

\* ProcessBlock adds blocks, and its main chain ends in one of them or stays.
LEMMA ProcessOK ==
  ASSUME NEW bs, bs \subseteq Hash, main \in Hash, got \subseteq Hash, Process(bs)
  PROVE  main' \in Hash /\ got' \subseteq Hash /\ got' = got \cup bs
<1> DEFINE now == got \cup bs
           whole == {x \in now : \A i \in 1..Len(x) : SubSeq(x, 1, i) \in now}
           longest == {x \in whole : \A y \in whole : Len(y) <= Len(x)}
<1>1. longest \subseteq Hash
  BY Zenon
<1>2. got' = now /\ main' = IF \E x \in longest : Len(x) > Len(main)
                             THEN CHOOSE x \in longest : TRUE ELSE main
  BY Zenon DEF Process
<1> HIDE DEF longest
<1>3. (\E x \in longest : Len(x) > Len(main)) => (CHOOSE x \in longest : TRUE) \in longest
  BY Zenon
<1> QED  BY Zenon, <1>1, <1>2, <1>3

-----------------------------------------------------------------------------
(* Steps of startSync.                                                     *)

\* Where what is expected does not change, it stays in order.
LEMMA SameInfos ==
  ASSUME InfosOK, UNCHANGED <<fetchHashes, infos>>, status' = "locate" => Pending = {}
  PROVE  InfosOK' /\ Pending' = Pending
BY Zenon DEF InfosOK, Pending

\* What was asked for stays so when blocks are processed.
LEMMA SameAsked ==
  ASSUME NEW n, Asked(n), UNCHANGED <<fetchHashes, infos, blocksSynced>>, got \subseteq got',
         \A w \in workers : w \in workers' \/ w.block \in got' \cup Bad
  PROVE  Asked(n)'
<1>1. \A b : Arrived(b) => Arrived(b)'
  BY Zenon DEF Arrived
<1> QED  BY Zenon, <1>1 DEF Asked, Pending

\* No two goroutines sync.
LEMMA Alone ==
  ASSUME OneSync, NEW s \in Sync, pc[s] \notin Before
  PROVE  \A t \in Sync \ {s} : pc[t] \in Before
BY Zenon DEF OneSync, Before

\* A step of a goroutine that leaves what is fetched alone.
LEMMA Moves ==
  ASSUME IInv, NEW s \in Sync, \A t \in Sync \ {s} : pc[t] \in Before,
         NEW l \in Places, pc' = [pc EXCEPT ![s] = l],
         UNCHANGED <<fetchHashes, infos, blocksSynced, main, got, workers>>,
         lastLocatedHash' \in {lastLocatedHash, None},
         status' \in {"free", "locate", "check", "blocks"}, waited' \in [Sync -> Nat],
         blocksDoneCh' \in Nat, locateDoneCh' \in BOOLEAN, RequestsOK',
         status' = "locate" => Pending = {}, l \in Before => Nothing, Phase(s)'
  PROVE  IInv'
<1>1. Typed'
  BY ZenonT(60) DEF IInv, Typed
<1>2. InfosOK' /\ Pending' = Pending
  BY Zenon, SameInfos DEF IInv
<1>3. pc'[s] = l /\ \A t \in Sync \ {s} : pc'[t] = pc[t]
  BY DEF IInv, Typed
<1>4. \A t \in Sync \ {s} : Phase(t)'
  BY Zenon, <1>3 DEF Phase, Before, Fetching
<1>5. (\A t \in Sync : pc'[t] \in Before) => Nothing'
  BY Zenon, <1>2, <1>3 DEF Nothing
<1>6. \A w \in workers' : w.block \in Hash
  BY Zenon DEF IInv
<1> QED  BY Zenon, <1>1, <1>2, <1>4, <1>5, <1>6 DEF IInv

\* A step that sends proper requests and leaves the others alone.
LEMMA Requests ==
  ASSUME IInv, NEW s \in Sync,
         \A m \in net' : \/ m \in net
                         \/ /\ m.peer \in Peer
                            /\ m.kind \in {"locate", "light"} => m.locator \subseteq Hash,
         todo' = [t \in Sync |-> todo'[t]],
         \A t \in Sync \ {s} : pc'[t] = pc[t] /\ todo'[t] = todo[t],
         pc'[s] = "pickCheck" => \A m \in todo'[s] : m.peer \in Peer /\ m.kind = "check",
         pc'[s] = "info" => todo'[s] \subseteq Peer
  PROVE  RequestsOK'
<1>1. \A m \in net' : /\ m.peer \in Peer
                      /\ m.kind \in {"locate", "light"} => m.locator \subseteq Hash
  BY Zenon DEF IInv, RequestsOK
<1>2. \A t \in Sync : pc'[t] = "pickCheck" =>
        \A m \in todo'[t] : m.peer \in Peer /\ m.kind = "check"
  BY Zenon DEF IInv, RequestsOK
<1>3. \A t \in Sync : pc'[t] = "info" => todo'[t] \subseteq Peer
  BY Zenon DEF IInv, RequestsOK
<1> QED  BY Zenon, <1>1, <1>2, <1>3 DEF RequestsOK

\* StartSync: another goroutine, which has done nothing yet.
LEMMA StartSyncStep ==
  ASSUME IInv, NEW s \in Sync, StartSync(s)
  PROVE  IInv'
<1>1. /\ pc[s] = "off" /\ pc' = [pc EXCEPT ![s] = "spawned"]
      /\ UNCHANGED <<status, fetchHashes, infos, blocksSynced, main, got, lastLocatedHash,
                     workers, waited, blocksDoneCh, locateDoneCh, net, todo>>
  BY Zenon DEF StartSync, Goto, stateVars, chans, locateCh, blocksCh, chainVars
<1>2. Typed'
  BY <1>1 DEF IInv, Typed, Places, Before
<1>3. InfosOK' /\ Pending' = Pending
  BY Zenon, <1>1, SameInfos DEF IInv, InfosOK
<1>5. pc'[s] = "spawned" /\ \A t \in Sync \ {s} : pc'[t] = pc[t]
  BY Zenon, <1>1 DEF IInv, Typed
<1>t. todo' = [t \in Sync |-> todo'[t]]
  BY Zenon, <1>1 DEF IInv, RequestsOK
<1>4. RequestsOK'
  BY Zenon, <1>1, <1>5, <1>t, Requests
<1>6. \A n : Asked(n) => Asked(n)'
  BY Zenon, <1>1, SameAsked
<1>7. \A t \in Sync : Phase(t)'
  BY Zenon, <1>1, <1>3, <1>5, <1>6 DEF IInv, Phase, Nothing, Fetching
<1>8. (\A t \in Sync : pc'[t] \in Before) => Nothing'
  BY Zenon, <1>1, <1>3, <1>5 DEF IInv, Nothing, Before
<1> QED  BY Zenon, <1>1, <1>2, <1>3, <1>4, <1>7, <1>8 DEF IInv

\* startSync begins: nothing is expected when no other goroutine syncs.
LEMMA BeginStep ==
  ASSUME IInv, OneSync', NEW s \in Sync, Begin(s)
  PROVE  IInv'
<1>1. /\ pc[s] = "spawned" /\ pc' = [pc EXCEPT ![s] = "reset"] /\ status' = "locate"
      /\ UNCHANGED <<fetchHashes, infos, blocksSynced, main, got, lastLocatedHash,
                     workers, waited, blocksDoneCh, locateDoneCh, net, todo>>
  BY Zenon DEF Begin, Goto, stateVars, chans, locateCh, blocksCh, chainVars
<1>2. pc'[s] = "reset" /\ \A t \in Sync \ {s} : pc'[t] = pc[t]
  BY Zenon, <1>1 DEF IInv, Typed
<1>3. \A t \in Sync \ {s} : pc[t] \in Before
  BY Zenon, <1>2 DEF OneSync, Before
<1>4. Pending = {}
  BY Zenon, <1>1, <1>3 DEF IInv, Before, Nothing
<1>t. todo' = [t \in Sync |-> todo'[t]]
  BY Zenon, <1>1 DEF IInv, RequestsOK
<1>5. RequestsOK'
  BY Zenon, <1>1, <1>2, <1>t, Requests
<1>6. Phase(s)'
  BY Zenon, <1>2 DEF Phase, Fetching
<1>7. waited' \in [Sync -> Nat] /\ blocksDoneCh' \in Nat /\ locateDoneCh' \in BOOLEAN
  BY Zenon, <1>1 DEF IInv, Typed
<1> QED  BY Zenon, <1>1, <1>3, <1>4, <1>5, <1>6, <1>7, Moves DEF Places, Before

\* Reset forgets what is expected.
LEMMA ResetInfos ==
  ASSUME Reset
  PROVE  /\ Nothing' /\ InfosOK' /\ fetchHashes' \in Seq(Hash)
         /\ infos' \in [Peer -> SUBSET Info] /\ blocksSynced' \in Nat
<1>1. infos' = [p \in Peer |-> {}] /\ blocksSynced' = 0 /\ fetchHashes' = <<>>
  BY Zenon DEF Reset
<1>2. Pending' = {}
  BY <1>1 DEF Pending
<1>3. InfosOK'
  BY Zenon, <1>1, <1>2, FS_EmptySet DEF InfosOK
<1>4. fetchHashes' \in Seq(Hash) /\ infos' \in [Peer -> SUBSET Info] /\ blocksSynced' \in Nat
  BY <1>1
<1> QED  BY ZenonT(60), <1>1, <1>2, <1>3, <1>4 DEF Nothing
\* The requests a goroutine is about to send are its own.
Mine(s) == /\ todo' = [t \in Sync |-> todo'[t]]
           /\ \A t \in Sync \ {s} : todo'[t] = todo[t]

\* A goroutine that keeps or replaces the requests it is about to send.
LEMMA MineOK ==
  ASSUME IInv, NEW s \in Sync
  PROVE  /\ todo' = todo => Mine(s)
         /\ \A x : todo' = [todo EXCEPT ![s] = x] => Mine(s) /\ todo'[s] = x
<1>1. todo = [t \in Sync |-> todo[t]]
  BY Zenon DEF IInv, RequestsOK
<1>2. ASSUME todo' = todo PROVE Mine(s)
  BY Zenon, <1>1, <1>2 DEF Mine
<1>3. ASSUME NEW x, todo' = [todo EXCEPT ![s] = x] PROVE Mine(s) /\ todo'[s] = x
  BY <1>1, <1>3 DEF Mine
<1> QED  BY Zenon, <1>2, <1>3

\* The invariant at the place of one goroutine.
LEMMA PhaseOK ==
  ASSUME IInv, NEW s \in Sync
  PROVE  Phase(s)
BY Zenon DEF IInv

\* Nothing is expected as long as nothing is stored.
LEMMA SameNothing ==
  ASSUME Nothing, UNCHANGED <<infos, blocksSynced>>
  PROVE  Nothing'
BY Zenon DEF Nothing, Pending

\* A request that goes out.
Proper(m) == m.peer \in Peer /\ (m.kind \in {"locate", "light"} => m.locator \subseteq Hash)

\* A step of the goroutine that syncs, to the place l, that leaves what is fetched alone.
LEMMA Move ==
  ASSUME IInv, OneSync, NEW s \in Sync, pc[s] \notin Before,
         NEW l \in Places, pc' = [pc EXCEPT ![s] = l],
         UNCHANGED <<fetchHashes, infos, blocksSynced, main, got, workers>>,
         lastLocatedHash' \in {lastLocatedHash, None},
         \A m \in net' : m \in net \/ Proper(m), Mine(s),
         l = "pickCheck" => \A m \in todo'[s] : m.peer \in Peer /\ m.kind = "check",
         l = "info" => todo'[s] \subseteq Peer,
         status' \in {"free", "locate", "check", "blocks"}, waited' \in [Sync -> Nat],
         blocksDoneCh' \in Nat, locateDoneCh' \in BOOLEAN,
         status' = "locate" => status = "locate" \/ Nothing, l \in Before => Nothing, Phase(s)'
  PROVE  IInv'
<1>1. \A t \in Sync \ {s} : pc[t] \in Before
  BY Zenon, Alone
<1>2. pc'[s] = l /\ \A t \in Sync \ {s} : pc'[t] = pc[t]
  BY Zenon DEF IInv, Typed
<1>3. RequestsOK'
  BY Zenon, <1>2, Requests DEF Mine, Proper
<1>4. status' = "locate" => Pending = {}
  BY Zenon DEF IInv, InfosOK, Nothing
<1> QED  BY Zenon, <1>1, <1>3, <1>4, Moves

\* The locator holds hashes.
LEMMA LocatorOK ==
  ASSUME main \in Hash
  PROVE  Locator \subseteq Hash
BY DEF Locator, Hash

\* pickOnePeer returns a peer.
LEMMA PickOK ==
  ASSUME NEW st, NEW sp
  PROVE  pickOnePeer(st, sp) \subseteq Peer
BY Zenon DEF pickOnePeer, Preferred, Fresh, Again

\* locateHashes asks a peer for hashes, or the round starts again.
LEMMA LocateHashesStep ==
  ASSUME IInv, OneSync, NEW s \in Sync, LocateHashes(s)
  PROVE  IInv'
<1> DEFINE loc == IF lastLocatedHash # None THEN {lastLocatedHash} ELSE Locator
<1>1. /\ pc[s] = "locateHashes" /\ status' = "locate" /\ locateDoneCh' = FALSE /\ blocksDoneCh' = 0
      /\ UNCHANGED <<fetchHashes, infos, blocksSynced, main, got, lastLocatedHash, workers,
                     waited, todo>>
  BY Zenon DEF LocateHashes, DrainLocate, DrainBlocks, stateVars, chainVars
<1>2. \E l \in {"locate", "reset"} : pc' = [pc EXCEPT ![s] = l]
  BY Zenon DEF LocateHashes, Goto
<1>3. PICK l \in {"locate", "reset"} : pc' = [pc EXCEPT ![s] = l]
  BY Zenon, <1>2
<1>4. loc \subseteq Hash
  BY Zenon, LocatorOK DEF IInv, Typed
<1>5. \A m \in net' : m \in net \/ Proper(m)
  <2>1. \A m \in net' : \/ m \in net
                        \/ \E p \in Peer : m = [kind |-> "locate", peer |-> p, locator |-> loc]
    BY Zenon, PickOK DEF LocateHashes
  <2> HIDE DEF loc
  <2>2. \A p \in Peer : Proper([kind |-> "locate", peer |-> p, locator |-> loc])
    BY <1>4 DEF Proper
  <2> QED  BY Zenon, <2>1, <2>2
<1>6. Nothing /\ Nothing' /\ Mine(s)
  BY Zenon, <1>1, MineOK, PhaseOK, SameNothing DEF Phase
<1>7. pc'[s] = l
  BY Zenon, <1>3 DEF IInv, Typed
<1>8. Phase(s)'
  BY Zenon, <1>1, <1>6, <1>7 DEF Phase, Fetching
<1>9. /\ waited' \in [Sync -> Nat] /\ blocksDoneCh' \in Nat /\ locateDoneCh' \in BOOLEAN
      /\ l \in Places /\ pc[s] \notin Before /\ l \notin Before \cup {"pickCheck", "info"}
  BY ZenonT(60), <1>1 DEF IInv, Typed, Places, Before
<1> QED  BY Zenon, <1>1, <1>3, <1>5, <1>6, <1>8, <1>9, Move

\* There are hashes: peers are asked to check them.
LEMMA LocateDoneStep ==
  ASSUME IInv, OneSync, NEW s \in Sync, LocateDone(s)
  PROVE  IInv'
<1>1. /\ pc[s] = "locate" /\ locateDoneCh /\ status' = "check" /\ locateDoneCh' = FALSE
      /\ pc' = [pc EXCEPT ![s] = "pickCheck"] /\ lastLocatedHash' = None
      /\ waited' = [waited EXCEPT ![s] = MaxCheckPeers] /\ todo' = [todo EXCEPT ![s] = {}]
      /\ UNCHANGED <<fetchHashes, infos, blocksSynced, main, got, workers, blocksDoneCh, net>>
  BY Zenon DEF LocateDone, Goto, stateVars, chainVars, blocksCh
<1>2. Nothing /\ Nothing' /\ Mine(s) /\ todo'[s] = {} /\ fetchHashes # <<>>
  BY Zenon, <1>1, MineOK, PhaseOK, SameNothing DEF Phase
<1>3. pc'[s] = "pickCheck"
  BY Zenon, <1>1 DEF IInv, Typed
<1>4. Phase(s)'
  BY Zenon, <1>1, <1>2, <1>3 DEF Phase, Fetching
<1>5. /\ waited' \in [Sync -> Nat] /\ blocksDoneCh' \in Nat /\ pc[s] \notin Before
  BY Zenon, <1>1, SyncAssumption DEF IInv, Typed, Before
<1>6. "pickCheck" \in Places /\ "pickCheck" \notin Before
  BY DEF Places, Before
<1> QED  BY Zenon, <1>1, <1>2, <1>4, <1>5, <1>6, Move
\* An error while hashes are located ends the round or the sync.
LEMMA LocateErrStep ==
  ASSUME IInv, OneSync, NEW s \in Sync, LocateErr(s)
  PROVE  IInv'
<1>1. /\ pc[s] = "locate"
      /\ UNCHANGED <<status, fetchHashes, infos, blocksSynced, main, got, lastLocatedHash,
                     workers, waited, todo, net, blocksDoneCh, locateDoneCh>>
  BY Zenon DEF LocateErr, stateVars, chainVars, blocksCh
<1>2. PICK l \in {"exit", "reset"} : pc' = [pc EXCEPT ![s] = l]
  BY Zenon DEF LocateErr, Goto
<1>3. Mine(s) /\ pc'[s] = l
  BY Zenon, <1>1, <1>2, MineOK DEF IInv, Typed
<1>4. Phase(s)'
  BY Zenon, <1>3 DEF Phase, Fetching
<1>5. l \in Places /\ l \notin Before \cup {"pickCheck", "info"} /\ pc[s] \notin Before
  BY Zenon, <1>1, <1>2 DEF Places, Before
<1>6. Typed
  BY Zenon DEF IInv
<1> QED  BY Zenon, <1>1, <1>2, <1>3, <1>4, <1>5, <1>6, Move DEF Typed

\* checkHashes picks a peer, or finds none.
LEMMA PickCheckStep ==
  ASSUME IInv, OneSync, NEW s \in Sync, PickCheck(s)
  PROVE  IInv'
<1> DEFINE req(p) == [kind |-> "check", peer |-> p, hashes |-> fetchHashes, no |-> waited[s]]
<1>1. /\ pc[s] = "pickCheck" /\ waited[s] > 0
      /\ UNCHANGED <<status, fetchHashes, infos, blocksSynced, main, got, lastLocatedHash,
                     workers, net, blocksDoneCh, locateDoneCh>>
  BY Zenon DEF PickCheck, stateVars, chainVars, chans, blocksCh, locateCh
<1>2. Typed /\ Phase(s) /\ todo = [t \in Sync |-> todo[t]]
  BY Zenon DEF IInv, RequestsOK
<1>3. CASE pc' = [pc EXCEPT ![s] = "reset"] /\ UNCHANGED <<todo, waited>>
  <2>1. Mine(s) /\ pc'[s] = "reset"
    BY Zenon, <1>2, <1>3, MineOK DEF Typed
  <2>2. Phase(s)'
    BY Zenon, <2>1 DEF Phase, Fetching
  <2>3. "reset" \in Places /\ "reset" \notin Before /\ pc[s] \notin Before
    BY Zenon, <1>1 DEF Places, Before
  <2> QED  BY ZenonT(60), <1>1, <1>2, <1>3, <2>1, <2>2, <2>3, Move DEF Typed
<1>4. CASE /\ pc' = pc
           /\ \E p \in Peer : todo' = [todo EXCEPT ![s] = todo[s] \cup {req(p)}]
           /\ waited' = [waited EXCEPT ![s] = waited[s] - 1]
  <2>1. PICK p \in Peer : todo' = [todo EXCEPT ![s] = todo[s] \cup {req(p)}]
    BY Zenon, <1>4
  <2>2. Mine(s) /\ todo'[s] = todo[s] \cup {req(p)}
    BY Zenon, <2>1, MineOK
  <2>3. \A m \in todo[s] : m.peer \in Peer /\ m.kind = "check"
    BY Zenon, <1>1 DEF IInv, RequestsOK
  <2>4. \A m \in todo'[s] : m.peer \in Peer /\ m.kind = "check"
    BY <2>2, <2>3
  <2>5. pc' = [pc EXCEPT ![s] = "pickCheck"] /\ pc'[s] = "pickCheck"
    BY ZenonT(60), <1>1, <1>2, <1>4 DEF Typed
  <2>6. Nothing /\ Nothing'
    BY Zenon, <1>1, <1>2, SameNothing DEF Phase
  <2>7. Phase(s)'
    BY Zenon, <1>1, <1>2, <2>5, <2>6 DEF Phase, Fetching
  <2>8. waited' \in [Sync -> Nat]
    BY <1>1, <1>2, <1>4 DEF Typed
  <2>9. "pickCheck" \in Places /\ "pickCheck" \notin Before /\ pc[s] \notin Before
    BY Zenon, <1>1 DEF Places, Before
  <2>10. status' \in {"free", "locate", "check", "blocks"}
         /\ blocksDoneCh' \in Nat /\ locateDoneCh' \in BOOLEAN
    BY Zenon, <1>1, <1>2 DEF Typed
  <2> QED  BY ZenonT(60), <1>1, <2>2, <2>4, <2>5, <2>6, <2>7, <2>8, <2>9, <2>10, Move
<1> QED  BY Zenon, <1>3, <1>4, PickOK DEF PickCheck, Goto

\* The requests to check are sent.
LEMMA SendCheckStep ==
  ASSUME IInv, OneSync, NEW s \in Sync, SendCheck(s)
  PROVE  IInv'
<1>1. /\ pc[s] = "pickCheck" /\ todo' = [todo EXCEPT ![s] = {}]
      /\ UNCHANGED <<status, fetchHashes, infos, blocksSynced, main, got, lastLocatedHash,
                     workers, waited, blocksDoneCh, locateDoneCh>>
  BY Zenon DEF SendCheck, stateVars, chainVars, chans, blocksCh, locateCh
<1>2. PICK l \in {"check", "reset"} : pc' = [pc EXCEPT ![s] = l]
  BY Zenon DEF SendCheck, Goto
<1>3. Typed /\ Phase(s)
  BY Zenon DEF IInv
<1>4. Mine(s) /\ pc'[s] = l
  BY Zenon, <1>1, <1>2, <1>3, MineOK DEF Typed
<1>5. \A m \in net' : m \in net \/ Proper(m)
  <2>1. \A m \in net' : m \in net \/ m \in todo[s]
    BY Zenon DEF SendCheck
  <2>2. \A m \in todo[s] : m.peer \in Peer /\ m.kind = "check"
    BY Zenon, <1>1 DEF IInv, RequestsOK
  <2> QED  BY Zenon, <2>1, <2>2 DEF Proper
<1>6. Nothing'
  BY Zenon, <1>1, <1>3, SameNothing DEF Phase
<1>7. Phase(s)'
  BY Zenon, <1>1, <1>2, <1>3, <1>4, <1>6 DEF Phase, Fetching
<1>8. l \in Places /\ l \notin Before \cup {"pickCheck", "info"} /\ pc[s] \notin Before
  BY Zenon, <1>1, <1>2 DEF Places, Before
<1> QED  BY ZenonT(60), <1>1, <1>2, <1>3, <1>4, <1>5, <1>7, <1>8, Move DEF Typed
\* Nothing has been asked for yet.
LEMMA AskedNone ==
  ASSUME Nothing
  PROVE  Asked(0)
<1>1. Cardinality({}) = 0
  BY Zenon, FS_EmptySet
<1> QED  BY <1>1 DEF Nothing, Asked

\* What was asked for does not change with it.
LEMMA SameFetch ==
  ASSUME UNCHANGED <<fetchHashes, infos, blocksSynced, got, workers>>
  PROVE  \A n : Asked(n) => Asked(n)'
BY Zenon, SameAsked

\* The hashes are checked by enough peers: the first block is asked for next.
LEMMA CheckOkStep ==
  ASSUME IInv, OneSync, NEW s \in Sync, CheckOk(s)
  PROVE  IInv'
<1>1. /\ pc[s] = "check"
      /\ UNCHANGED <<fetchHashes, infos, blocksSynced, main, got, lastLocatedHash,
                     workers, net, todo, locateDoneCh>>
  BY Zenon DEF CheckOk, stateVars, chainVars, locateCh
<1>2. Typed /\ Phase(s) /\ Mine(s)
  BY Zenon, <1>1, MineOK DEF IInv
<1>3. Nothing /\ Nothing' /\ fetchHashes # <<>> /\ status = "check"
  BY Zenon, <1>1, <1>2, SameNothing DEF Phase
<1>4. CASE /\ status' = "blocks" /\ blocksDoneCh' = 0
           /\ waited' = [waited EXCEPT ![s] = 1] /\ pc' = [pc EXCEPT ![s] = "fetch"]
  <2>1. pc'[s] = "fetch" /\ waited'[s] = 1 /\ waited' \in [Sync -> Nat]
    BY <1>2, <1>4 DEF Typed
  <2>2. Asked(0)'
    BY Zenon, <1>1, <1>3, AskedNone, SameFetch
  <2>3. Asked(waited[s] - 1)'
    <3>1. waited'[s] - 1 = 0
      BY <2>1
    <3> QED  BY Zenon, <2>2, <3>1 DEF Asked
  <2>4. waited'[s] \in 1..Len(fetchHashes') /\ blocksDoneCh' <= blocksSynced'
    BY <1>1, <1>2, <1>3, <1>4, <2>1 DEF Typed
  <2>5. Phase(s)'
    BY ZenonT(60), <1>4, <2>1, <2>3, <2>4 DEF Phase
  <2>6. "fetch" \in Places /\ "fetch" \notin Before /\ pc[s] \notin Before
    BY Zenon, <1>1 DEF Places, Fetching, Before
  <2>7. blocksDoneCh' \in Nat /\ locateDoneCh' \in BOOLEAN
    BY Zenon, <1>1, <1>2, <1>4, <2>2 DEF Typed
  <2> QED  BY Zenon, <1>1, <1>2, <1>4, <2>1, <2>5, <2>6, <2>7, Move
<1>5. CASE UNCHANGED <<status, blocksDoneCh, waited, pc>>
  <2>1. pc' = [pc EXCEPT ![s] = "check"] /\ pc'[s] = "check"
    BY ZenonT(60), <1>1, <1>2, <1>5 DEF Typed
  <2>2. Phase(s)'
    BY Zenon, <1>1, <1>3, <1>5, <2>1 DEF Phase, Fetching
  <2>3. "check" \in Places /\ "check" \notin Before /\ pc[s] \notin Before
    BY Zenon, <1>1 DEF Places, Before
  <2> QED  BY ZenonT(60), <1>1, <1>2, <1>5, <2>1, <2>2, <2>3, Move DEF Typed
<1> QED  BY Zenon, <1>4, <1>5 DEF CheckOk, DrainBlocks, Goto, blocksCh

\* A check that fails ends the round or is asked of another peer.
LEMMA CheckErrStep ==
  ASSUME IInv, OneSync, NEW s \in Sync, CheckErr(s)
  PROVE  IInv'
<1>1. /\ pc[s] = "check"
      /\ UNCHANGED <<status, fetchHashes, infos, blocksSynced, main, got, lastLocatedHash,
                     workers, net, locateDoneCh, blocksDoneCh>>
  BY Zenon DEF CheckErr, stateVars, chainVars, locateCh, blocksCh
<1>2. Typed /\ Phase(s) /\ pc[s] \notin Before
  BY Zenon, <1>1 DEF IInv, Before
<1>3. Nothing'
  BY Zenon, <1>1, <1>2, SameNothing DEF Phase
<1>4. CASE pc' = [pc EXCEPT ![s] = "reset"] /\ UNCHANGED <<todo, waited>>
  <2>1. Mine(s) /\ pc'[s] = "reset"
    BY Zenon, <1>2, <1>4, MineOK DEF Typed
  <2>2. Phase(s)'
    BY Zenon, <2>1 DEF Phase, Fetching
  <2>3. "reset" \in Places /\ "reset" \notin Before
    BY DEF Places, Before
  <2> QED  BY ZenonT(60), <1>1, <1>2, <1>4, <2>1, <2>2, <2>3, Move DEF Typed
<1>5. CASE /\ pc' = [pc EXCEPT ![s] = "pickCheck"]
           /\ waited' = [waited EXCEPT ![s] = 1] /\ todo' = [todo EXCEPT ![s] = {}]
  <2>1. Mine(s) /\ pc'[s] = "pickCheck" /\ todo'[s] = {}
    BY Zenon, <1>2, <1>5, MineOK DEF Typed
  <2>2. Phase(s)'
    BY Zenon, <1>1, <1>2, <1>3, <2>1 DEF Phase, Fetching
  <2>3. "pickCheck" \in Places /\ "pickCheck" \notin Before
    BY DEF Places, Before
  <2>4. waited' \in [Sync -> Nat]
    BY <1>2, <1>5 DEF Typed
  <2>5. \A m \in todo'[s] : m.peer \in Peer /\ m.kind = "check"
    BY Zenon, <2>1
  <2>6. status' \in {"free", "locate", "check", "blocks"}
        /\ blocksDoneCh' \in Nat /\ locateDoneCh' \in BOOLEAN
    BY Zenon, <1>1, <1>2 DEF Typed
  <2> QED  BY ZenonT(60), <1>1, <1>2, <1>5, <2>1, <2>2, <2>3, <2>4, <2>5, <2>6, Move
<1> QED  BY Zenon, <1>4, <1>5 DEF CheckErr, Goto

\* A timeout ends the round.
LEMMA TimeoutStep ==
  ASSUME IInv, OneSync, NEW s \in Sync, Timeout(s)
  PROVE  IInv'
<1>1. /\ pc[s] \in {"locate", "check"} /\ pc' = [pc EXCEPT ![s] = "reset"]
      /\ UNCHANGED <<status, fetchHashes, infos, blocksSynced, main, got, lastLocatedHash,
                     workers, waited, todo, net, blocksDoneCh, locateDoneCh>>
  BY Zenon DEF Timeout, Goto, stateVars, chainVars, chans, blocksCh, locateCh
<1>2. Typed
  BY Zenon DEF IInv
<1>3. Mine(s) /\ pc'[s] = "reset"
  BY ZenonT(60), <1>1, <1>2, MineOK DEF Typed
<1>4. Phase(s)'
  BY Zenon, <1>3 DEF Phase, Fetching
<1>5. "reset" \in Places /\ "reset" \notin Before /\ pc[s] \notin Before
  BY <1>1 DEF Places, Before
<1> QED  BY Zenon, <1>1, <1>2, <1>3, <1>4, <1>5, Move DEF Typed
\* A request for a block.
LEMMA RequestOK ==
  ASSUME NEW s, NEW i, NEW p \in Peer, NEW sp, NEW next, FetchRemoteBlocks(s, i, p, sp, next)
  PROVE  pc' = [pc EXCEPT ![s] = next] /\ \A m \in net' : m \in net \/ Proper(m)
<1> DEFINE req == [kind |-> "blocks", peer |-> p, idx |-> i, block |-> fetchHashes[i]]
<1>1. Proper(req)
  BY DEF Proper
<1>2. net' = net \cup {req} /\ pc' = [pc EXCEPT ![s] = next]
  BY Zenon DEF FetchRemoteBlocks, Goto
<1> QED  BY Zenon, <1>1, <1>2

\* A step of startSync while blocks are fetched, that asks for a block again, waits, or
\* gives up.
LEMMA FetchMove ==
  ASSUME IInv, OneSync, NEW s \in Sync, pc[s] \in Fetching,
         NEW l \in {pc[s], "info", "blocks", "retry", "wait", "exit"}, pc' = [pc EXCEPT ![s] = l],
         l \in {"blocks", "retry", "wait"} => pc[s] \in {"blocks", "retry", "wait"},
         l = "info" => pc[s] \in {"fetch", "info"} /\ todo'[s] \subseteq Peer,
         l \in {"fetch", "info"} => waited' = waited,
         l = "wait" => blocksSynced >= Len(fetchHashes),
         UNCHANGED <<status, fetchHashes, infos, blocksSynced, main, got, lastLocatedHash,
                     workers, locateDoneCh>>,
         \A m \in net' : m \in net \/ Proper(m), Mine(s),
         waited' \in [Sync -> Nat], blocksDoneCh' \in Nat, blocksDoneCh' <= blocksDoneCh
  PROVE  IInv'
<1>1. Typed /\ Phase(s)
  BY Zenon DEF IInv
<1>2. pc'[s] = l
  BY Zenon, <1>1 DEF Typed
<1>3. \A n : Asked(n) => Asked(n)'
  BY ZenonT(60), SameFetch
<1>4. blocksDoneCh' <= blocksSynced'
  BY <1>1 DEF Typed, Phase
<1>5. status' = "blocks"
  BY Zenon, <1>1 DEF Phase
<1>6. CASE l = "exit"
  <2>1. Phase(s)'
    BY Zenon, <1>2, <1>6 DEF Phase, Fetching
  <2>2. "exit" \in Places /\ "exit" \notin Before /\ pc[s] \notin Before
    BY DEF Places, Fetching, Before
  <2> QED  BY ZenonT(60), <1>1, <1>5, <1>6, <2>1, <2>2, Move DEF Typed
<1>7. CASE l \in {"fetch", "info"}
  <2>1. pc[s] \in {"fetch", "info"}
    BY <1>7
  <2>2. waited'[s] \in 1..Len(fetchHashes') /\ Asked(waited[s] - 1)
    BY Zenon, <1>1, <1>7, <2>1 DEF Phase
  <2>3. Asked(waited[s] - 1)'
    <3>1. waited'[s] = waited[s]
      BY Zenon, <1>7
    <3>2. PICK n : n = waited[s] - 1
      OBVIOUS
    <3>3. Asked(n)' /\ n = waited'[s] - 1
      BY ZenonT(60), <1>3, <2>2, <3>1, <3>2
    <3> QED  BY Zenon, <3>3 DEF Asked
  <2>4. Phase(s)'
    BY ZenonT(60), <1>2, <1>4, <1>5, <1>7, <2>2, <2>3 DEF Phase, Fetching
  <2>5. l \in Places /\ l \notin Before /\ pc[s] \notin Before /\ l # "pickCheck"
    BY <1>7 DEF Places, Fetching, Before
  <2> QED  BY ZenonT(60), <1>1, <1>5, <2>4, <2>5, Move DEF Typed
<1>8. CASE l \in {"blocks", "retry", "wait"}
  <2>1. Asked(Len(fetchHashes))
    BY Zenon, <1>1, <1>8 DEF Phase
  <2>2. Asked(Len(fetchHashes))'
    <3>1. PICK n : n = Len(fetchHashes)
      BY ZenonT(60)
    <3>2. Asked(n)' /\ n = Len(fetchHashes')
      BY Zenon, <1>3, <2>1, <3>1
    <3> QED  BY Zenon, <3>2 DEF Asked
  <2>3. l = "wait" => blocksSynced' >= Len(fetchHashes')
    BY Zenon
  <2>4. Phase(s)'
    BY Zenon, <1>2, <1>4, <1>5, <1>8, <2>2, <2>3 DEF Phase
  <2>5. l \in Places /\ l \notin Before /\ pc[s] \notin Before /\ l \notin {"pickCheck", "info"}
    BY <1>8 DEF Places, Fetching, Before
  <2> QED  BY Zenon, <1>1, <1>5, <2>4, <2>5, Move DEF Typed
<1> QED  BY <1>6, <1>7, <1>8 DEF Fetching
\* fetchAllBlocks asks for the next block.
LEMMA FetchStep ==
  ASSUME IInv, OneSync, NEW s \in Sync, Fetch(s)
  PROVE  IInv'
<1>1. /\ pc[s] = "fetch"
      /\ UNCHANGED <<status, fetchHashes, infos, blocksSynced, main, got, lastLocatedHash,
                     workers, waited, locateDoneCh, blocksDoneCh>>
  BY Zenon DEF Fetch, stateVars, chainVars, chans, locateCh, blocksCh
<1>2. waited' \in [Sync -> Nat] /\ blocksDoneCh' \in Nat /\ blocksDoneCh' <= blocksDoneCh
  BY <1>1 DEF IInv, Typed
<1>3. pc[s] \in Fetching
  BY <1>1 DEF Fetching
<1>4. CASE pc' = [pc EXCEPT ![s] = "exit"] /\ UNCHANGED <<net, todo>>
  <2>1. Mine(s)
    BY Zenon, <1>4, MineOK
  <2> QED  BY Zenon, <1>1, <1>2, <1>3, <1>4, <2>1, FetchMove
<1>5. CASE \E p \in Peer : \E sp : /\ FetchRemoteBlocks(s, waited[s], p, sp, "info")
                                   /\ todo' = [todo EXCEPT ![s] = {p}]
  <2>1. PICK p \in Peer : \E sp : /\ FetchRemoteBlocks(s, waited[s], p, sp, "info")
                                  /\ todo' = [todo EXCEPT ![s] = {p}]
    BY Zenon, <1>5
  <2>2. Mine(s) /\ todo'[s] = {p}
    BY Zenon, <2>1, MineOK
  <2>3. pc' = [pc EXCEPT ![s] = "info"] /\ \A m \in net' : m \in net \/ Proper(m)
    BY Zenon, <2>1, RequestOK
  <2>4. todo'[s] \subseteq Peer
    BY Zenon, <2>2
  <2> QED  BY Zenon, <1>1, <1>2, <1>3, <2>2, <2>3, <2>4, FetchMove
<1> QED  BY Zenon, <1>4, <1>5, PickOK DEF Fetch, GiveUp, Goto

\* A signal that a block has arrived: the last one ends the wait.
LEMMA BlocksDoneStep ==
  ASSUME IInv, OneSync, NEW s \in Sync, BlocksDone(s)
  PROVE  IInv'
<1>1. /\ pc[s] = "blocks" /\ blocksDoneCh > 0 /\ blocksDoneCh' = blocksDoneCh - 1
      /\ UNCHANGED <<status, fetchHashes, infos, blocksSynced, main, got, lastLocatedHash,
                     workers, net, todo, locateDoneCh>>
  BY Zenon DEF BlocksDone, stateVars, chainVars, locateCh
<1>2. blocksDoneCh' \in Nat /\ blocksDoneCh' <= blocksDoneCh
  BY <1>1 DEF IInv, Typed
<1>3. pc[s] \in Fetching /\ pc[s] \in {"blocks", "retry", "wait"} /\ Mine(s)
  BY Zenon, <1>1, MineOK DEF Fetching
<1>4. CASE /\ blocksSynced >= Len(fetchHashes) /\ pc' = [pc EXCEPT ![s] = "wait"]
           /\ waited' = [waited EXCEPT ![s] = 0]
  <2>1. waited' \in [Sync -> Nat]
    BY <1>4 DEF IInv, Typed
  <2> QED  BY ZenonT(60), <1>1, <1>2, <1>3, <1>4, <2>1, FetchMove
<1>5. CASE UNCHANGED <<pc, waited>>
  <2>1. waited' \in [Sync -> Nat] /\ pc' = [pc EXCEPT ![s] = pc[s]]
    BY <1>5 DEF IInv, Typed
  <2> QED  BY Zenon, <1>1, <1>2, <1>3, <1>5, <2>1, FetchMove
<1> QED  BY Zenon, <1>4, <1>5 DEF BlocksDone, completed, Goto

\* A block that could not be taken is asked for again.
LEMMA BlocksErrStep ==
  ASSUME IInv, OneSync, NEW s \in Sync, BlocksErr(s)
  PROVE  IInv'
<1>1. /\ pc[s] = "blocks"
      /\ UNCHANGED <<status, fetchHashes, infos, blocksSynced, main, got, lastLocatedHash,
                     workers, waited, todo, locateDoneCh, blocksDoneCh>>
  BY Zenon DEF BlocksErr, stateVars, chainVars, locateCh
<1>2. waited' \in [Sync -> Nat] /\ blocksDoneCh' \in Nat /\ blocksDoneCh' <= blocksDoneCh
  BY <1>1 DEF IInv, Typed
<1>3. pc[s] \in Fetching /\ pc[s] \in {"blocks", "retry", "wait"} /\ Mine(s)
  BY Zenon, <1>1, MineOK DEF Fetching
<1>4. CASE pc' = [pc EXCEPT ![s] = "exit"] /\ net' = net
  BY Zenon, <1>1, <1>2, <1>3, <1>4, FetchMove
<1>5. CASE pc' = [pc EXCEPT ![s] = "blocks"] /\ \A m \in net' : m \in net \/ Proper(m)
  BY Zenon, <1>1, <1>2, <1>3, <1>5, FetchMove
<1> QED  BY Zenon, <1>4, <1>5, PickOK, RequestOK DEF BlocksErr, GiveUp, Goto

\* The timer fires while blocks are fetched.
LEMMA BlocksTimeoutStep ==
  ASSUME IInv, OneSync, NEW s \in Sync, BlocksTimeout(s)
  PROVE  IInv'
<1>1. /\ pc[s] = "blocks" /\ pc' = [pc EXCEPT ![s] = "retry"]
      /\ todo' = [todo EXCEPT ![s] = Pending]
      /\ UNCHANGED <<status, fetchHashes, infos, blocksSynced, main, got, lastLocatedHash,
                     workers, waited, net, locateDoneCh, blocksDoneCh>>
  BY Zenon DEF BlocksTimeout, Goto, stateVars, chainVars, chans, locateCh, blocksCh
<1>2. waited' \in [Sync -> Nat] /\ blocksDoneCh' \in Nat /\ blocksDoneCh' <= blocksDoneCh
  BY <1>1 DEF IInv, Typed
<1>3. pc[s] \in Fetching /\ pc[s] \in {"blocks", "retry", "wait"} /\ Mine(s)
  BY Zenon, <1>1, MineOK DEF Fetching
<1> QED  BY Zenon, <1>1, <1>2, <1>3, FetchMove

\* After the timeout the blocks that are missing are asked for one by one.
LEMMA RetryStep ==
  ASSUME IInv, OneSync, NEW s \in Sync, Retry(s)
  PROVE  IInv'
<1>1. /\ pc[s] = "retry"
      /\ UNCHANGED <<status, fetchHashes, infos, blocksSynced, main, got, lastLocatedHash,
                     workers, waited, locateDoneCh, blocksDoneCh>>
  BY Zenon DEF Retry, stateVars, chainVars, chans, locateCh, blocksCh
<1>2. waited' \in [Sync -> Nat] /\ blocksDoneCh' \in Nat /\ blocksDoneCh' <= blocksDoneCh
  BY <1>1 DEF IInv, Typed
<1>3. pc[s] \in Fetching /\ pc[s] \in {"blocks", "retry", "wait"}
  BY Zenon, <1>1 DEF Fetching
<1>4. Mine(s)
  <2>1. todo' = todo \/ \E x : todo' = [todo EXCEPT ![s] = todo[s] \ {x}]
    BY Zenon DEF Retry
  <2> QED  BY Zenon, <2>1, MineOK
<1>5. CASE \E l \in {"blocks", "exit"} : pc' = [pc EXCEPT ![s] = l] /\ net' = net
  BY Zenon, <1>1, <1>2, <1>3, <1>4, <1>5, FetchMove
<1>6. CASE UNCHANGED <<net, pc>>
  <2>1. pc' = [pc EXCEPT ![s] = pc[s]]
    BY <1>6 DEF IInv, Typed
  <2> QED  BY ZenonT(60), <1>1, <1>2, <1>3, <1>4, <1>6, <2>1, FetchMove
<1>7. CASE pc' = [pc EXCEPT ![s] = "retry"] /\ \A m \in net' : m \in net \/ Proper(m)
  BY Zenon, <1>1, <1>2, <1>3, <1>4, <1>7, FetchMove
<1> QED  BY ZenonT(60), <1>5, <1>6, <1>7, PickOK, RequestOK DEF Retry, GiveUp, Goto
\* waitAllBlocksProcessed counts a signal, starts another round or ends the sync.
LEMMA WaitProcessedStep ==
  ASSUME IInv, OneSync, NEW s \in Sync, WaitProcessed(s)
  PROVE  IInv'
<1>1. /\ pc[s] = "wait"
      /\ UNCHANGED <<status, fetchHashes, infos, blocksSynced, main, got, lastLocatedHash,
                     workers, net, todo, locateDoneCh, blocksDoneCh>>
      /\ waited' = waited \/ waited' = [waited EXCEPT ![s] = waited[s] + 1]
  BY Zenon DEF WaitProcessed, stateVars, chainVars, locateCh
<1>2. blocksDoneCh' \in Nat /\ blocksDoneCh' <= blocksDoneCh /\ waited' \in [Sync -> Nat]
  <2>1. blocksDoneCh \in Nat /\ waited \in [Sync -> Nat]
    BY Zenon DEF IInv, Typed
  <2> QED  BY <1>1, <2>1
<1>3. pc[s] \in Fetching /\ pc[s] \in {"blocks", "retry", "wait"} /\ Mine(s)
  BY Zenon, <1>1, MineOK DEF Fetching
<1>4. Typed /\ Phase(s)
  BY Zenon DEF IInv
<1>5. CASE pc' = pc
  <2>1. pc' = [pc EXCEPT ![s] = "wait"]
    BY <1>1, <1>4, <1>5 DEF Typed
  <2>2. blocksSynced >= Len(fetchHashes)
    BY Zenon, <1>1, <1>4 DEF Phase
  <2> QED  BY Zenon, <1>1, <1>2, <1>3, <2>1, <2>2, FetchMove
<1>6. CASE pc' = [pc EXCEPT ![s] = "exit"]
  BY Zenon, <1>1, <1>2, <1>3, <1>6, FetchMove
<1>7. CASE pc' = [pc EXCEPT ![s] = "reset"]
  <2>1. pc'[s] = "reset"
    BY Zenon, <1>4, <1>7 DEF Typed
  <2>2. Phase(s)'
    BY Zenon, <2>1 DEF Phase, Fetching
  <2>3. "reset" \in Places /\ "reset" \notin Before /\ pc[s] \notin Before
    BY Zenon, <1>1 DEF Places, Before
  <2> QED  BY ZenonT(60), <1>1, <1>2, <1>3, <1>4, <1>7, <2>2, <2>3, Move DEF Typed
<1> QED  BY Zenon, <1>5, <1>6, <1>7 DEF WaitProcessed, Goto

\* The goroutine returns.
LEMMA RecoverStep ==
  ASSUME IInv, OneSync, NEW s \in Sync, Recover(s)
  PROVE  IInv'
<1>1. /\ pc[s] = "recover" /\ pc' = [pc EXCEPT ![s] = "off"]
      /\ UNCHANGED <<status, fetchHashes, infos, blocksSynced, main, got, lastLocatedHash,
                     workers, waited, todo, net, locateDoneCh, blocksDoneCh>>
  BY Zenon DEF Recover, Goto, stateVars, chainVars, chans, locateCh, blocksCh
<1>2. Typed /\ Phase(s) /\ Mine(s)
  BY Zenon, <1>1, MineOK DEF IInv
<1>3. Nothing /\ pc'[s] = "off"
  BY Zenon, <1>1, <1>2 DEF Typed, Phase
<1>4. Phase(s)'
  BY Zenon, <1>3 DEF Phase, Fetching
<1>5. "off" \in Places /\ pc[s] \notin Before
  BY Zenon, <1>1 DEF Places, Before
<1> QED  BY Zenon, <1>1, <1>2, <1>3, <1>4, <1>5, Move DEF Typed

\* A step that resets what is fetched.
LEMMA Resets ==
  ASSUME IInv, OneSync, NEW s \in Sync, pc[s] \notin Before,
         NEW l \in {"locateHashes", "recover"}, pc' = [pc EXCEPT ![s] = l], Reset,
         UNCHANGED <<lastLocatedHash, main, got, workers>>, net' \subseteq net,
         status' \in {"free", "locate", "check", "blocks"}, waited' \in [Sync -> Nat],
         blocksDoneCh' \in Nat, locateDoneCh' \in BOOLEAN, Mine(s)
  PROVE  IInv'
<1>1. \A t \in Sync \ {s} : pc[t] \in Before
  BY Zenon, Alone
<1>2. pc'[s] = l /\ (\A t \in Sync \ {s} : pc'[t] = pc[t]) /\ pc' \in [Sync -> Places]
  BY DEF IInv, Typed, Places
<1>3. RequestsOK'
  BY Zenon, <1>2, Requests DEF Mine
<1>4. Nothing' /\ InfosOK' /\ Typed'
  BY Zenon, <1>2, ResetInfos DEF IInv, Typed
<1>5. \A t \in Sync : Phase(t)'
  BY Zenon, <1>1, <1>2, <1>4 DEF Phase, Before, Fetching
<1>6. \A w \in workers' : w.block \in Hash
  BY Zenon DEF IInv
<1> QED  BY Zenon, <1>3, <1>4, <1>5, <1>6 DEF IInv

\* A round begins, or there have been too many.
LEMMA ResetRoundStep ==
  ASSUME IInv, OneSync, NEW s \in Sync, ResetRound(s)
  PROVE  IInv'
<1>1. /\ pc[s] = "reset" /\ net' \subseteq net
      /\ todo' = [todo EXCEPT ![s] = {}] /\ waited' = [waited EXCEPT ![s] = 0]
      /\ UNCHANGED <<status, lastLocatedHash, main, got, workers, locateDoneCh, blocksDoneCh>>
  BY Zenon DEF ResetRound, chainVars, chans, locateCh, blocksCh
<1>2. Typed /\ Mine(s) /\ pc[s] \notin Before
  BY Zenon, <1>1, MineOK DEF IInv, Before
<1>3. waited' \in [Sync -> Nat]
  BY <1>1, <1>2 DEF Typed
<1>4. /\ status' \in {"free", "locate", "check", "blocks"}
      /\ locateDoneCh' \in BOOLEAN /\ blocksDoneCh' \in Nat
  BY Zenon, <1>1, <1>2 DEF Typed
<1>5. CASE pc' = [pc EXCEPT ![s] = "locateHashes"] /\ Reset
  BY Zenon, <1>1, <1>2, <1>3, <1>4, <1>5, Resets
<1>6. CASE pc' = [pc EXCEPT ![s] = "exit"] /\ UNCHANGED stateVars
  <2>1. pc'[s] = "exit" /\ UNCHANGED <<fetchHashes, infos, blocksSynced>>
    BY Zenon, <1>2, <1>6 DEF Typed, stateVars
  <2>2. Phase(s)'
    BY Zenon, <2>1 DEF Phase, Fetching
  <2>3. "exit" \in Places /\ "exit" \notin Before
    BY DEF Places, Before
  <2> QED  BY Zenon, <1>1, <1>2, <1>3, <1>4, <1>6, <2>1, <2>2, <2>3, Move
<1> QED  BY Zenon, <1>5, <1>6 DEF ResetRound, Goto

\* The deferred function.
LEMMA ExitStep ==
  ASSUME IInv, OneSync, NEW s \in Sync, Exit(s)
  PROVE  IInv'
<1>1. /\ pc[s] = "exit" /\ pc' = [pc EXCEPT ![s] = "recover"] /\ Reset /\ status' = "free"
      /\ todo' = [todo EXCEPT ![s] = {}] /\ waited' = [waited EXCEPT ![s] = 0]
      /\ locateDoneCh' = FALSE /\ blocksDoneCh' = 0
      /\ UNCHANGED <<lastLocatedHash, main, got, workers, net>>
  BY Zenon DEF Exit, Goto, chainVars, DrainLocate, DrainBlocks
<1>2. Mine(s) /\ pc[s] \notin Before
  BY Zenon, <1>1, MineOK DEF Before
<1>3. waited' \in [Sync -> Nat] /\ blocksDoneCh' \in Nat
  BY <1>1 DEF IInv, Typed
<1> QED  BY Zenon, <1>1, <1>2, <1>3, Resets
\* Another block is expected from p.
LEMMA AddInfo ==
  ASSUME IInv, status = "blocks", NEW p \in Peer, NEW i \in 1..Len(fetchHashes), Asked(i - 1),
         infos' = [infos EXCEPT ![p] = infos[p] \cup {[idx |-> i, block |-> fetchHashes[i]]}],
         UNCHANGED <<status, fetchHashes, blocksSynced, got, workers>>
  PROVE  infos' \in [Peer -> SUBSET Info] /\ InfosOK' /\ Asked(i)'
<1> DEFINE new == [idx |-> i, block |-> fetchHashes[i]]
<1>1. Typed /\ InfosOK
  BY Zenon DEF IInv
<1>2. fetchHashes \in Seq(Hash) /\ infos \in [Peer -> SUBSET Info] /\ blocksSynced \in Nat
  BY Zenon, <1>1 DEF Typed
<1>3. new \in Info /\ new.idx = i /\ new.block = fetchHashes[i] /\ i \in Nat
      /\ i \in DOMAIN fetchHashes
  BY <1>2 DEF Info
<1>4. new \notin Pending
  <2>1. ~(i <= i - 1)
    BY <1>3
  <2> HIDE DEF new
  <2> QED  BY Zenon, <1>3, <2>1 DEF Asked
<1> HIDE DEF new
<1>5. infos' = [infos EXCEPT ![p] = infos[p] \cup {new}]
  BY DEF new
<1>6. infos'[p] = infos[p] \cup {new} /\ (\A q \in Peer \ {p} : infos'[q] = infos[q])
      /\ infos' \in [Peer -> SUBSET Info]
  BY <1>2, <1>3, <1>5
<1>7. Pending' = Pending \cup {new}
  <2>1. \A x \in Pending' : x \in Pending \cup {new}
    BY ZenonT(60), <1>6 DEF Pending
  <2>2. \A x \in Pending : x \in Pending'
    BY ZenonT(60), <1>6 DEF Pending
  <2>3. new \in Pending'
    BY Zenon, <1>6 DEF Pending
  <2> QED  BY Zenon, <2>1, <2>2, <2>3
<1>8. IsFiniteSet(Pending') /\ Cardinality(Pending') = Cardinality(Pending) + 1
      /\ Cardinality(Pending) \in Nat
  BY Zenon, <1>1, <1>4, <1>7, FS_AddElement, FS_CardinalityType DEF InfosOK
<1>9. InfosOK'
  <2>1. \A x \in Pending' : x.idx \in DOMAIN fetchHashes' /\ x.block = fetchHashes'[x.idx]
    BY Zenon, <1>1, <1>3, <1>7 DEF InfosOK
  <2>2. \A q \in Peer : new \notin infos[q]
    BY Zenon, <1>4 DEF Pending
  <2>3. \A q, r \in Peer : infos'[q] \cap infos'[r] # {} => q = r
    <3> SUFFICES ASSUME NEW q \in Peer, NEW r \in Peer, NEW x \in infos'[q], x \in infos'[r]
                 PROVE  q = r
      BY Zenon
    <3>1. CASE x = new
      BY Zenon, <1>6, <2>2, <3>1
    <3>2. CASE x # new
      BY Zenon, <1>1, <1>6, <3>2 DEF InfosOK
    <3> QED  BY <3>1, <3>2
  <2> QED  BY Zenon, <1>8, <2>1, <2>3 DEF InfosOK
<1>10. Asked(i)'
  <2>1. blocksSynced + Cardinality(Pending) = i - 1
    BY Zenon DEF Asked
  <2>2. blocksSynced + Cardinality(Pending') = i
    BY <1>2, <1>3, <1>8, <2>1
  <2>3. \A x \in Pending' : x.idx <= i
    <3>1. \A x \in Pending : x.idx \in Nat /\ x.idx <= i - 1
      <4>1. \A x \in Info : x.idx \in Nat
        BY DEF Info
      <4> QED  BY Zenon, <1>2, <4>1 DEF Asked, Pending
    <3>2. \A n \in Nat : n <= i - 1 => n <= i
      BY <1>3
    <3>3. i <= i
      BY <1>3
    <3> QED  BY Zenon, <1>3, <1>7, <3>1, <3>2, <3>3
  <2>4. \A j \in 1..i :
          [idx |-> j, block |-> fetchHashes[j]] \in Pending' \/ Arrived(fetchHashes[j])
    <3>1. \A j \in 1..i : j \in 1..(i - 1) \/ j = i
      BY <1>3
    <3> QED  BY Zenon, <1>7, <3>1 DEF Asked, new
  <2> QED  BY Zenon, <2>2, <2>3, <2>4 DEF Asked, Arrived
<1> QED  BY Zenon, <1>6, <1>9, <1>10

\* What the answer is checked with is stored.
LEMMA StoreInfoStep ==
  ASSUME IInv, OneSync, NEW s \in Sync, StoreInfo(s)
  PROVE  IInv'
<1>0. PICK i : i = waited[s]
  OBVIOUS
<1>1. /\ pc[s] = "info" /\ waited' = [waited EXCEPT ![s] = i + 1]
      /\ todo' = [todo EXCEPT ![s] = {}]
      /\ pc' = [pc EXCEPT ![s] = IF i = Len(fetchHashes) THEN "blocks" ELSE "fetch"]
      /\ UNCHANGED <<status, fetchHashes, blocksSynced, main, got, lastLocatedHash,
                     workers, net, locateDoneCh, blocksDoneCh>>
  BY Zenon, <1>0 DEF StoreInfo, Goto, chainVars, chans, locateCh, blocksCh
<1>2. Typed /\ Phase(s)
  BY Zenon DEF IInv
<1>3. /\ status = "blocks" /\ blocksDoneCh <= blocksSynced
      /\ i \in 1..Len(fetchHashes) /\ Asked(i - 1) /\ Len(fetchHashes) \in Nat
  <2>1. status = "blocks" /\ blocksDoneCh <= blocksSynced
    BY Zenon, <1>1, <1>2 DEF Phase, Fetching
  <2> QED  BY <1>0, <1>1, <1>2, <2>1 DEF Phase, Typed
<1>4. PICK p \in Peer :
        infos' = [infos EXCEPT ![p] = infos[p] \cup {[idx |-> i, block |-> fetchHashes[i]]}]
  BY Zenon, <1>0, <1>1 DEF StoreInfo, IInv, RequestsOK
<1>5. infos' \in [Peer -> SUBSET Info] /\ InfosOK' /\ Asked(i)'
  BY ZenonT(60), <1>1, <1>3, <1>4, AddInfo
<1>6. \A t \in Sync \ {s} : pc[t] \in Before
  BY Zenon, <1>1, Alone DEF Before
<1>7. /\ pc'[s] = IF i = Len(fetchHashes) THEN "blocks" ELSE "fetch"
      /\ \A t \in Sync \ {s} : pc'[t] = pc[t]
  BY Zenon, <1>1, <1>2 DEF Typed
<1>8. waited' \in [Sync -> Nat] /\ waited'[s] = i + 1 /\ waited'[s] - 1 = i
  BY <1>0, <1>1, <1>2 DEF Typed
<1>9. Typed'
  <2>1. pc' \in [Sync -> Places]
    BY ZenonT(60), <1>1, <1>2 DEF Typed, Places, Fetching
  <2> QED  BY ZenonT(60), <1>1, <1>2, <1>5, <1>8, <2>1 DEF Typed
<1>10. RequestsOK'
  BY ZenonT(60), <1>1, <1>7, MineOK, Requests DEF Mine
<1>11. Phase(s)'
  <2>1. CASE i = Len(fetchHashes)
    <3>1. Asked(Len(fetchHashes))'
      BY Zenon, <1>1, <1>5, <2>1 DEF Asked
    <3>2. pc'[s] = "blocks" /\ status' = "blocks" /\ blocksDoneCh' <= blocksSynced'
      BY Zenon, <1>1, <1>3, <1>7, <2>1
    <3> QED  BY Zenon, <3>1, <3>2 DEF Phase
  <2>2. CASE i # Len(fetchHashes)
    <3>1. waited'[s] \in 1..Len(fetchHashes')
      BY <1>1, <1>3, <1>8, <2>2
    <3>2. Asked(waited[s] - 1)'
      BY Zenon, <1>5, <1>8 DEF Asked
    <3>3. pc'[s] = "fetch" /\ status' = "blocks" /\ blocksDoneCh' <= blocksSynced'
      BY Zenon, <1>1, <1>3, <1>7, <2>2
    <3> QED  BY Zenon, <3>1, <3>2, <3>3 DEF Phase
  <2> QED  BY <2>1, <2>2
<1>12. \A t \in Sync \ {s} : Phase(t)'
  BY Zenon, <1>6, <1>7 DEF Phase, Before, Fetching
<1>13. pc'[s] \notin Before
  BY Zenon, <1>7 DEF Before
<1>14. \A w \in workers' : w.block \in Hash
  BY Zenon, <1>1 DEF IInv
<1> QED  BY ZenonT(60), <1>5, <1>9, <1>10, <1>11, <1>12, <1>13, <1>14 DEF IInv
-----------------------------------------------------------------------------
(* Steps of handleSyncMessage, of light syncs and of the goroutines that   *)
(* process blocks.                                                         *)

\* Where no goroutine moves, its requests stay.
LEMMA SameRequests ==
  ASSUME IInv, UNCHANGED locals, \A m \in net' : m \in net \/ Proper(m)
  PROVE  RequestsOK'
<1>1. UNCHANGED <<pc, todo>> /\ RequestsOK
  BY Zenon DEF IInv, locals
<1> QED  BY Zenon, <1>1 DEF RequestsOK, Proper

\* A step that leaves what is fetched alone: blocks may have been processed.
LEMMA Quiet ==
  ASSUME IInv, UNCHANGED <<status, fetchHashes, infos, blocksSynced, locateDoneCh,
                           blocksDoneCh, locals>>,
         lastLocatedHash' \in {lastLocatedHash} \cup Hash,
         got \subseteq got', got' \subseteq Hash, main' \in Hash, workers' \subseteq workers,
         \A w \in workers : w \in workers' \/ w.block \in got' \cup Bad,
         \A m \in net' : m \in net \/ Proper(m)
  PROVE  IInv'
<1>1. UNCHANGED <<pc, waited>>
  BY Zenon DEF locals
<1>2. RequestsOK'
  BY Zenon, SameRequests
<1>3. Typed'
  BY Zenon, <1>1 DEF IInv, Typed
<1>4. InfosOK' /\ Pending' = Pending
  BY Zenon, SameInfos DEF IInv, InfosOK
<1>5. \A n : Asked(n) => Asked(n)'
  BY Zenon, SameAsked
<1>6. \A t \in Sync : Phase(t)'
  <2> SUFFICES ASSUME NEW t \in Sync PROVE Phase(t)'
    OBVIOUS
  <2>1. Phase(t)
    BY Zenon DEF IInv
  <2>2. Nothing => Nothing'
    BY Zenon, <1>4 DEF Nothing
  <2>3. Asked(waited[t] - 1) => Asked(waited[t] - 1)'
    <3>1. PICK n : n = waited[t] - 1
      OBVIOUS
    <3>2. Asked(n) => Asked(n)'
      BY Zenon, <1>5
    <3> QED  BY Zenon, <1>1, <3>1, <3>2 DEF Asked
  <2>4. Asked(Len(fetchHashes)) => Asked(Len(fetchHashes))'
    <3>1. PICK n : n = Len(fetchHashes)
      BY Zenon
    <3>2. Asked(n) => Asked(n)'
      BY Zenon, <1>5
    <3> QED  BY Zenon, <3>1, <3>2 DEF Asked
  <2> QED  BY Zenon, <1>1, <2>1, <2>2, <2>3, <2>4 DEF Phase
<1>7. (\A s \in Sync : pc'[s] \in Before) => Nothing'
  BY Zenon, <1>1, <1>4 DEF IInv, Nothing
<1>8. \A w \in workers' : w.block \in Hash
  BY Zenon DEF IInv
<1> QED  BY ZenonT(60), <1>2, <1>3, <1>4, <1>6, <1>7, <1>8 DEF IInv

\* onCheckResponse, and an answer with a wrong index.
LEMMA CheckStep ==
  ASSUME IInv, NEW m \in net, CheckResponse(m) \/ WrongIdxResponse(m)
  PROVE  IInv'
<1>1. UNCHANGED <<status, fetchHashes, infos, blocksSynced, lastLocatedHash, locateDoneCh,
                  blocksDoneCh, locals, main, got, workers>>
  BY Zenon DEF CheckResponse, WrongIdxResponse, stateVars, locateCh, blocksCh,
               chans, chainVars
<1>2. \A x \in net' : x \in net
  BY Zenon DEF CheckResponse, WrongIdxResponse, Answered
<1>3. got' \subseteq Hash /\ main' \in Hash
  BY Zenon, <1>1 DEF IInv, Typed
<1> QED  BY Zenon, <1>1, <1>2, <1>3, Quiet

\* A block is processed or refused.
LEMMA WorkStep ==
  ASSUME IInv, NEW w \in workers, Work(w)
  PROVE  IInv'
<1>1. /\ UNCHANGED <<status, fetchHashes, infos, blocksSynced, lastLocatedHash, locateDoneCh,
                     blocksDoneCh, locals, net>>
      /\ workers' = workers \ {w}
  BY Zenon DEF Work, stateVars, locateCh
<1>2. w.block \in Hash /\ Typed
  BY Zenon DEF IInv
<1>3. CASE w.block \in Bad /\ UNCHANGED <<main, got>>
  BY Zenon, <1>1, <1>2, <1>3, Quiet DEF Typed
<1>4. CASE Process({w.block})
  <2>1. main' \in Hash /\ got' \subseteq Hash /\ got' = got \cup {w.block}
    BY Zenon, <1>2, <1>4, ProcessOK DEF Typed
  <2> QED  BY Zenon, <1>1, <2>1, Quiet
<1> QED  BY Zenon, <1>3, <1>4 DEF Work, chainVars

\* A light sync is asked for.
LEMMA ActiveLightSyncStep ==
  ASSUME IInv, NEW p \in LightPeer, ActiveLightSync(p)
  PROVE  IInv'
<1> DEFINE req == [kind |-> "light", peer |-> p, locator |-> Locator]
<1>1. /\ UNCHANGED <<status, fetchHashes, infos, blocksSynced, lastLocatedHash, locateDoneCh,
                     blocksDoneCh, locals, main, got, workers>>
      /\ net' = net \cup {req}
  BY Zenon DEF ActiveLightSync, stateVars, locateCh, blocksCh, chans, chainVars
<1>2. Typed /\ p \in Peer
  BY Zenon, SyncAssumption DEF IInv
<1>3. Locator \subseteq Hash
  BY Zenon, <1>2, LocatorOK DEF Typed
<1>4. Proper(req)
  BY ZenonT(60), <1>2, <1>3 DEF Proper
<1> HIDE DEF req
<1> QED  BY Zenon, <1>1, <1>2, <1>4, Quiet DEF Typed

\* onLightSyncResponse processes the blocks of the answer.
LEMMA LightSyncStep ==
  ASSUME IInv, NEW m \in net, LightSyncResponse(m)
  PROVE  IInv'
<1> DEFINE hs == Headers(m.peer, m.locator)
           good == {i \in DOMAIN hs : \A j \in 1..i : hs[j] \notin Bad}
<1>1. /\ UNCHANGED <<status, fetchHashes, infos, blocksSynced, lastLocatedHash, locateDoneCh,
                     blocksDoneCh, locals, workers>>
      /\ net' \subseteq net /\ m.kind = "light"
  BY Zenon DEF LightSyncResponse, Answered, stateVars, locateCh, blocksCh, chans
<1>2. Typed /\ m.peer \in Peer /\ m.locator \subseteq Hash
  BY Zenon, <1>1 DEF IInv, RequestsOK
<1>3. CASE UNCHANGED <<main, got>>
  BY ZenonT(60), <1>1, <1>2, <1>3, Quiet DEF Typed
<1>4. CASE hs # None /\ Process({hs[i] : i \in good})
  <2>1. hs \in Seq(Hash)
    BY Zenon, <1>2, <1>4, HeadersOK
  <2> HIDE DEF hs
  <2>2. {hs[i] : i \in good} \subseteq Hash
    BY <2>1
  <2>3. main' \in Hash /\ got' \subseteq Hash /\ got' = got \cup {hs[i] : i \in good}
    BY ZenonT(60), <1>2, <1>4, <2>2, ProcessOK DEF Typed
  <2> QED  BY ZenonT(60), <1>1, <2>3, Quiet
<1> QED  BY Zenon, <1>3, <1>4 DEF LightSyncResponse, chainVars
\* onLocateResponse: the hashes of the answer are those to fetch next.
LEMMA LocateResponseStep ==
  ASSUME IInv, NEW m \in net, LocateResponse(m)
  PROVE  IInv'
<1> DEFINE hs == Headers(m.peer, m.locator)
           rest == rmOverlap(hs)
<1>1. /\ UNCHANGED <<status, infos, blocksSynced, blocksDoneCh, locals, workers, main, got>>
      /\ net' \subseteq net /\ m.kind = "locate"
  BY Zenon DEF LocateResponse, Answered, blocksCh, chainVars
<1>2. Typed /\ m.peer \in Peer /\ m.locator \subseteq Hash
  BY Zenon, <1>1 DEF IInv, RequestsOK
<1>3. hs \in Seq(Hash) \cup {None}
  BY Zenon, <1>2, HeadersOK
<1>4. CASE UNCHANGED <<fetchHashes, lastLocatedHash, locateDoneCh>>
  BY Zenon, <1>1, <1>2, <1>4, Quiet DEF Typed
<1>5. CASE hs \notin {None, <<>>} /\ lastLocatedHash' = hs[Len(hs)]
           /\ UNCHANGED <<fetchHashes, locateDoneCh>>
  <2> HIDE DEF hs
  <2>1. hs[Len(hs)] \in Hash
    BY <1>3, <1>5
  <2> QED  BY ZenonT(60), <1>1, <1>2, <1>5, <2>1, Quiet DEF Typed
<1>6. CASE /\ status = "locate" /\ hs # None /\ rest # <<>>
           /\ fetchHashes' = rest /\ locateDoneCh' = TRUE /\ UNCHANGED lastLocatedHash
  <2>1. rest \in Seq(Hash)
    BY Zenon, <1>3, <1>6, RestOK
  <2> HIDE DEF rest
  <2>2. UNCHANGED <<pc, waited>>
    BY Zenon, <1>1 DEF locals
  <2>3. Typed'
    BY ZenonT(60), <1>1, <1>2, <1>6, <2>1, <2>2 DEF Typed
  <2>4. RequestsOK'
    BY Zenon, <1>1, SameRequests
  <2>5. Pending = {} /\ Pending' = {}
    BY Zenon, <1>1, <1>6 DEF IInv, InfosOK, Pending
  <2>6. InfosOK'
    BY Zenon, <1>1, <2>5, FS_EmptySet DEF IInv, InfosOK
  <2>7. Nothing => Nothing'
    BY Zenon, <1>1, <2>5 DEF Nothing
  <2>8. \A t \in Sync : Phase(t)'
    <3> SUFFICES ASSUME NEW t \in Sync PROVE Phase(t)'
      OBVIOUS
    <3>1. Phase(t) /\ status = "locate"
      BY Zenon, <1>6 DEF IInv
    <3>2. pc[t] \notin Fetching \cup {"pickCheck", "check"}
      BY Zenon, <3>1 DEF Phase
    <3>3. pc'[t] \in {"locateHashes", "locate", "recover"} => Nothing'
      BY Zenon, <2>2, <2>7, <3>1 DEF Phase
    <3>4. pc'[t] = pc[t] /\ fetchHashes' # <<>>
      BY Zenon, <1>6, <2>2
    <3> QED  BY Zenon, <3>2, <3>3, <3>4 DEF Phase, Fetching
  <2>9. (\A s \in Sync : pc'[s] \in Before) => Nothing'
    BY ZenonT(60), <2>2, <2>7 DEF IInv
  <2>10. \A w \in workers' : w.block \in Hash
    BY Zenon, <1>1 DEF IInv
  <2> QED  BY ZenonT(60), <2>3, <2>4, <2>6, <2>8, <2>9, <2>10 DEF IInv
<1> QED  BY Zenon, <1>4, <1>5, <1>6 DEF LocateResponse, locateCh

\* What is expected once x has been cleared.
LEMMA Cleared ==
  ASSUME IInv, NEW p \in Peer, NEW x \in infos[p],
         infos' = [infos EXCEPT ![p] = infos[p] \ {x}], UNCHANGED <<status, fetchHashes>>,
         status = "blocks"
  PROVE  /\ infos' \in [Peer -> SUBSET Info] /\ InfosOK'
         /\ x \in Pending /\ Pending' = Pending \ {x}
         /\ Cardinality(Pending) \in Nat /\ Cardinality(Pending') \in Nat
         /\ Cardinality(Pending) = Cardinality(Pending') + 1
         /\ x.idx \in DOMAIN fetchHashes /\ x.block = fetchHashes[x.idx] /\ x.block \in Hash
         /\ x = [idx |-> x.idx, block |-> x.block]
<1>1. Typed /\ InfosOK
  BY Zenon DEF IInv
<1>2. fetchHashes \in Seq(Hash) /\ infos \in [Peer -> SUBSET Info]
  BY Zenon, <1>1 DEF Typed
<1>3. infos'[p] = infos[p] \ {x} /\ (\A q \in Peer \ {p} : infos'[q] = infos[q])
      /\ infos' \in [Peer -> SUBSET Info]
  BY <1>2
<1>4. x \in Pending
  BY Zenon DEF Pending
<1>5. \A q \in Peer : x \in infos[q] => q = p
  BY Zenon, <1>1 DEF InfosOK
<1>6. Pending' = Pending \ {x}
  <2>1. \A y \in Pending' : y \in Pending /\ y # x
    BY Zenon, <1>3, <1>5 DEF Pending
  <2>2. \A y \in Pending : y # x => y \in Pending'
    BY ZenonT(60), <1>3 DEF Pending
  <2> QED  BY Zenon, <2>1, <2>2
<1>7. /\ IsFiniteSet(Pending) /\ IsFiniteSet(Pending')
      /\ Cardinality(Pending) \in Nat /\ Cardinality(Pending') \in Nat
      /\ Cardinality(Pending') = Cardinality(Pending) - 1
  BY Zenon, <1>1, <1>4, <1>6, FS_RemoveElement, FS_CardinalityType DEF InfosOK
<1>8. Cardinality(Pending) = Cardinality(Pending') + 1
  BY <1>7
<1>9. InfosOK'
  <2>1. \A y \in Pending' : y.idx \in DOMAIN fetchHashes' /\ y.block = fetchHashes'[y.idx]
    BY Zenon, <1>1, <1>6 DEF InfosOK
  <2>2. \A q \in Peer : infos'[q] \subseteq infos[q]
    BY Zenon, <1>3
  <2>3. \A q, r \in Peer : infos'[q] \cap infos'[r] # {} => q = r
    BY Zenon, <1>1, <2>2 DEF InfosOK
  <2> QED  BY Zenon, <1>7, <2>1, <2>3 DEF InfosOK
<1>10. x.idx \in DOMAIN fetchHashes /\ x.block = fetchHashes[x.idx]
  BY Zenon, <1>1, <1>4 DEF InfosOK
<1>11. x \in Info
  BY Zenon, <1>2
<1>12. x.block \in Hash /\ x = [idx |-> x.idx, block |-> x.block]
  BY <1>11 DEF Info
<1> QED  BY ZenonT(60), <1>3, <1>4, <1>6, <1>7, <1>8, <1>9, <1>10, <1>12
\* The number of hashes asked for so far.
LEMMA AskedSome ==
  ASSUME IInv, NEW t \in Sync, pc[t] \in Fetching
  PROVE  \E n \in 0..Len(fetchHashes) :
           /\ Asked(n)
           /\ pc[t] \in {"fetch", "info"} => n = waited[t] - 1 /\ waited[t] \in 1..Len(fetchHashes)
           /\ pc[t] \in {"blocks", "retry", "wait"} => n = Len(fetchHashes)
<1>1. Phase(t) /\ Typed
  BY Zenon DEF IInv
<1>2. Len(fetchHashes) \in Nat
  BY <1>1 DEF Typed
<1>3. CASE pc[t] \in {"fetch", "info"}
  <2>1. waited[t] \in 1..Len(fetchHashes) /\ Asked(waited[t] - 1)
    BY Zenon, <1>1, <1>3 DEF Phase
  <2>2. waited[t] - 1 \in 0..Len(fetchHashes)
    BY <1>2, <2>1
  <2> QED  BY Zenon, <1>3, <2>1, <2>2
<1>4. CASE pc[t] \in {"blocks", "retry", "wait"}
  <2>1. Asked(Len(fetchHashes))
    BY Zenon, <1>1, <1>4 DEF Phase
  <2>2. Len(fetchHashes) \in 0..Len(fetchHashes)
    BY <1>2
  <2> QED  BY Zenon, <1>4, <2>1, <2>2
<1> QED  BY Zenon, <1>3, <1>4 DEF Fetching

\* A block that was expected arrives, is counted and is handed to a goroutine.
LEMMA Counted ==
  ASSUME IInv, status = "blocks", NEW p \in Peer, NEW x \in infos[p],
         infos' = [infos EXCEPT ![p] = infos[p] \ {x}], blocksSynced' = blocksSynced + 1,
         blocksDoneCh' \in {blocksDoneCh, blocksDoneCh + 1},
         workers' = workers \cup {[peer |-> p, block |-> x.block]},
         UNCHANGED <<status, fetchHashes, main, got, lastLocatedHash, locateDoneCh, locals>>,
         \A m \in net' : m \in net \/ Proper(m)
  PROVE  IInv'
<1> DEFINE w == [peer |-> p, block |-> x.block]
<1>1. /\ infos' \in [Peer -> SUBSET Info] /\ InfosOK'
      /\ x \in Pending /\ Pending' = Pending \ {x}
      /\ Cardinality(Pending) \in Nat /\ Cardinality(Pending') \in Nat
      /\ Cardinality(Pending) = Cardinality(Pending') + 1
      /\ x.idx \in DOMAIN fetchHashes /\ x.block = fetchHashes[x.idx] /\ x.block \in Hash
      /\ x = [idx |-> x.idx, block |-> x.block]
  BY Zenon, Cleared
<1>2. UNCHANGED <<pc, waited>> /\ Typed
  BY Zenon DEF locals, IInv
<1>3. blocksSynced' \in Nat /\ blocksDoneCh' \in Nat
      /\ (blocksDoneCh <= blocksSynced => blocksDoneCh' <= blocksSynced')
  BY <1>2 DEF Typed
<1>4. Typed'
  BY Zenon, <1>1, <1>2, <1>3 DEF Typed
<1>5. RequestsOK'
  BY Zenon, SameRequests
<1>6. w.block = x.block /\ w \in workers'
  OBVIOUS
<1> HIDE DEF w
<1>7. \A y \in workers' : y.block \in Hash
  BY Zenon, <1>1, <1>6 DEF IInv, w
<1>8. \A n \in 0..Len(fetchHashes) : Asked(n) => Asked(n)'
  <2> SUFFICES ASSUME NEW n \in 0..Len(fetchHashes), Asked(n) PROVE Asked(n)'
    BY Zenon
  <2>1. blocksSynced' + Cardinality(Pending') = n
    <3>1. blocksSynced + Cardinality(Pending) = n
      BY Zenon DEF Asked
    <3>2. blocksSynced \in Nat /\ Cardinality(Pending') \in Nat
          /\ Cardinality(Pending) = Cardinality(Pending') + 1
      BY Zenon, <1>1, <1>2 DEF Typed
    <3> QED  BY <3>1, <3>2
  <2>2. \A y \in Pending' : y.idx <= n
    BY Zenon, <1>1 DEF Asked
  <2>3. \A b : Arrived(b) => Arrived(b)'
    BY Zenon DEF Arrived
  <2>4. Arrived(x.block)'
    BY Zenon, <1>6 DEF Arrived
  <2>5. ASSUME NEW i \in 1..n
        PROVE  \/ [idx |-> i, block |-> fetchHashes[i]] \in Pending'
               \/ Arrived(fetchHashes[i])'
    <3> DEFINE y == [idx |-> i, block |-> fetchHashes[i]]
    <3>1. y.idx = i
      OBVIOUS
    <3>2. y \in Pending \/ Arrived(fetchHashes[i])
      BY Zenon DEF Asked
    <3> HIDE DEF y
    <3>3. CASE y = x
      BY Zenon, <1>1, <2>4, <3>1, <3>3 DEF Arrived
    <3>4. CASE y # x /\ y \in Pending
      BY Zenon, <1>1, <3>4 DEF y
    <3>5. CASE Arrived(fetchHashes[i])
      BY Zenon, <3>5 DEF Arrived
    <3> QED  BY ZenonT(60), <3>2, <3>3, <3>4, <3>5
  <2> QED  BY Zenon, <2>1, <2>2, <2>5 DEF Asked, Arrived
<1>9. ~Nothing
  BY Zenon, <1>1 DEF Nothing
<1>10. \A t \in Sync : Phase(t)'
  <2> SUFFICES ASSUME NEW t \in Sync PROVE Phase(t)'
    BY Zenon
  <2>1. Phase(t) /\ pc'[t] = pc[t] /\ waited'[t] = waited[t] /\ status' = "blocks"
    BY Zenon, <1>2 DEF IInv
  <2>2. pc[t] \notin {"locateHashes", "locate", "pickCheck", "check", "recover"}
    BY Zenon, <1>9, <2>1 DEF Phase
  <2>3. CASE pc[t] \notin Fetching
    BY Zenon, <2>1, <2>2, <2>3 DEF Phase, Fetching
  <2>4. CASE pc[t] \in Fetching
    <3>1. PICK n \in 0..Len(fetchHashes) :
             /\ Asked(n)
             /\ pc[t] \in {"fetch", "info"} =>
                  n = waited[t] - 1 /\ waited[t] \in 1..Len(fetchHashes)
             /\ pc[t] \in {"blocks", "retry", "wait"} => n = Len(fetchHashes)
      BY Zenon, <2>4, AskedSome
    <3>2. Asked(n)'
      BY Zenon, <1>8, <3>1
    <3>3. pc'[t] \in {"fetch", "info"} =>
            waited'[t] \in 1..Len(fetchHashes') /\ Asked(waited[t] - 1)'
      BY Zenon, <2>1, <3>1, <3>2 DEF Asked
    <3>4. pc'[t] \in {"blocks", "retry", "wait"} => Asked(Len(fetchHashes))'
      BY Zenon, <2>1, <3>1, <3>2 DEF Asked
    <3>5. blocksDoneCh' <= blocksSynced'
      BY Zenon, <1>3, <2>1, <2>4 DEF Phase
    <3>6. pc'[t] = "wait" => blocksSynced' >= Len(fetchHashes')
      <4>1. pc[t] = "wait" => blocksSynced >= Len(fetchHashes)
        BY Zenon, <2>1 DEF Phase
      <4>2. blocksSynced \in Nat /\ Len(fetchHashes) \in Nat
        BY <1>2 DEF Typed
      <4>3. blocksSynced >= Len(fetchHashes) => blocksSynced + 1 >= Len(fetchHashes)
        BY <4>2
      <4> QED  BY Zenon, <2>1, <4>1, <4>3
    <3> QED  BY ZenonT(60), <2>1, <2>2, <3>3, <3>4, <3>5, <3>6 DEF Phase
  <2> QED  BY ZenonT(60), <2>3, <2>4
<1>11. (\A t \in Sync : pc'[t] \in Before) => Nothing'
  BY Zenon, <1>2, <1>9 DEF IInv
<1> QED  BY Zenon, <1>1, <1>4, <1>5, <1>7, <1>10, <1>11 DEF IInv
\* The channel blocksDoneCh is never full for a block that is expected in a round in
\* progress: the answer that finds it full is one to a round that has been given up.
LEMMA Uncounted ==
  ASSUME IInv, status = "blocks", NEW p \in Peer, NEW x \in infos[p],
         infos' = [infos EXCEPT ![p] = infos[p] \ {x}], blocksDoneCh >= Len(fetchHashes),
         UNCHANGED <<status, fetchHashes, blocksSynced, blocksDoneCh, workers, main, got,
                     lastLocatedHash, locateDoneCh, locals>>,
         \A m \in net' : m \in net \/ Proper(m)
  PROVE  IInv'
<1>1. /\ infos' \in [Peer -> SUBSET Info] /\ InfosOK' /\ x \in Pending
      /\ Cardinality(Pending) \in Nat /\ Cardinality(Pending') \in Nat
      /\ Cardinality(Pending) = Cardinality(Pending') + 1
  BY Zenon, Cleared
<1>2. UNCHANGED <<pc, waited>> /\ Typed
  BY Zenon DEF locals, IInv
<1>3. Typed'
  BY Zenon, <1>1, <1>2 DEF Typed
<1>4. RequestsOK'
  BY Zenon, SameRequests
<1>5. ~Nothing
  BY Zenon, <1>1 DEF Nothing
<1>6. \A t \in Sync : Phase(t)'
  <2> SUFFICES ASSUME NEW t \in Sync PROVE Phase(t)'
    BY Zenon
  <2>1. Phase(t) /\ pc'[t] = pc[t]
    BY Zenon, <1>2 DEF IInv
  <2>2. pc[t] \notin {"locateHashes", "locate", "pickCheck", "check", "recover"}
    BY ZenonT(60), <1>5, <2>1 DEF Phase
  <2>3. pc[t] \notin Fetching
    <3> SUFFICES ASSUME pc[t] \in Fetching PROVE FALSE
      OBVIOUS
    <3>1. PICK n \in 0..Len(fetchHashes) : Asked(n)
      BY Zenon, AskedSome
    <3>2. blocksSynced + Cardinality(Pending) = n /\ blocksDoneCh <= blocksSynced
      BY Zenon, <2>1, <3>1 DEF Asked, Phase
    <3>3. blocksSynced \in Nat /\ blocksDoneCh \in Nat /\ Len(fetchHashes) \in Nat
      BY <1>2 DEF Typed
    <3> QED  BY SMTT(60), <1>1, <3>1, <3>2, <3>3
  <2> QED  BY Zenon, <2>1, <2>2, <2>3 DEF Phase, Fetching
<1>7. (\A t \in Sync : pc'[t] \in Before) => Nothing'
  BY Zenon, <1>2, <1>5 DEF IInv
<1>8. \A w \in workers' : w.block \in Hash
  BY Zenon DEF IInv
<1> QED  BY ZenonT(60), <1>1, <1>3, <1>4, <1>6, <1>7, <1>8 DEF IInv

\* checkBlocksAndClearInfo clears one info, that of the block.
LEMMA ClearOne ==
  ASSUME IInv, NEW p \in Peer, NEW i, NEW b, ClearInfo(p, i, b) # {}
  PROVE  \E x \in infos[p] : ClearInfo(p, i, b) = {x} /\ x.block = b /\ x.idx = i
<1>1. infos[p] \subseteq Info
  BY Zenon DEF IInv, Typed
<1>2. PICK x \in infos[p] : x.idx = i /\ x.block = b
  BY Zenon DEF ClearInfo
<1>3. \A y, z \in Info : y.idx = z.idx /\ y.block = z.block => y = z
  BY DEF Info
<1>4. ClearInfo(p, i, b) = {x}
  BY Zenon, <1>1, <1>2, <1>3 DEF ClearInfo
<1> QED  BY Zenon, <1>2, <1>4

\* onBlocksResponse.
LEMMA BlocksAnswerStep ==
  ASSUME IInv, status = "blocks", NEW p \in Peer, NEW i, NEW b, BlocksAnswer(p, i, b),
         UNCHANGED <<status, fetchHashes, main, got, lastLocatedHash, locateDoneCh, locals>>,
         \A m \in net' : m \in net \/ Proper(m)
  PROVE  IInv'
<1>1. Typed
  BY Zenon DEF IInv
<1>2. CASE UNCHANGED <<infos, blocksSynced, blocksDoneCh, workers>>
  BY Zenon, <1>1, <1>2, Quiet DEF Typed
<1>3. CASE /\ ClearInfo(p, i, b) # {}
           /\ infos' = [infos EXCEPT ![p] = infos[p] \ ClearInfo(p, i, b)]
           /\ blocksDoneCh >= Len(fetchHashes) /\ UNCHANGED <<blocksSynced, blocksDoneCh, workers>>
  <2>1. PICK x \in infos[p] : ClearInfo(p, i, b) = {x} /\ x.block = b /\ x.idx = i
    BY <1>3, ClearOne
  <2>2. infos' = [infos EXCEPT ![p] = infos[p] \ {x}]
    BY Zenon, <1>3, <2>1
  <2> QED  BY ZenonT(60), <1>3, <2>2, Uncounted
<1>4. CASE /\ ClearInfo(p, i, b) # {}
           /\ infos' = [infos EXCEPT ![p] = infos[p] \ ClearInfo(p, i, b)]
           /\ blocksSynced' = blocksSynced + 1
           /\ blocksDoneCh' = TryPush(blocksDoneCh, MaxBlocksPerSync)
           /\ workers' = workers \cup {[peer |-> p, block |-> b]}
  <2>1. PICK x \in infos[p] : ClearInfo(p, i, b) = {x} /\ x.block = b /\ x.idx = i
    BY <1>4, ClearOne
  <2>2. /\ infos' = [infos EXCEPT ![p] = infos[p] \ {x}]
        /\ workers' = workers \cup {[peer |-> p, block |-> x.block]}
    BY Zenon, <1>4, <2>1
  <2>3. blocksDoneCh' \in {blocksDoneCh, blocksDoneCh + 1}
    BY Zenon, <1>4 DEF TryPush
  <2> QED  BY ZenonT(60), <1>4, <2>2, <2>3, Counted
<1> QED  BY Zenon, <1>2, <1>3, <1>4 DEF BlocksAnswer

\* An answer to a request for a block arrives, in its round or later.
LEMMA BlocksResponseStep ==
  ASSUME IInv, NEW m \in net, BlocksResponse(m)
  PROVE  IInv'
<1> DEFINE wrong == [kind |-> "wrongIdx", peer |-> m.peer]
<1>1. UNCHANGED <<status, fetchHashes, main, got, lastLocatedHash, locateDoneCh, locals>>
  BY Zenon DEF BlocksResponse, locateCh, chainVars
<1>2. Typed /\ m.peer \in Peer
  BY Zenon DEF IInv, RequestsOK
<1>3. Proper(wrong)
  BY <1>2 DEF Proper
<1> HIDE DEF wrong
<1>4. \A y \in net' : y \in net \/ Proper(y)
  <2>1. net' = net \ {m} \/ net' = (net \ {m}) \cup {wrong}
    BY Zenon DEF BlocksResponse, wrong
  <2> QED  BY Zenon, <1>3, <2>1
<1>5. CASE UNCHANGED <<infos, blocksSynced, blocksDoneCh, workers>>
  BY ZenonT(60), <1>1, <1>2, <1>4, <1>5, Quiet DEF Typed
<1>6. CASE status = "blocks" /\ \E b : BlocksAnswer(m.peer, m.idx, b)
  BY Zenon, <1>1, <1>2, <1>4, <1>6, BlocksAnswerStep
<1> QED  BY Zenon, <1>5, <1>6 DEF BlocksResponse

-----------------------------------------------------------------------------
(* The theorems.                                                           *)

\* Nothing is expected at first.
LEMMA InitIInv == Init => IInv
<1> SUFFICES ASSUME Init PROVE IInv
  OBVIOUS
<1>1. Typed
  <2>1. pc \in [Sync -> Places] /\ waited \in [Sync -> Nat]
    BY DEF Init, Places, Before
  <2>2. infos \in [Peer -> SUBSET Info]
    BY DEF Init
  <2>3. <<>> \in Seq(Hash) /\ <<>> \in Seq(Nat) /\ 0 \in Nat
    OBVIOUS
  <2> QED  BY ZenonT(60), <2>1, <2>2, <2>3 DEF Init, Typed, Hash
<1>2. Pending = {}
  BY DEF Init, Pending
<1>3. InfosOK
  BY Zenon, <1>2, FS_EmptySet DEF InfosOK, Init
<1>4. \A s \in Sync : pc[s] = "off"
  BY Zenon DEF Init
<1>5. RequestsOK
  <2>1. todo = [s \in Sync |-> {}] /\ net = {}
    BY Zenon DEF Init
  <2>2. todo = [s \in Sync |-> todo[s]]
    BY <2>1
  <2> QED  BY Zenon, <1>4, <2>1, <2>2 DEF RequestsOK
<1>6. \A s \in Sync : Phase(s)
  BY Zenon, <1>4 DEF Phase, Fetching
<1>7. Nothing /\ \A w \in workers : w.block \in Hash
  BY Zenon, <1>2 DEF Nothing, Init
<1> QED  BY ZenonT(60), <1>1, <1>3, <1>5, <1>6, <1>7 DEF IInv

\* Every step preserves the invariant while no two goroutines sync.
LEMMA NextIInv ==
  ASSUME IInv, OneSync, OneSync', [Next]_vars
  PROVE  IInv'
<1>1. ASSUME NEW s \in Sync, Run(s) PROVE IInv'
  BY ZenonT(60), <1>1, BeginStep, ResetRoundStep, LocateHashesStep, LocateDoneStep, LocateErrStep,
     PickCheckStep, SendCheckStep, CheckOkStep, CheckErrStep, TimeoutStep, FetchStep,
     StoreInfoStep, BlocksDoneStep, BlocksErrStep, BlocksTimeoutStep, RetryStep,
     WaitProcessedStep, ExitStep, RecoverStep DEF Run
<1>2. ASSUME NEW m \in net, Handle(m) PROVE IInv'
  BY ZenonT(60), <1>2, LocateResponseStep, CheckStep, BlocksResponseStep, LightSyncStep DEF Handle
<1>3. CASE CountCheck
  <2>1. UNCHANGED <<status, fetchHashes, infos, blocksSynced, lastLocatedHash, locateDoneCh,
                    blocksDoneCh, locals, main, got, workers, net>>
    BY ZenonT(60), <1>3 DEF CountCheck, locateCh, blocksCh, chans, chainVars
  <2> QED  BY Zenon, <2>1, Quiet DEF IInv, Typed
<1>4. CASE UNCHANGED vars
  <2>1. UNCHANGED <<status, fetchHashes, infos, blocksSynced, lastLocatedHash, locateDoneCh,
                    blocksDoneCh, locals, main, got, workers, net>>
    BY Zenon, <1>4 DEF vars, stateVars, locateCh, blocksCh, chans, chainVars
  <2> QED  BY Zenon, <2>1, Quiet DEF IInv, Typed
<1> QED  BY ZenonT(60), <1>1, <1>2, <1>3, <1>4, StartSyncStep, WorkStep, ActiveLightSyncStep DEF Next
\* Only onBlocksResponse hands a block to a goroutine, one that is expected.
LEMMA NewWorkers ==
  ASSUME IInv, [Next]_vars, NEW w \in workers' \ workers
  PROVE  \E i \in DOMAIN fetchHashes : fetchHashes[i] = w.block
<1>1. ASSUME NEW s \in Sync, StartSync(s) \/ Run(s) PROVE UNCHANGED workers
  <2>1. Begin(s) \/ ResetRound(s) \/ LocateHashes(s) \/ LocateDone(s) \/ LocateErr(s)
          => UNCHANGED workers
    BY Zenon DEF Begin, ResetRound, LocateHashes, LocateDone, LocateErr
  <2>2. PickCheck(s) \/ SendCheck(s) \/ CheckOk(s) \/ CheckErr(s) \/ Timeout(s)
          => UNCHANGED workers
    BY Zenon DEF PickCheck, SendCheck, CheckOk, CheckErr, Timeout
  <2>3. Fetch(s) \/ StoreInfo(s) \/ BlocksDone(s) \/ BlocksErr(s) \/ BlocksTimeout(s)
          => UNCHANGED workers
    BY Zenon DEF Fetch, StoreInfo, BlocksDone, BlocksErr, BlocksTimeout
  <2>4. StartSync(s) \/ Retry(s) \/ WaitProcessed(s) \/ Exit(s) \/ Recover(s)
          => UNCHANGED workers
    BY Zenon DEF StartSync, Retry, WaitProcessed, Exit, Recover
  <2> QED  BY ZenonT(60), <1>1, <2>1, <2>2, <2>3, <2>4 DEF Run
<1>2. ASSUME NEW m \in net, Handle(m), ~BlocksResponse(m) PROVE UNCHANGED workers
  BY Zenon, <1>2 DEF Handle, LocateResponse, CheckResponse, WrongIdxResponse, LightSyncResponse
<1>3. CountCheck \/ (\E v \in workers : Work(v)) \/ UNCHANGED vars => workers' \subseteq workers
  BY Zenon DEF CountCheck, Work, vars
<1>4. ASSUME NEW p \in LightPeer, ActiveLightSync(p) PROVE UNCHANGED workers
  BY Zenon, <1>4 DEF ActiveLightSync
<1>5. PICK m \in net : BlocksResponse(m)
  BY ZenonT(60), <1>1, <1>2, <1>3, <1>4 DEF Next
<1>6. PICK b : BlocksAnswer(m.peer, m.idx, b)
  BY Zenon, <1>5 DEF BlocksResponse
<1>7. /\ ClearInfo(m.peer, m.idx, b) # {}
      /\ workers' = workers \cup {[peer |-> m.peer, block |-> b]}
  BY Zenon, <1>6 DEF BlocksAnswer
<1>8. w.block = b
  BY <1>7
<1>9. m.peer \in Peer /\ InfosOK
  BY Zenon DEF IInv, RequestsOK
<1>10. PICK x \in infos[m.peer] : x.block = b
  BY Zenon, <1>7 DEF ClearInfo
<1>11. x \in Pending
  BY Zenon, <1>9, <1>10 DEF Pending
<1> QED  BY Zenon, <1>8, <1>9, <1>10, <1>11 DEF InfosOK

\* What the invariant says while blocks are fetched and when all have arrived.
LEMMA IInvSafe ==
  ASSUME IInv
  PROVE  SyncedOrPending /\ CompleteSync
<1>1. SyncedOrPending
  BY Zenon DEF IInv, Phase, Asked, SyncedOrPending
<1>2. CompleteSync
  <2> SUFFICES ASSUME NEW s \in Sync, pc[s] = "wait", NEW i \in DOMAIN fetchHashes
               PROVE  Arrived(fetchHashes[i])
    BY Zenon DEF CompleteSync, Arrived
  <2>1. Asked(Len(fetchHashes)) /\ blocksSynced >= Len(fetchHashes) /\ Typed /\ InfosOK
    BY Zenon DEF IInv, Phase
  <2>2. IsFiniteSet(Pending) /\ Cardinality(Pending) \in Nat
    BY Zenon, <2>1, FS_CardinalityType DEF InfosOK
  <2>3. blocksSynced \in Nat /\ Len(fetchHashes) \in Nat /\ i \in 1..Len(fetchHashes)
    BY <2>1 DEF Typed
  <2>4. blocksSynced + Cardinality(Pending) = Len(fetchHashes)
    BY Zenon, <2>1 DEF Asked
  <2>5. Cardinality(Pending) = 0
    BY SMTT(60), <2>1, <2>2, <2>3, <2>4
  <2>6. Pending = {}
    BY Zenon, <2>2, <2>5, FS_EmptySet
  <2> QED  BY Zenon, <2>1, <2>3, <2>6 DEF Asked
<1> QED  BY ZenonT(60), <1>1, <1>2

\* While blocks are fetched, the blocks that have arrived and those still expected add
\* up to those asked for, in every behaviour in which no two goroutines sync
\* (fetchAllBlocks, onBlocksResponse, checkBlocksAndClearInfo).
THEOREM FetchAccountedFor == Spec /\ []OneSync => []SyncedOrPending
<1>1. Init => IInv
  BY InitIInv
<1>2. IInv /\ OneSync /\ OneSync' /\ [Next]_vars => IInv'
  BY NextIInv
<1>3. IInv => SyncedOrPending
  BY ZenonT(60), IInvSafe
<1> QED  BY <1>1, <1>2, <1>3, PTL DEF Spec

\* When startSync takes the blocks to be complete, none of them is missing, in every
\* behaviour in which no two goroutines sync (completed, waitAllBlocksProcessed).
THEOREM NoneMissing == Spec /\ []OneSync => []CompleteSync
<1>1. Init => IInv
  BY InitIInv
<1>2. IInv /\ OneSync /\ OneSync' /\ [Next]_vars => IInv'
  BY NextIInv
<1>3. IInv => CompleteSync
  BY IInvSafe
<1> QED  BY <1>1, <1>2, <1>3, PTL DEF Spec

\* A block is processed only if it is one of the hashes of the round in progress, in
\* every behaviour in which no two goroutines sync (onBlocksResponse).
THEOREM OnlyWhatWasLocated == Spec /\ []OneSync => OnlyLocatedBlocks
<1> DEFINE Located ==
      \A w \in workers' \ workers : \E i \in DOMAIN fetchHashes : fetchHashes[i] = w.block
<1>1. Init => IInv
  BY InitIInv
<1>2. IInv /\ OneSync /\ OneSync' /\ [Next]_vars => IInv'
  BY NextIInv
<1>3. IInv /\ [Next]_vars => Located
  BY Zenon, NewWorkers
<1>4. IInv /\ [Next]_vars => [Located]_vars
  BY Zenon, <1>3
<1> HIDE DEF Located
<1>5. Spec /\ []OneSync => [][Located]_vars
  BY <1>1, <1>2, <1>4, PTL DEF Spec
<1> QED  BY ZenonT(60), <1>5 DEF OnlyLocatedBlocks, Located


=============================================================================

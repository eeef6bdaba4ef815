----------------------------- MODULE BlockSync -----------------------------
(***************************************************************************)
(* blocksync: SyncManager.startSync (manager.go), the goroutine that asks  *)
(* one peer for the hashes it misses, lets other peers check them and      *)
(* fetches the blocks, and handleSyncMessage (sync_server.go), the         *)
(* goroutine that handles the answers. They share the fields of the        *)
(* manager and signal each other over channels. Blocks are processed by    *)
(* goroutines of their own. A timer may fire in any wait.                  *)
(*                                                                         *)
(* A block is the chain that ends in it: a non-empty sequence; the empty   *)
(* sequence is the genesis block. A chunk (syncBlockChunkSize) is a block. *)
(*                                                                         *)
(* A definition followed by one with a similar name that changes one of    *)
(* its details is that operation with a mistake; no action uses it.        *)
(***************************************************************************)
EXTENDS Naturals, Sequences, FiniteSets

CONSTANTS
  Peer,
  PeerChain,        \* the main chain of each peer
  Busy,             \* peers that may be in sync themselves when they are asked
  Bad,              \* blocks that ProcessBlock refuses
  LightPeer,        \* peers a light sync may be asked of
  Sync,             \* goroutines that may run startSync
  MaxBlocksPerSync,
  Threshold,        \* number of blocks a light sync may ask for
  MaxCheckPeers,
  MaxSyncTries,
  MayBeLate,        \* bound: kinds of requests that can be answered in a later round
  MaxStarts,        \* bound on the number of syncs that are started
  None

ASSUME SyncAssumption ==
  /\ PeerChain \in [Peer -> Seq(Nat)]
  /\ Busy \subseteq Peer /\ LightPeer \subseteq Peer
  /\ MaxBlocksPerSync \in Nat \ {0} /\ MaxCheckPeers \in Nat /\ Threshold \in Nat
  /\ MaxSyncTries \in Nat \ {0}

VARIABLES
  status, stale, malicious, disableMint,
  checkNum, root, fetchHashes, infos, blocksSynced, lastLocatedHash,
  locateErrCh, locateDoneCh, checkErrCh, checkOkCh, syncErrCh,
  blocksDoneCh, blocksErrCh, blocksProcessedCh,
  net,              \* requests that have been sent and not been answered yet
  counting,         \* onCheckResponse has signalled and not counted yet
  workers,          \* goroutines that process a block that was fetched
  main, got,        \* the local main chain; every block that was processed
  pc, tries, needMore, todo, waited,  \* startSync: its place and its locals
  starts            \* how many syncs were started

stateVars == <<checkNum, root, fetchHashes, infos, blocksSynced>>
locateCh == <<locateErrCh, locateDoneCh>>
checkCh == <<checkErrCh, checkOkCh>>
blocksCh == <<syncErrCh, blocksDoneCh, blocksErrCh, blocksProcessedCh>>
chans == <<locateCh, checkCh, blocksCh>>
chainVars == <<main, got>>
locals == <<pc, tries, needMore, todo, waited, starts>>
vars == <<status, stale, malicious, disableMint, stateVars, lastLocatedHash, chans,
          net, counting, workers, chainVars, locals>>

Flags == {"noHash", "inSync", "unmarshal", "wrongPeerStatus", "checkNumTooBig", "mismatch"}
PeerStatus == {"available", "locate", "locateDone", "checked", "checkedDone",
               "blocks", "blocksDone", "err"}

-----------------------------------------------------------------------------
(* What a peer answers from its main chain.                                *)

\* The block b is on the chain c.
OnChain(b, c) == Len(b) <= Len(c) /\ b = SubSeq(c, 1, Len(b))

\* The blocks of the chain c from height lo to height hi.
Blocks(c, lo, hi) == [i \in 1..(hi + 1 - lo) |-> SubSeq(c, 1, lo + i - 1)]

\* LocateForkPointAndFetchHeaders: the hashes after the first locator hash that is
\* on the main chain; None is an error, to which the peer sends no answer.
Headers(p, locator) ==
  LET c == PeerChain[p]
      known == {Len(b) : b \in {x \in locator : OnChain(x, c)}}
      h == CHOOSE k \in known : \A j \in known : j <= k
      gap == Len(c) - h
  IN IF known = {} THEN <<>>
     ELSE IF gap + 1 < MaxBlocksPerSync THEN Blocks(c, h + 1, Len(c))
     ELSE IF gap >= MaxBlocksPerSync THEN Blocks(c, h + 1, h + MaxBlocksPerSync)
     ELSE None

\* CalcRootHashForNBlocks: the root of the blocks that the hashes in hs ask for by
\* their first hash and their number; the empty sequence is the zero hash.
RootHash(p, hs) ==
  LET c == PeerChain[p]
      lo == Len(hs[1])
      hi == lo + Len(hs) - 1
  IN IF OnChain(hs[1], c) /\ hi <= Len(c) THEN Blocks(c, lo, hi) ELSE <<>>

\* rmOverlap: without the leading hashes of blocks that are stored here.
Stored(b) == \A i \in 1..Len(b) : SubSeq(b, 1, i) \in got
rmOverlap(hs) ==
  LET news == {i \in DOMAIN hs : ~Stored(hs[i]) \/ Len(hs[i]) > Len(main)}
  IN IF news = {} THEN <<>>
     ELSE SubSeq(hs, CHOOSE i \in news : \A j \in news : i <= j, Len(hs))

\* getLatestBlockLocator: the first locatorSeqPartLen heights are all there.
Locator == {SubSeq(main, 1, i) : i \in 0..Len(main)}

\* ProcessBlock has accepted the blocks bs: the longest chain that is stored is the
\* main chain.
Process(bs) ==
  LET now == got \cup bs
      whole == {x \in now : \A i \in 1..Len(x) : SubSeq(x, 1, i) \in now}
      longest == {x \in whole : \A y \in whole : Len(y) <= Len(x)}
  IN /\ got' = now
     /\ main' = IF \E x \in longest : Len(x) > Len(main)
                  THEN CHOOSE x \in longest : TRUE ELSE main

-----------------------------------------------------------------------------
(* pickOnePeer. Every peer is connected and reports to be synced.          *)

Preferred(st, sp) ==
  {p \in Peer \ malicious : st = "blocks" /\ sp[p] \in {"locateDone", "checkedDone"}}
Fresh(sp) == {p \in Peer \ malicious : sp[p] = "available"}
Again(sp) == {p \in Peer \ malicious : sp[p] # "err"}

pickOnePeer(st, sp) ==
  IF Preferred(st, sp) # {} THEN Preferred(st, sp)
  ELSE IF Fresh(sp) # {} THEN Fresh(sp) ELSE Again(sp)

-----------------------------------------------------------------------------
(* Channels. A send to a full channel is dropped.                          *)

TryPush(n, cap) == IF n < cap THEN n + 1 ELSE n
TryPushErr(ch, flag) == IF ch = None THEN flag ELSE ch
DrainLocate == locateErrCh' = None /\ locateDoneCh' = FALSE
DrainCheck == checkErrCh' = None /\ checkOkCh' = 0
DrainBlocks ==
  syncErrCh' = FALSE /\ blocksDoneCh' = 0 /\ blocksErrCh' = <<>> /\ blocksProcessedCh' = 0

Reset ==
  /\ checkNum' = 0 /\ root' = <<>> /\ fetchHashes' = <<>>
  /\ infos' = [p \in Peer |-> {}] /\ blocksSynced' = 0

Init ==
  /\ status = "free" /\ stale = [p \in Peer |-> "available"] /\ malicious = {}
  /\ disableMint = FALSE
  /\ checkNum = 0 /\ root = <<>> /\ fetchHashes = <<>>
  /\ infos = [p \in Peer |-> {}] /\ blocksSynced = 0 /\ lastLocatedHash = None
  /\ locateErrCh = None /\ locateDoneCh = FALSE
  /\ checkErrCh = None /\ checkOkCh = 0
  /\ syncErrCh = FALSE /\ blocksDoneCh = 0 /\ blocksErrCh = <<>> /\ blocksProcessedCh = 0
  /\ net = {} /\ counting = FALSE /\ workers = {}
  /\ main = <<>> /\ got = {}
  /\ pc = [s \in Sync |-> "off"] /\ tries = [s \in Sync |-> 0]
  /\ needMore = [s \in Sync |-> FALSE] /\ todo = [s \in Sync |-> {}]
  /\ waited = [s \in Sync |-> 0] /\ starts = 0

-----------------------------------------------------------------------------
(* StartSync and startSync.                                                *)

Goto(s, l) == pc' = [pc EXCEPT ![s] = l]
Mark(p, st) == stale' = [stale EXCEPT ![p] = st]
MarkTimeoutNone(st) == UNCHANGED stale
MarkTimeout(st) == stale' = [p \in Peer |-> IF stale[p] = st THEN "err" ELSE stale[p]]
Pending == UNION {infos[p] : p \in Peer}

StartSync(s) ==
  /\ pc[s] = "off" /\ status = "free"
  /\ starts < MaxStarts /\ starts' = starts + 1
  /\ disableMint' = TRUE
  /\ Goto(s, "spawned")
  /\ UNCHANGED <<status, stale, malicious, stateVars, lastLocatedHash, chans, net,
                 counting, workers, chainVars, tries, needMore, todo, waited>>

Begin(s) ==
  /\ pc[s] = "spawned"
  /\ status' = "locate"
  /\ Goto(s, "reset")
  /\ UNCHANGED <<stale, malicious, disableMint, stateVars, lastLocatedHash, chans, net,
                 counting, workers, chainVars, tries, needMore, todo, waited, starts>>

\* The head of the loop: a round is counted unless the last one was complete and
\* there are more blocks. (todo and waited are locals of the rest of the round.)
ResetRound(s) ==
  LET n == tries[s] + (IF needMore[s] THEN 0 ELSE 1) IN
  /\ pc[s] = "reset"
  /\ net' = {m \in net : m.kind \in MayBeLate}
  /\ tries' = [tries EXCEPT ![s] = n]
  /\ todo' = [todo EXCEPT ![s] = {}] /\ waited' = [waited EXCEPT ![s] = 0]
  /\ IF n = MaxSyncTries /\ ~needMore[s]
       THEN Goto(s, "exit") /\ UNCHANGED <<needMore, stateVars>>
       ELSE /\ Goto(s, "locateHashes")
            /\ needMore' = [needMore EXCEPT ![s] = FALSE]
            /\ Reset
  /\ UNCHANGED <<status, stale, malicious, disableMint, lastLocatedHash, chans,
                 counting, workers, chainVars, starts>>

\* locateHashes; without a peer, or when the request cannot be sent, the round
\* starts again.
LocateHashes(s) ==
  LET locator == IF lastLocatedHash # None THEN {lastLocatedHash} ELSE Locator IN
  /\ pc[s] = "locateHashes"
  /\ DrainLocate /\ DrainCheck /\ DrainBlocks
  /\ status' = "locate"
  /\ \/ /\ pickOnePeer("locate", stale) = {}
        /\ Goto(s, "reset") /\ UNCHANGED <<stale, net>>
     \/ \E p \in pickOnePeer("locate", stale) :
          /\ Mark(p, "locate")
          /\ \/ /\ net' = net \cup {[kind |-> "locate", peer |-> p, locator |-> locator]}
                /\ Goto(s, "locate")
             \/ Goto(s, "reset") /\ UNCHANGED net
  /\ UNCHANGED <<malicious, disableMint, stateVars, lastLocatedHash, counting, workers,
                 chainVars, tries, needMore, todo, waited, starts>>

LocateDone(s) ==
  /\ pc[s] = "locate" /\ locateDoneCh
  /\ locateDoneCh' = FALSE /\ lastLocatedHash' = None
  /\ status' = "check" /\ DrainCheck
  /\ waited' = [waited EXCEPT ![s] = MaxCheckPeers] /\ todo' = [todo EXCEPT ![s] = {}]
  /\ Goto(s, "pickCheck")
  /\ UNCHANGED <<stale, malicious, disableMint, stateVars, locateErrCh, blocksCh, net,
                 counting, workers, chainVars, tries, needMore, starts>>

LocateErr(s) ==
  /\ pc[s] = "locate" /\ locateErrCh # None
  /\ locateErrCh' = None
  /\ Goto(s, IF locateErrCh = "noHash" /\ lastLocatedHash = None THEN "exit" ELSE "reset")
  /\ UNCHANGED <<status, stale, malicious, disableMint, stateVars, lastLocatedHash,
                 locateDoneCh, checkCh, blocksCh, net, counting, workers, chainVars,
                 tries, needMore, todo, waited, starts>>

\* checkHashes: waited[s] peers are still to be picked, the requests are sent when
\* all are. A peer may be picked twice when there is no other.
PickCheck(s) ==
  /\ pc[s] = "pickCheck" /\ waited[s] > 0
  /\ \/ /\ pickOnePeer("check", stale) = {}
        /\ Goto(s, "reset") /\ UNCHANGED <<stale, todo, waited>>
     \/ \E p \in pickOnePeer("check", stale) :
          /\ Mark(p, "checked")
          /\ todo' = [todo EXCEPT ![s] = @ \cup {[kind |-> "check", peer |-> p,
                                                  hashes |-> fetchHashes, no |-> waited[s]]}]
          /\ waited' = [waited EXCEPT ![s] = @ - 1]
          /\ UNCHANGED pc
  /\ UNCHANGED <<status, malicious, disableMint, stateVars, lastLocatedHash, chans, net,
                 counting, workers, chainVars, tries, needMore, starts>>

SendCheck(s) ==
  /\ pc[s] = "pickCheck" /\ waited[s] = 0
  /\ \/ net' = net \cup todo[s] /\ Goto(s, "check")
     \/ \E sent \in SUBSET todo[s] :
          sent # todo[s] /\ net' = net \cup sent /\ Goto(s, "reset")
  /\ todo' = [todo EXCEPT ![s] = {}]
  /\ UNCHANGED <<status, stale, malicious, disableMint, stateVars, lastLocatedHash, chans,
                 counting, workers, chainVars, tries, needMore, waited, starts>>

CheckOk(s) ==
  /\ pc[s] = "check" /\ checkOkCh > 0
  /\ checkOkCh' = checkOkCh - 1
  /\ IF checkNum >= MaxCheckPeers
       THEN /\ status' = "blocks" /\ DrainBlocks
            /\ waited' = [waited EXCEPT ![s] = 1]
            /\ Goto(s, "fetch")
       ELSE UNCHANGED <<status, blocksCh, waited, pc>>
  /\ UNCHANGED <<stale, malicious, disableMint, stateVars, lastLocatedHash, locateCh,
                 checkErrCh, net, counting, workers, chainVars, tries, needMore, todo, starts>>

CheckErr(s) ==
  /\ pc[s] = "check" /\ checkErrCh # None
  /\ checkErrCh' = None
  /\ IF checkErrCh = "mismatch"
       THEN Goto(s, "reset") /\ UNCHANGED <<todo, waited>>
       ELSE /\ Goto(s, "pickCheck")
            /\ waited' = [waited EXCEPT ![s] = 1] /\ todo' = [todo EXCEPT ![s] = {}]
  /\ UNCHANGED <<status, stale, malicious, disableMint, stateVars, lastLocatedHash,
                 locateCh, checkOkCh, blocksCh, net, counting, workers, chainVars,
                 tries, needMore, starts>>

\* The timer fires before locate or check is done.
Timeout(s) ==
  /\ pc[s] \in {"locate", "check"}
  /\ MarkTimeout(IF pc[s] = "locate" THEN "locate" ELSE "checked")
  /\ Goto(s, "reset")
  /\ UNCHANGED <<status, malicious, disableMint, stateVars, lastLocatedHash, chans, net,
                 counting, workers, chainVars, tries, needMore, todo, waited, starts>>

\* fetchRemoteBlocksWithRetry asks a peer for block i. A try that fails to send has
\* marked its peer, and the next one picks again (one failed peer is told apart); it
\* gives up after retryTimes tries, or when there is no peer.
Tried == {stale} \cup {[stale EXCEPT ![p] = "blocks"] : p \in pickOnePeer("blocks", stale)}

FetchRemoteBlocks(s, i, p, sp, next) ==
  /\ stale' = [sp EXCEPT ![p] = "blocks"]
  /\ net' = net \cup {[kind |-> "blocks", peer |-> p, idx |-> i, block |-> fetchHashes[i]]}
  /\ Goto(s, next)

GiveUp(s, sp) ==
  /\ sp # stale \/ pickOnePeer("blocks", sp) = {}
  /\ stale' = sp
  /\ Goto(s, "exit") /\ UNCHANGED net

\* fetchAllBlocks sends a request and then stores what the answer is checked with.
Fetch(s) ==
  /\ pc[s] = "fetch"
  /\ \E sp \in Tried :
       \/ GiveUp(s, sp) /\ UNCHANGED todo
       \/ \E p \in pickOnePeer("blocks", sp) :
            /\ FetchRemoteBlocks(s, waited[s], p, sp, "info")
            /\ todo' = [todo EXCEPT ![s] = {p}]
  /\ UNCHANGED <<status, malicious, disableMint, stateVars, lastLocatedHash, chans,
                 counting, workers, chainVars, tries, needMore, waited, starts>>

StoreInfo(s) ==
  LET i == waited[s] IN
  /\ pc[s] = "info"
  /\ \E p \in todo[s] :
       infos' = [infos EXCEPT ![p] = @ \cup {[idx |-> i, block |-> fetchHashes[i]]}]
  /\ waited' = [waited EXCEPT ![s] = i + 1] /\ todo' = [todo EXCEPT ![s] = {}]
  /\ Goto(s, IF i = Len(fetchHashes) THEN "blocks" ELSE "fetch")
  /\ UNCHANGED <<status, stale, malicious, disableMint, checkNum, root, fetchHashes,
                 blocksSynced, lastLocatedHash, chans, net, counting, workers, chainVars,
                 tries, needMore, starts>>

completedEarly == blocksSynced + 1 >= Len(fetchHashes)
completed == blocksSynced >= Len(fetchHashes)

BlocksDone(s) ==
  /\ pc[s] = "blocks" /\ blocksDoneCh > 0
  /\ blocksDoneCh' = blocksDoneCh - 1
  /\ IF completed
       THEN Goto(s, "wait") /\ waited' = [waited EXCEPT ![s] = 0]
       ELSE UNCHANGED <<pc, waited>>
  /\ UNCHANGED <<status, stale, malicious, disableMint, stateVars, lastLocatedHash,
                 locateCh, checkCh, syncErrCh, blocksErrCh, blocksProcessedCh, net,
                 counting, workers, chainVars, tries, needMore, todo, starts>>

BlocksErr(s) ==
  /\ pc[s] = "blocks" /\ blocksErrCh # <<>>
  /\ blocksErrCh' = Tail(blocksErrCh)
  /\ \E sp \in Tried :
       \/ GiveUp(s, sp)
       \/ \E p \in pickOnePeer("blocks", sp) :
            FetchRemoteBlocks(s, Head(blocksErrCh), p, sp, "blocks")
  /\ UNCHANGED <<status, malicious, disableMint, stateVars, lastLocatedHash, locateCh,
                 checkCh, syncErrCh, blocksDoneCh, blocksProcessedCh, counting, workers,
                 chainVars, tries, needMore, todo, waited, starts>>

BlocksTimeout(s) ==
  /\ pc[s] = "blocks"
  /\ MarkTimeout("blocks")
  /\ todo' = [todo EXCEPT ![s] = Pending]
  /\ Goto(s, "retry")
  /\ UNCHANGED <<status, malicious, disableMint, stateVars, lastLocatedHash, chans, net,
                 counting, workers, chainVars, tries, needMore, waited, starts>>

\* After the timeout every block that is still missing is asked for again.
Retry(s) ==
  /\ pc[s] = "retry"
  /\ \/ todo[s] = {} /\ Goto(s, "blocks") /\ UNCHANGED <<stale, net, todo>>
     \/ \E x \in todo[s] :
          /\ todo' = [todo EXCEPT ![s] = @ \ {x}]
          /\ \/ x \notin Pending /\ UNCHANGED <<stale, net, pc>>
             \/ /\ x \in Pending
                /\ \E sp \in Tried :
                     \/ GiveUp(s, sp)
                     \/ \E p \in pickOnePeer("blocks", sp) :
                          FetchRemoteBlocks(s, x.idx, p, sp, "retry")
  /\ UNCHANGED <<status, malicious, disableMint, stateVars, lastLocatedHash, chans,
                 counting, workers, chainVars, tries, needMore, waited, starts>>

\* waitAllBlocksProcessed: a signal for every block, or one error.
WaitProcessed(s) ==
  /\ pc[s] = "wait"
  /\ \/ /\ syncErrCh /\ syncErrCh' = FALSE
        /\ Goto(s, "exit") /\ UNCHANGED <<blocksProcessedCh, needMore, waited>>
     \/ /\ blocksProcessedCh > 0
        /\ blocksProcessedCh' = blocksProcessedCh - 1
        /\ waited' = [waited EXCEPT ![s] = @ + 1]
        /\ IF waited[s] + 1 < Len(fetchHashes) THEN UNCHANGED <<pc, needMore>>
           ELSE IF Len(fetchHashes) >= MaxBlocksPerSync
             THEN Goto(s, "reset") /\ needMore' = [needMore EXCEPT ![s] = TRUE]
             ELSE Goto(s, "exit") /\ UNCHANGED needMore
        /\ UNCHANGED syncErrCh
  /\ UNCHANGED <<status, stale, malicious, disableMint, stateVars, lastLocatedHash,
                 locateCh, checkCh, blocksDoneCh, blocksErrCh, net, counting, workers,
                 chainVars, tries, todo, starts>>

\* The deferred function: resetAll, and then minting is allowed again.
Exit(s) ==
  /\ pc[s] = "exit"
  /\ Reset /\ status' = "free" /\ stale' = [p \in Peer |-> "available"]
  /\ DrainLocate /\ DrainCheck /\ DrainBlocks
  /\ tries' = [tries EXCEPT ![s] = 0] /\ needMore' = [needMore EXCEPT ![s] = FALSE]
  /\ todo' = [todo EXCEPT ![s] = {}] /\ waited' = [waited EXCEPT ![s] = 0]
  /\ Goto(s, "recover")
  /\ UNCHANGED <<malicious, disableMint, lastLocatedHash, net, counting, workers,
                 chainVars, starts>>

Recover(s) ==
  /\ pc[s] = "recover"
  /\ disableMint' = FALSE
  /\ Goto(s, "off")
  /\ UNCHANGED <<status, stale, malicious, stateVars, lastLocatedHash, chans, net,
                 counting, workers, chainVars, tries, needMore, todo, waited, starts>>

-----------------------------------------------------------------------------
(* handleSyncMessage: the answer to a request arrives.                     *)

Answered(m) == m \in net /\ ~counting /\ net' = net \ {m}

LocateResponse(m) ==
  LET p == m.peer
      hs == Headers(p, m.locator)
      rest == rmOverlap(hs)
      Refuse(flag) == /\ Mark(p, "err") /\ locateErrCh' = TryPushErr(locateErrCh, flag)
                      /\ UNCHANGED <<root, fetchHashes, lastLocatedHash, locateDoneCh>>
      Ignore == UNCHANGED <<stale, root, fetchHashes, lastLocatedHash, locateCh>>
  IN
  /\ m.kind = "locate" /\ Answered(m)
  /\ \/ /\ (p \notin Busy /\ hs = None) \/ status # "locate"
        /\ Ignore
     \/ /\ status = "locate" /\ stale[p] # "locate" /\ (p \in Busy \/ hs # None)
        /\ Refuse("wrongPeerStatus")
     \/ /\ status = "locate" /\ stale[p] = "locate" /\ p \in Busy
        /\ Refuse("unmarshal")
     \/ /\ status = "locate" /\ stale[p] = "locate" /\ hs = <<>>
        /\ Refuse("noHash")
     \/ /\ status = "locate" /\ stale[p] = "locate" /\ hs \notin {None, <<>>} /\ rest = <<>>
        /\ lastLocatedHash' = hs[Len(hs)]
        /\ locateErrCh' = TryPushErr(locateErrCh, "noHash")
        /\ UNCHANGED <<stale, root, fetchHashes, locateDoneCh>>
     \/ /\ status = "locate" /\ stale[p] = "locate" /\ hs \notin {None, <<>>} /\ rest # <<>>
        /\ fetchHashes' = rest /\ root' = rest
        /\ Mark(p, "locateDone")
        /\ locateDoneCh' = TRUE
        /\ UNCHANGED <<lastLocatedHash, locateErrCh>>
  /\ UNCHANGED <<status, malicious, disableMint, checkNum, infos, blocksSynced, checkCh,
                 blocksCh, counting, workers, chainVars, locals>>

\* The signal is sent first and counted afterwards (CountCheck).
CheckResponse(m) ==
  LET p == m.peer
      known == stale[p] \in {"checked", "checkedDone"}
      Refuse(flag) == /\ Mark(p, "err") /\ checkErrCh' = TryPushErr(checkErrCh, flag)
                      /\ UNCHANGED <<checkOkCh, counting>>
  IN
  /\ m.kind = "check" /\ Answered(m)
  /\ \E answer \in {RootHash(p, m.hashes)} \cup (IF p \in Busy THEN {<<>>} ELSE {}) :
       IF status # "check"
         THEN /\ IF known THEN UNCHANGED stale ELSE Mark(p, "err")
              /\ UNCHANGED <<checkCh, counting>>
       ELSE IF ~known THEN Refuse("wrongPeerStatus")
       ELSE IF checkNum > MaxCheckPeers THEN Refuse("checkNumTooBig")
       ELSE IF answer # root THEN Refuse(IF answer = <<>> THEN "inSync" ELSE "mismatch")
       ELSE /\ Mark(p, "checkedDone")
            /\ checkOkCh' = TryPush(checkOkCh, MaxCheckPeers)
            /\ counting' = TRUE
            /\ UNCHANGED checkErrCh
  /\ UNCHANGED <<status, malicious, disableMint, stateVars, lastLocatedHash, locateCh,
                 blocksCh, workers, chainVars, locals>>

CountCheck ==
  /\ counting
  /\ checkNum' = checkNum + 1 /\ counting' = FALSE
  /\ UNCHANGED <<status, stale, malicious, disableMint, root, fetchHashes, infos,
                 blocksSynced, lastLocatedHash, chans, net, workers, chainVars, locals>>

ClearAnyInfo(p, i, b) == {x \in infos[p] : x.idx = i}

\* checkBlocksAndClearInfo: the info that block b with index i from p satisfies.
ClearInfo(p, i, b) == {x \in infos[p] : x.idx = i /\ x.block = b}

BlocksAnswerTwice(p, i, b) ==
  IF stale[p] \in {"blocks", "blocksDone"} /\ ClearInfo(p, i, b) # {}
    THEN /\ Mark(p, "blocksDone")
         /\ blocksSynced' = blocksSynced + 1
         /\ blocksDoneCh' = TryPush(blocksDoneCh, MaxBlocksPerSync)
         /\ workers' = workers \cup {[peer |-> p, block |-> b]}
         /\ UNCHANGED <<infos, blocksErrCh>>
    ELSE Mark(p, "err") /\ UNCHANGED <<infos, blocksSynced, blocksDoneCh, blocksErrCh, workers>>

\* onBlocksResponse: b is the block p has sent, None is an empty answer.
BlocksAnswer(p, i, b) ==
  IF stale[p] \notin {"blocks", "blocksDone"}
    THEN Mark(p, "err") /\ UNCHANGED <<infos, blocksSynced, blocksDoneCh, blocksErrCh, workers>>
  ELSE IF ClearInfo(p, i, b) = {}
    THEN /\ Mark(p, "err")
         /\ blocksErrCh' = IF (\E x \in infos[p] : x.idx = i) /\ Len(blocksErrCh) < Len(fetchHashes)
                             THEN Append(blocksErrCh, i) ELSE blocksErrCh
         /\ UNCHANGED <<infos, blocksSynced, blocksDoneCh, workers>>
  ELSE /\ infos' = [infos EXCEPT ![p] = @ \ ClearInfo(p, i, b)]
       /\ IF blocksDoneCh >= Len(fetchHashes)
            THEN Mark(p, "err") /\ UNCHANGED <<blocksSynced, blocksDoneCh, workers>>
            ELSE /\ Mark(p, "blocksDone")
                 /\ blocksSynced' = blocksSynced + 1
                 /\ blocksDoneCh' = TryPush(blocksDoneCh, MaxBlocksPerSync)
                 /\ workers' = workers \cup {[peer |-> p, block |-> b]}
       /\ UNCHANGED blocksErrCh

\* A peer that is in sync sends an empty answer and an answer with a wrong index;
\* one that does not have the block sends only the latter.
BlocksResponse(m) ==
  LET p == m.peer IN
  /\ m.kind = "blocks" /\ ~counting /\ m \in net
  /\ \/ /\ status # "blocks"
        /\ net' = net \ {m}
        /\ UNCHANGED <<stale, infos, blocksSynced, blocksDoneCh, blocksErrCh, workers>>
     \/ /\ status = "blocks" /\ p \in Busy
        /\ net' = (net \ {m}) \cup {[kind |-> "wrongIdx", peer |-> p]}
        /\ BlocksAnswer(p, m.idx, None)
     \/ /\ status = "blocks" /\ OnChain(m.block, PeerChain[p])
        /\ net' = net \ {m}
        /\ BlocksAnswer(p, m.idx, m.block)
     \/ /\ status = "blocks" /\ ~OnChain(m.block, PeerChain[p])
        /\ net' = (net \ {m}) \cup {[kind |-> "wrongIdx", peer |-> p]}
        /\ UNCHANGED <<stale, infos, blocksSynced, blocksDoneCh, blocksErrCh, workers>>
  /\ UNCHANGED <<status, malicious, disableMint, checkNum, root, fetchHashes,
                 lastLocatedHash, locateCh, checkCh, syncErrCh, blocksProcessedCh,
                 counting, chainVars, locals>>

WrongIdxResponse(m) ==
  /\ m.kind = "wrongIdx" /\ Answered(m)
  /\ IF status = "blocks" THEN Mark(m.peer, "err") ELSE UNCHANGED stale
  /\ UNCHANGED <<status, malicious, disableMint, stateVars, lastLocatedHash, chans,
                 counting, workers, chainVars, locals>>

\* The goroutine that processes a block.
Work(w) ==
  /\ w \in workers /\ workers' = workers \ {w}
  /\ IF w.block \in Bad
       THEN /\ malicious' = malicious \cup {w.peer} /\ syncErrCh' = TRUE
            /\ UNCHANGED <<blocksProcessedCh, chainVars>>
       ELSE /\ Process({w.block})
            /\ blocksProcessedCh' = TryPush(blocksProcessedCh, MaxBlocksPerSync)
            /\ UNCHANGED <<malicious, syncErrCh>>
  /\ UNCHANGED <<status, stale, disableMint, stateVars, lastLocatedHash, locateCh, checkCh,
                 blocksDoneCh, blocksErrCh, net, counting, locals>>

-----------------------------------------------------------------------------
(* Light sync: a few blocks of one peer, asked for by ProcessBlock.        *)

\* The bound on light syncs: one request at a time, and none once the last sync is over.
ActiveLightSync(p) ==
  /\ status = "free" /\ \A m \in net : m.kind # "light"
  /\ starts < MaxStarts \/ \E s \in Sync : pc[s] # "off"
  /\ disableMint' = TRUE
  /\ net' = net \cup {[kind |-> "light", peer |-> p, locator |-> Locator]}
  /\ UNCHANGED <<status, stale, malicious, stateVars, lastLocatedHash, chans, counting,
                 workers, chainVars, locals>>

\* onLightSyncResponse processes the blocks up to the first that is refused. A peer
\* that has too many blocks to send does not answer.
LightSyncResponse(m) ==
  LET hs == Headers(m.peer, m.locator)
      good == {i \in DOMAIN hs : \A j \in 1..i : hs[j] \notin Bad}
  IN
  /\ m.kind = "light" /\ Answered(m)
  /\ IF hs = None \/ Len(hs) > Threshold
       THEN UNCHANGED <<malicious, disableMint, chainVars>>
       ELSE /\ Process({hs[i] : i \in good})
            /\ malicious' = IF good = DOMAIN hs THEN malicious ELSE malicious \cup {m.peer}
            /\ disableMint' = IF status = "free" THEN FALSE ELSE disableMint
  /\ UNCHANGED <<status, stale, stateVars, lastLocatedHash, chans, counting, workers, locals>>

Handle(m) ==
  LocateResponse(m) \/ CheckResponse(m) \/ BlocksResponse(m) \/ WrongIdxResponse(m)
    \/ LightSyncResponse(m)

\* A step of the goroutine s.
Run(s) ==
  \/ Begin(s) \/ ResetRound(s) \/ LocateHashes(s) \/ LocateDone(s) \/ LocateErr(s)
  \/ PickCheck(s) \/ SendCheck(s) \/ CheckOk(s) \/ CheckErr(s) \/ Timeout(s)
  \/ Fetch(s) \/ StoreInfo(s) \/ BlocksDone(s) \/ BlocksErr(s) \/ BlocksTimeout(s)
  \/ Retry(s) \/ WaitProcessed(s) \/ Exit(s) \/ Recover(s)

Next ==
  \/ \E s \in Sync : StartSync(s) \/ Run(s)
  \/ \E m \in net : Handle(m)
  \/ CountCheck
  \/ \E w \in workers : Work(w)
  \/ \E p \in LightPeer : ActiveLightSync(p)

Spec ==
  /\ Init /\ [][Next]_vars
  /\ \A s \in Sync : WF_vars(Run(s)) /\ SF_vars(BlocksDone(s))
  /\ WF_vars(CountCheck) /\ WF_vars(\E w \in workers : Work(w))

-----------------------------------------------------------------------------
(* Properties.                                                             *)

\* Every field, channel and local has its type; no channel exceeds its capacity.
TypeOK ==
  /\ status \in {"free", "locate", "check", "blocks"}
  /\ stale \in [Peer -> PeerStatus] /\ malicious \subseteq Peer
  /\ disableMint \in BOOLEAN /\ counting \in BOOLEAN
  /\ checkNum \in Nat /\ blocksSynced \in 0..MaxBlocksPerSync
  /\ Len(fetchHashes) <= MaxBlocksPerSync
  /\ locateErrCh \in Flags \cup {None} /\ checkErrCh \in Flags \cup {None}
  /\ locateDoneCh \in BOOLEAN /\ syncErrCh \in BOOLEAN
  /\ checkOkCh \in 0..MaxCheckPeers
  /\ blocksDoneCh \in 0..MaxBlocksPerSync /\ Len(blocksErrCh) <= MaxBlocksPerSync
  /\ got \subseteq UNION {{SubSeq(PeerChain[p], 1, i) : i \in 1..Len(PeerChain[p])} : p \in Peer}
  /\ main \in got \cup {<<>>}

\* While blocks are fetched, those that have arrived (blocksSynced) and those that
\* are still expected (peerBlockCheckInfo) make up what was asked for: no answer is
\* counted twice and none is lost, whatever arrives late, twice or not at all.
SyncedOrPending ==
  \A s \in Sync :
    /\ pc[s] \in {"blocks", "retry"} =>
         blocksSynced + Cardinality(Pending) = Len(fetchHashes)
    /\ pc[s] = "fetch" => blocksSynced + Cardinality(Pending) = waited[s] - 1

\* When startSync waits for the blocks to be processed ("complete to sync"), every
\* block of fetchHashes is with a goroutine, has been processed or was refused.
CompleteSync ==
  \A s \in Sync : pc[s] = "wait" =>
    \A i \in DOMAIN fetchHashes :
      \/ fetchHashes[i] \in got \cup Bad
      \/ \E w \in workers : w.block = fetchHashes[i]

\* A block is handed to ProcessBlock only if it is one of the hashes of the round in
\* progress: an answer to a request of an earlier round is never taken for it.
OnlyLocatedBlocks ==
  [][\A w \in workers' \ workers : \E i \in DOMAIN fetchHashes : fetchHashes[i] = w.block]_vars

\* startSync returns, whatever peers answer and whatever is lost: it neither waits
\* for ever nor retries for ever.
SyncEnds == \A s \in Sync : pc[s] # "off" ~> pc[s] = "off"

\* "prevent startSync being executed again": one goroutine syncs at a time.
OneSync == \A s, t \in Sync : pc[s] \notin {"off", "spawned"} /\ pc[t] \notin {"off", "spawned"} => s = t

\* A peer that is ahead answers a request to locate the fork point.
LocateAnswered ==
  \A m \in net : m.kind = "locate" => Headers(m.peer, m.locator) # None

=============================================================================

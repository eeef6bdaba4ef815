--------------------------- MODULE NetBlockProofs ---------------------------
(***************************************************************************)
(* How far a block travels and how often a node has it: the invariant of   *)
(* the blocks, and the actions that cannot disturb it much: look-ups,      *)
(* closing, sweeps, the writer and the queues. NetRelayProofs has those    *)
(* that take a block from the wire to the handlers, and the theorem.       *)
(***************************************************************************)
EXTENDS NetProofs

-----------------------------------------------------------------------------
(* Blocks: how far they travel, and how often a node has one.              *)

\* Block b, which was sent, is on its way to node n or has arrived there, and may be passed
\* on t more times.
Goes(sc, nt, b, n, t) ==
  /\ b \in sc.sends /\ b \in DOMAIN nt /\ b \in nt[b].seen
  /\ t \in 0..RelayTimes /\ n \in Near[sc][b][RelayTimes + 1 - t]
Arrives(sc, nt, m, n) == m.code = "block" => Goes(sc, nt, m.body, n, m.times)

\* A sequence that has no element twice.
Once(s) == \A i, j \in DOMAIN s : s[i] = s[j] => i = j

\* What node n has received, it knows how often to pass on and filters; what is in its
\* channels or handled, it has received, once, or, if it is handled, sent itself.
NodeBlocks(sc, nt, n) ==
  LET r == nt[n]
  IN /\ \A b \in DOMAIN r.times : b \in r.seen /\ b # n /\ Goes(sc, nt, b, n, r.times[b])
     /\ \A b \in r.seen : b \in sc.sends /\ n \in Near[sc][b][RelayTimes + 1]
     /\ Range(r.receiveCh) \subseteq DOMAIN r.times /\ Range(r.handler) \subseteq DOMAIN r.times
     /\ r.known \subseteq DOMAIN r.times \cup {n}
     /\ Once(r.receiveCh) /\ Once(r.handler)
     /\ Range(r.receiveCh) \cap Range(r.handler) = {}
     /\ r.known \cap (Range(r.receiveCh) \cup Range(r.handler)) = {}

Held(r) == r.known \cup Range(r.receiveCh) \cup Range(r.handler)

\* A block that a loop hands over was just received, and by that loop only.
LoopsOK(sc, nt, cn) ==
  \A c \in DOMAIN cn : cn[c].pc = "notify" =>
    LET n == Peer1(sc, c)
        b == cn[c].msg.body
    IN /\ b \in DOMAIN nt[n].times /\ b \notin Held(nt[n])
       /\ \A d \in DOMAIN cn : cn[d].pc = "notify" /\ Peer1(sc, d) = n /\ cn[d].msg.body = b => d = c

\* A node sends blocks that it has received, and its own.
TaskOK(sc, nt, t) ==
  t.m.code = "block" => LET n == Peer1(sc, t.c)
                        IN \/ t.m.body \in DOMAIN nt[n].times
                           \/ t.m.body = n /\ n \in sc.sends

Queued(k) == UNION {Range(k.queues[p]) : p \in Low..Top}

LeftOK(sc, lf) == "sends" \in DOMAIN lf /\ lf.sends \subseteq sc.sends

BlockInv ==
  /\ LeftOK(scene, left)
  /\ \A n \in DOMAIN net : NodeBlocks(scene, net, n)
  /\ LoopsOK(scene, net, conn)
  /\ \A t \in tasks : TaskOK(scene, net, t)
  /\ \A c \in DOMAIN conn : \A m \in Queued(conn[c]) : Arrives(scene, net, m, Peer2(scene, c))
  /\ \A c \in DOMAIN conn : \A m \in Range(wire[c]) : Arrives(scene, net, m, Peer1(scene, c))

-----------------------------------------------------------------------------
(* The nodes within some streams of a sender.                              *)

\* What Near says.
LEMMA NearPath ==
  ASSUME NEW sc \in Scenes, NEW b \in sc.sends, NEW i \in 0..RelayTimes + 1, NEW n
  PROVE  n \in Near[sc][b][i] <=>
           /\ n \in NodesOf(sc)
           /\ \E path \in [0..i -> NodesOf(sc)] :
                path[0] = b /\ path[i] = n /\ \A j \in 1..i : Linked(sc, path[j - 1], path[j])
BY DEF Near

\* A sender is near itself.
LEMMA NearSelf ==
  ASSUME NEW sc \in Scenes, NEW b \in sc.sends, b \in NodesOf(sc)
  PROVE  b \in Near[sc][b][0]
<1> DEFINE path == [j \in 0..0 |-> b]
<1>1. path \in [0..0 -> NodesOf(sc)] /\ path[0] = b
      /\ \A j \in 1..0 : Linked(sc, path[j - 1], path[j])
  OBVIOUS
<1>2. 0 \in 0..RelayTimes + 1
  BY NetAssumption
<1> HIDE DEF path
<1> QED  BY Zenon, <1>1, <1>2, NearPath

\* A node one stream further is near when one more stream is allowed.
LEMMA NearLink ==
  ASSUME NEW sc \in Scenes, NEW b \in sc.sends, NEW i \in 0..RelayTimes, NEW n \in Near[sc][b][i],
         NEW m \in NodesOf(sc), Linked(sc, n, m)
  PROVE  m \in Near[sc][b][i + 1]
<1>0. i \in Nat /\ i \in 0..RelayTimes + 1 /\ i + 1 \in 0..RelayTimes + 1
  BY NetAssumption
<1>1. PICK path \in [0..i -> NodesOf(sc)] :
        path[0] = b /\ path[i] = n /\ \A j \in 1..i : Linked(sc, path[j - 1], path[j])
  BY SMTT(30), <1>0, NearPath
<1> DEFINE longer == [j \in 0..(i + 1) |-> IF j = i + 1 THEN m ELSE path[j]]
<1>2. longer \in [0..(i + 1) -> NodesOf(sc)] /\ longer[0] = b /\ longer[i + 1] = m
  BY <1>0, <1>1
<1>3. ASSUME NEW j \in 1..(i + 1) PROVE Linked(sc, longer[j - 1], longer[j])
  <2>1. CASE j = i + 1
    <3>1. longer[j - 1] = n /\ longer[j] = m
      BY <1>0, <1>1, <2>1
    <3> QED  BY <3>1
  <2>2. CASE j # i + 1
    <3>1. j \in 1..i /\ longer[j - 1] = path[j - 1] /\ longer[j] = path[j]
      BY <1>0, <1>1, <2>2
    <3> QED  BY <1>1, <3>1
  <2> QED  BY <2>1, <2>2
<1> HIDE DEF longer
<1> QED  BY Zenon, <1>0, <1>2, <1>3, NearPath

\* A node that is near stays near when more streams are allowed.
LEMMA NearGrows ==
  ASSUME NEW sc \in Scenes, NEW b \in sc.sends, NEW i \in 0..RelayTimes + 1, NEW n \in Near[sc][b][i]
  PROVE  n \in Near[sc][b][RelayTimes + 1]
<1>0. i \in Nat /\ RelayTimes \in Nat /\ RelayTimes + 1 \in 0..RelayTimes + 1 /\ i <= RelayTimes + 1
  BY NetAssumption
<1>1. PICK path \in [0..i -> NodesOf(sc)] :
        path[0] = b /\ path[i] = n /\ \A j \in 1..i : Linked(sc, path[j - 1], path[j])
  BY NearPath
<1>2. n \in NodesOf(sc)
  BY NearPath
<1> DEFINE longer == [j \in 0..(RelayTimes + 1) |-> IF j > i THEN n ELSE path[j]]
<1>3. longer \in [0..(RelayTimes + 1) -> NodesOf(sc)] /\ longer[0] = b /\ longer[RelayTimes + 1] = n
  BY <1>0, <1>1, <1>2
<1>4. ASSUME NEW j \in 1..(RelayTimes + 1) PROVE Linked(sc, longer[j - 1], longer[j])
  <2>1. CASE j > i
    <3>1. longer[j - 1] = n /\ longer[j] = n
      BY <1>0, <1>1, <2>1
    <3> QED  BY <3>1 DEF Linked
  <2>2. CASE ~(j > i)
    <3>1. j \in 1..i /\ longer[j - 1] = path[j - 1] /\ longer[j] = path[j]
      BY <1>0, <1>1, <2>2
    <3> QED  BY <1>1, <3>1
  <2> QED  BY <2>1, <2>2
<1> HIDE DEF longer
<1> QED  BY Zenon, <1>0, <1>2, <1>3, <1>4, NearPath

\* The two ends of a stream are one stream apart.
LEMMA NearNext ==
  ASSUME IInv, NEW c \in Ends, NEW b \in scene.sends, NEW i \in 0..RelayTimes,
         NodeOf(c) \in Near[scene][b][i]
  PROVE  RemotePeer(c) \in Near[scene][b][i + 1]
<1> DEFINE d == scene.dials[c[1]]
<1>1. c[1] \in Streams /\ c[2] \in {1, 2}
  BY EndsOK
<1>2. DOMAIN d = {1, 2} /\ scene \in Scenes
  BY <1>1, NetAssumption DEF IInv, Streams
<1>3. d \in Range(scene.dials)
  BY ZenonT(60), <1>1 DEF Streams, Range
<1>4. NodeOf(c) \in Range(d) /\ RemotePeer(c) \in Range(d)
  <2>1. 3 - c[2] \in {1, 2} /\ Other(c)[1] = c[1] /\ Other(c)[2] = 3 - c[2]
    BY <1>1 DEF Other
  <2> QED  BY <1>1, <1>2, <2>1 DEF NodeOf, RemotePeer, Range
<1> HIDE DEF d
<1>5. Linked(scene, NodeOf(c), RemotePeer(c)) /\ RemotePeer(c) \in NodesOf(scene)
  BY <1>3, <1>4 DEF Linked, NodesOf
<1> QED  BY <1>2, <1>5, NearLink

-----------------------------------------------------------------------------
(* Sequences without duplicates.                                           *)

\* The elements of a sequence at whose end one is put, and of which one is taken.
LEMMA OnceAppend ==
  ASSUME NEW S, NEW s \in Seq(S), NEW b \in S
  PROVE  /\ Range(Append(s, b)) = Range(s) \cup {b}
         /\ Once(s) /\ b \notin Range(s) => Once(Append(s, b))
<1>1. /\ DOMAIN s = 1..Len(s) /\ DOMAIN Append(s, b) = 1..(Len(s) + 1) /\ Len(s) \in Nat
      /\ \A i \in 1..Len(s) : Append(s, b)[i] = s[i]
      /\ Append(s, b)[Len(s) + 1] = b
  OBVIOUS
<1>2. \A i \in 1..(Len(s) + 1) : i \in 1..Len(s) \/ i = Len(s) + 1
  BY <1>1
<1> DEFINE q == Append(s, b)
<1> HIDE DEF q
<1>3. Range(q) = Range(s) \cup {b}
  BY <1>1, <1>2 DEF Range, q
<1>4. ASSUME Once(s), b \notin Range(s) PROVE Once(q)
  <2>1. \A i \in 1..Len(s) : s[i] # b
    BY <1>1, <1>4 DEF Range
  <2> QED  BY <1>1, <1>2, <1>4, <2>1 DEF Once, q
<1> QED  BY <1>3, <1>4 DEF q

\* ... and one without its first element.
LEMMA OnceTail ==
  ASSUME NEW S, NEW s \in Seq(S), s # <<>>
  PROVE  /\ Head(s) \in Range(s) /\ Range(Tail(s)) \subseteq Range(s)
         /\ Once(s) => Once(Tail(s)) /\ Head(s) \notin Range(Tail(s))
<1>1. /\ Len(s) \in Nat /\ Len(s) >= 1 /\ DOMAIN s = 1..Len(s) /\ Head(s) = s[1]
      /\ DOMAIN Tail(s) = 1..(Len(s) - 1)
      /\ \A i \in 1..(Len(s) - 1) : Tail(s)[i] = s[i + 1]
  OBVIOUS
<1> DEFINE q == Tail(s)
<1> HIDE DEF q
<1>2. \A i \in 1..(Len(s) - 1) : i + 1 \in 1..Len(s) /\ i + 1 # 1
  BY <1>1
<1>3. Head(s) \in Range(s) /\ Range(q) \subseteq Range(s)
  BY <1>1, <1>2 DEF Range, q
<1>4. Once(s) => Once(q)
  BY <1>1, <1>2 DEF Once, q
<1>5. Once(s) => Head(s) \notin Range(q)
  <2>1. 1 \in 1..Len(s)
    BY <1>1
  <2> QED  BY <1>1, <1>2, <2>1 DEF Once, Range, q
<1> QED  BY <1>3, <1>4, <1>5 DEF q

-----------------------------------------------------------------------------
(* Steps: what the nodes know grows.                                       *)

Grows(nt, nt2) ==
  /\ DOMAIN nt2 = DOMAIN nt
  /\ \A n \in DOMAIN nt : nt[n].seen \subseteq nt2[n].seen
                          /\ DOMAIN nt[n].times \subseteq DOMAIN nt2[n].times

\* What is on its way stays so.
LEMMA GoesOn ==
  ASSUME NEW sc, NEW nt, NEW nt2, Grows(nt, nt2), NEW b, NEW n, NEW t, Goes(sc, nt, b, n, t)
  PROVE  Goes(sc, nt2, b, n, t)
BY ZenonT(60) DEF Grows, Goes

\* A node that does no more than remember a block that it may know of.
LEMMA NodeGrows ==
  ASSUME NEW sc, NEW nt, NEW nt2, Grows(nt, nt2), NEW n \in DOMAIN nt, NodeBlocks(sc, nt, n),
         nt2[n].times = nt[n].times, nt2[n].receiveCh = nt[n].receiveCh,
         nt2[n].handler = nt[n].handler, nt2[n].known = nt[n].known,
         \A b \in nt2[n].seen :
           b \in nt[n].seen \/ (b \in sc.sends /\ n \in Near[sc][b][RelayTimes + 1])
  PROVE  NodeBlocks(sc, nt2, n)
<1>1. \A b \in DOMAIN nt2[n].times :
        b \in nt2[n].seen /\ b # n /\ Goes(sc, nt2, b, n, nt2[n].times[b])
  BY GoesOn DEF NodeBlocks, Grows
<1>2. \A b \in nt2[n].seen : b \in sc.sends /\ n \in Near[sc][b][RelayTimes + 1]
  BY DEF NodeBlocks
<1> QED  BY ZenonT(60), <1>1, <1>2 DEF NodeBlocks

\* The parts of the invariant that only grow.
LEMMA Conveys ==
  ASSUME BlockInv, UNCHANGED scene, Grows(net, net'), LeftOK(scene, left'),
         DOMAIN conn' = DOMAIN conn,
         \A n \in DOMAIN net : NodeBlocks(scene, net', n),
         LoopsOK(scene, net', conn'),
         \A t \in tasks' : \/ TaskOK(scene, net', t)
                           \/ \E u \in tasks : u.c = t.c /\ u.m = t.m,
         \A c \in DOMAIN conn : \A m \in Queued(conn'[c]) :
           m \in Queued(conn[c]) \/ Arrives(scene, net', m, Peer2(scene, c)),
         \A c \in DOMAIN conn : \A m \in Range(wire'[c]) :
           m \in Range(wire[c]) \/ Arrives(scene, net', m, Peer1(scene, c)),
         \A t \in tasks : Peer1(scene, t.c) \in DOMAIN net
  PROVE  BlockInv'
<1>1. \A m, n : Arrives(scene, net, m, n) => Arrives(scene, net', m, n)
  BY ZenonT(60), GoesOn DEF Arrives
<1>2. ASSUME NEW t \in tasks' PROVE TaskOK(scene, net', t)
  <2>1. CASE TaskOK(scene, net', t)
    BY ZenonT(60), <2>1
  <2>2. CASE \E u \in tasks : u.c = t.c /\ u.m = t.m
    BY ZenonT(60), <2>2 DEF BlockInv, TaskOK, Grows
  <2> QED  BY ZenonT(60), <2>1, <2>2
<1>3. ASSUME NEW c \in DOMAIN conn, NEW m \in Queued(conn'[c])
      PROVE  Arrives(scene, net', m, Peer2(scene, c))
  BY <1>1 DEF BlockInv
<1>4. ASSUME NEW c \in DOMAIN conn, NEW m \in Range(wire'[c])
      PROVE  Arrives(scene, net', m, Peer1(scene, c))
  BY <1>1 DEF BlockInv
<1>5. DOMAIN net' = DOMAIN net
  BY DEF Grows
<1> QED  BY Zenon, <1>2, <1>3, <1>4, <1>5 DEF BlockInv

\* The nodes of tasks and of ends.
LEMMA TaskNode ==
  ASSUME IInv
  PROVE  /\ \A t \in tasks : t.c \in Ends /\ Peer1(scene, t.c) = NodeOf(t.c) /\ Peer1(scene, t.c) \in DOMAIN net
         /\ \A c \in Ends : Peer1(scene, c) = NodeOf(c) /\ NodeOf(c) \in DOMAIN net
<1>1. \A t \in tasks : t.c \in Ends
  BY DEF IInv, Pushes, Ends
<1> QED  BY <1>1, EndsOK DEF Nodes

\* An object after a step that puts nothing into its queues and takes no block to hand over.
SameBlocks(k, k2) ==
  /\ k2.queues = k.queues \/ k2.queues = NoQueues
  /\ k2.pc = "notify" => k.pc = "notify" /\ k2.msg = k.msg

\* Empty queues.
LEMMA NothingQueued == \A k : k.queues = NoQueues => Queued(k) = {}
<1> SUFFICES ASSUME NEW k, k.queues = NoQueues PROVE Queued(k) = {}
  OBVIOUS
<1>1. \A p \in Low..Top : k.queues[p] = <<>>
  BY DEF NoQueues
<1>2. Range(<<>>) = {}
  BY DEF Range
<1> QED  BY <1>1, <1>2 DEF Queued

\* The loops hand over what they did, when the nodes know the same.
LEMMA LoopsStay ==
  ASSUME LoopsOK(scene, net, conn), NEW cn, DOMAIN cn = DOMAIN conn,
         \A d \in DOMAIN conn : cn[d].pc = "notify" => conn[d].pc = "notify" /\ cn[d].msg = conn[d].msg
  PROVE  LoopsOK(scene, net, cn)
BY DEF LoopsOK

\* ... and when the nodes know more, but hold nothing new that they have received.
LEMMA LoopsKeep ==
  ASSUME IInv, LoopsOK(scene, net, conn), NEW nt, NEW cn, DOMAIN cn = DOMAIN conn,
         \A n \in DOMAIN net : DOMAIN net[n].times \subseteq DOMAIN nt[n].times,
         \A n \in DOMAIN net : \A b \in Held(nt[n]) : b \in Held(net[n]) \/ b \notin DOMAIN net[n].times,
         \A d \in DOMAIN conn : cn[d].pc = "notify" => conn[d].pc = "notify" /\ cn[d].msg = conn[d].msg
  PROVE  LoopsOK(scene, nt, cn)
<1>1. \A c \in DOMAIN conn : Peer1(scene, c) \in DOMAIN net
  BY Zenon, TaskNode DEF Ends
<1> QED  BY <1>1 DEF LoopsOK

\* Steps that blocks do not notice.
LEMMA QuietBlocks ==
  ASSUME IInv, BlockInv, UNCHANGED <<scene, net, wire>>, LeftOK(scene, left'),
         DOMAIN conn' = DOMAIN conn, \A d \in DOMAIN conn : SameBlocks(conn[d], conn'[d]),
         \A t \in tasks' : \/ t.m.code # "block"
                           \/ \E u \in tasks : u.c = t.c /\ u.m = t.m
  PROVE  BlockInv'
<1>1. Grows(net, net')
  BY DEF Grows
<1>2. LoopsOK(scene, net', conn')
  BY LoopsStay DEF BlockInv, SameBlocks
<1>3. ASSUME NEW c \in DOMAIN conn, NEW m \in Queued(conn'[c])
      PROVE  m \in Queued(conn[c])
  <2>1. conn'[c].queues = conn[c].queues
    BY ZenonT(60), <1>3, NothingQueued DEF SameBlocks
  <2> QED  BY <1>3, <2>1 DEF Queued
<1>4. \A n \in DOMAIN net : NodeBlocks(scene, net', n)
  BY DEF BlockInv
<1>5. \A t \in tasks' : TaskOK(scene, net', t) \/ \E u \in tasks : u.c = t.c /\ u.m = t.m
  BY DEF TaskOK
<1> QED  BY ZenonT(60), <1>1, <1>2, <1>3, <1>4, <1>5, TaskNode, Conveys

\* One object moves.
LEMMA QuietObject ==
  ASSUME IInv, BlockInv, NEW c \in Ends, NEW k, conn' = [conn EXCEPT ![c] = k],
         SameBlocks(conn[c], k), UNCHANGED <<scene, net, wire>>, LeftOK(scene, left'),
         \A t \in tasks' : \/ t.m.code # "block"
                           \/ \E u \in tasks : u.c = t.c /\ u.m = t.m
  PROVE  BlockInv'
<1>1. DOMAIN conn' = DOMAIN conn /\ \A d \in DOMAIN conn : SameBlocks(conn[d], conn'[d])
  BY DEF SameBlocks, Ends
<1> QED  BY <1>1, QuietBlocks

\* What is left to be sent.
LEMMA LeftStep ==
  ASSUME BlockInv, Next
  PROVE  LeftOK(scene, left')
<1> SUFFICES ASSUME left' # left PROVE LeftOK(scene, left')
  BY DEF BlockInv
<1>1. \/ \E f \in {"refuses", "beats", "sweeps", "resets"} : \E v : left' = [left EXCEPT ![f] = v]
      \/ \E n : left' = [left EXCEPT !.sends = @ \ {n}]
  <2>1. ASSUME NEW s \in Streams, lookup(s) \/ Reset(s)
        PROVE  \E v : left' = [left EXCEPT !.resets = v]
    BY <2>1 DEF lookup, Reset
  <2>2. ASSUME NEW c \in Ends, Loop(c)
        PROVE  \E v : left' = [left EXCEPT !.refuses = v]
    BY Zenon, <2>2 DEF Loop, Dial, Read, StartBeat, HandOver, ReadFails, Teardown
  <2>3. ASSUME NEW c \in Ends, Discover(c) PROVE FALSE
    BY ZenonT(60), <2>3 DEF Discover, PeerDiscover, Timeout, PeerDiscoverFails
  <2>4. ASSUME NEW c \in Ends, Run(c) \/ heartBeatService(c) \/ CloseCollected(c)
        PROVE  \E v : left' = [left EXCEPT !.beats = v]
    BY <2>4 DEF Run, heartBeatService, CloseCollected
  <2>5. ASSUME NEW t \in tasks, Push(t) PROVE FALSE
    BY Zenon, <2>5 DEF Push, Put, Notify
  <2>6. ASSUME NEW n \in Nodes, Collect(n) \/ Broadcast(n) \/ Dispatch(n) \/ Relay(n)
        PROVE  \/ \E v : left' = [left EXCEPT !.sweeps = v]
               \/ left' = [left EXCEPT !.sends = @ \ {n}]
    BY <2>6 DEF Collect, Broadcast, Dispatch, Relay
  <2> QED  BY ZenonT(60), <2>1, <2>2, <2>3, <2>4, <2>5, <2>6 DEF Next
<1> QED  BY <1>1 DEF BlockInv, LeftOK

-----------------------------------------------------------------------------
(* The actions that blocks do not notice.                                  *)

\* Messages without a body are no blocks.
LEMMA NoBlock ==
  \A c, by : \A code \in {"ping", "pong", "discover", "reply"} : Task(c, by, Message(code)).m.code # "block"
BY DEF Task, Message

\* Lookup and Dial make new objects, which have nothing to write.
LEMMA LookupBlocks ==
  ASSUME IInv, BlockInv, LeftOK(scene, left'), NEW s \in Streams, lookup(s)
  PROVE  BlockInv'
<1> DEFINE c == <<s, 1>>
<1>1. c \in Ends /\ UNCHANGED <<scene, net, wire>>
  BY DEF IInv, Ends, lookup
<1>2. PICK k \in {[conn[c] EXCEPT !.pc = "unused"], NewConn("dial", "wait")} :
        conn' = [conn EXCEPT ![c] = k]
  BY DEF lookup
<1>3. SameBlocks(conn[c], k)
  BY DEF SameBlocks, NewConn, lookup, None
<1>4. \A t \in tasks' : t \in tasks \/ t.m.code # "block"
  BY NoBlock DEF lookup
<1> QED  BY Zenon, <1>1, <1>2, <1>3, <1>4, QuietObject

\* Dial: the new stream carries nothing yet.
LEMMA DialBlocks ==
  ASSUME IInv, BlockInv, LeftOK(scene, left'), NEW c \in Ends, Dial(c)
  PROVE  BlockInv'
<1> DEFINE o == Other(c)
<1>1. o \in Ends /\ o # c /\ UNCHANGED <<scene, net, wire>>
      /\ conn[c] \in ConnObjects /\ conn[o] \in ConnObjects /\ conn[c].pc = "dial"
  BY EndsOK, ObjectOK DEF Dial
<1> HIDE DEF o
<1> DEFINE Dialled == [conn[c] EXCEPT !.pc = "push", !.open = TRUE]
           Failed == [conn[c] EXCEPT !.pc = "exit"]
           Ended == [conn[o] EXCEPT !.pc = "over"]
           Unused == [conn[o] EXCEPT !.pc = "unused"]
           Ways(x, y) == /\ conn' = [conn EXCEPT ![c] = x, ![o] = y]
                         /\ SameBlocks(conn[c], x) /\ SameBlocks(conn[o], y)
<1>2. \/ conn' = [conn EXCEPT ![c] = Dialled, ![o] = handleStream]
      \/ conn' = [conn EXCEPT ![c] = Dialled, ![o] = Ended]
      \/ conn' = [conn EXCEPT ![c] = Failed, ![o] = Unused]
  BY ZenonT(60), <1>1 DEF Dial, o
<1>3. SameBlocks(conn[c], Dialled) /\ SameBlocks(conn[c], Failed)
  BY <1>1 DEF SameBlocks, ConnObjects
<1>4. SameBlocks(conn[o], handleStream) /\ SameBlocks(conn[o], Ended) /\ SameBlocks(conn[o], Unused)
  BY <1>1 DEF SameBlocks, handleStream, NewConn, ConnObjects
<1>5. \A k : SameBlocks(k, k)
  BY DEF SameBlocks
<1> HIDE DEF Dialled, Failed, Ended, Unused
<1>6. DOMAIN conn' = DOMAIN conn /\ \A d \in DOMAIN conn : SameBlocks(conn[d], conn'[d])
  <2>1. Ways(Dialled, handleStream) \/ Ways(Dialled, Ended) \/ Ways(Failed, Unused)
    BY <1>2, <1>3, <1>4
  <2> HIDE DEF Ways
  <2>2. PICK x, y : Ways(x, y)
    BY Zenon, <2>1
  <2>3. \A d \in DOMAIN conn : conn'[d] = conn[d] \/ (d = c /\ conn'[d] = x) \/ (d = o /\ conn'[d] = y)
    BY ZenonT(60), <2>2 DEF Ways
  <2> QED  BY ZenonT(60), <1>5, <2>2, <2>3 DEF Ways
<1>7. \A t \in tasks' : t \in tasks \/ t.m.code # "block"
  BY NoBlock DEF Dial
<1> QED  BY ZenonT(60), <1>1, <1>6, <1>7, QuietBlocks

\* The steps of a look-up, of the heart beat, of a read that fails and of a notification.
LEMMA ObjectBlocks ==
  ASSUME IInv, BlockInv, LeftOK(scene, left'), NEW c \in Ends,
         \/ PeerDiscover(c) \/ Timeout(c) \/ PeerDiscoverFails(c) \/ StartBeat(c) \/ ReadFails(c)
         \/ Teardown(c) \/ CloseCollected(c)
  PROVE  BlockInv'
<1> DEFINE k == conn[c]
<1>0. k \in ConnObjects /\ UNCHANGED <<scene, net, wire>>
  BY ZenonT(60), ObjectOK DEF PeerDiscover, Timeout, PeerDiscoverFails, StartBeat, ReadFails, Teardown,
     CloseCollected
<1>1. \A t \in tasks' : t \in tasks \/ t.m.code # "block"
  BY NoBlock DEF PeerDiscover, Timeout, PeerDiscoverFails, StartBeat, ReadFails, Teardown,
     CloseCollected
<1> HIDE DEF k
<1>2. \E z : conn' = [conn EXCEPT ![c] = z] /\ SameBlocks(k, z)
  <2>1. CASE PeerDiscover(c)
    <3> DEFINE z == [k EXCEPT !.disc = "done", !.succeed = FALSE]
    <3>1. conn' = [conn EXCEPT ![c] = z]
      BY Zenon, <2>1 DEF PeerDiscover, k
    <3>2. SameBlocks(k, z)
      BY ZenonT(60), <1>0 DEF SameBlocks, ConnObjects
    <3> HIDE DEF z
    <3> QED  BY Zenon, <3>1, <3>2
  <2>2. CASE Timeout(c)
    <3> DEFINE z == [k EXCEPT !.disc = IF k.succeed THEN "late" ELSE "closing", !.closing = TRUE,
                              !.beat = IF @ = "on" THEN "off" ELSE @]
    <3>1. conn' = [conn EXCEPT ![c] = z]
      BY Zenon, <2>2 DEF Timeout, k
    <3>2. SameBlocks(k, z)
      BY ZenonT(60), <1>0 DEF SameBlocks, ConnObjects
    <3> HIDE DEF z
    <3> QED  BY Zenon, <3>1, <3>2
  <2>3. CASE PeerDiscoverFails(c)
    <3> DEFINE z == [k EXCEPT !.disc = "done"]
    <3>1. conn' = [conn EXCEPT ![c] = z]
      BY <2>3 DEF PeerDiscoverFails, k
    <3>2. SameBlocks(k, z)
      BY <1>0 DEF SameBlocks, ConnObjects
    <3> HIDE DEF z
    <3> QED  BY Zenon, <3>1, <3>2
  <2>4. CASE StartBeat(c)
    <3>1. conn' = [conn EXCEPT ![c] = Again(Beating(k))]
      BY <2>4 DEF StartBeat, k
    <3>2. SameBlocks(k, Again(Beating(k)))
      BY ZenonT(60), <1>0 DEF SameBlocks, ConnObjects, Again, Beating
    <3> QED  BY Zenon, <3>1, <3>2
  <2>5. CASE ReadFails(c)
    <3> DEFINE z == [k EXCEPT !.pc = "exit"]
    <3>1. conn' = [conn EXCEPT ![c] = z]
      BY <2>5 DEF ReadFails, k
    <3>2. SameBlocks(k, z)
      BY ZenonT(60), <1>0 DEF SameBlocks, ConnObjects
    <3> HIDE DEF z
    <3> QED  BY Zenon, <3>1, <3>2
  <2>6. CASE Teardown(c)
    <3> DEFINE z == [Closed(k) EXCEPT !.pc = "over"]
    <3>1. conn' = [conn EXCEPT ![c] = z]
      BY <2>6 DEF Teardown, k
    <3>2. SameBlocks(k, z)
      BY <1>0 DEF SameBlocks, ConnObjects, Closed
    <3> HIDE DEF z
    <3> QED  BY Zenon, <3>1, <3>2
  <2>7. CASE CloseCollected(c)
    <3>1. conn' = [conn EXCEPT ![c] = Closed(k)]
      BY <2>7 DEF CloseCollected, k
    <3>2. SameBlocks(k, Closed(k))
      BY <1>0 DEF SameBlocks, ConnObjects, Closed
    <3> QED  BY Zenon, <3>1, <3>2
  <2> QED  BY ZenonT(60), <2>1, <2>2, <2>3, <2>4, <2>5, <2>6, <2>7
<1> QED  BY Zenon, <1>0, <1>1, <1>2, QuietObject DEF k

\* A push that has put its message.
LEMMA NotifyBlocks ==
  ASSUME IInv, BlockInv, LeftOK(scene, left'), NEW t \in tasks, Notify(t)
  PROVE  BlockInv'
<1> DEFINE k == [conn[t.c] EXCEPT !.notify = ~conn[t.c].closed]
<1>0. t.c \in Ends
  BY DEF IInv, Pushes, Ends
<1>1. conn[t.c] \in ConnObjects
  BY <1>0, ObjectOK
<1>2. /\ UNCHANGED <<scene, wire, net>> /\ tasks' = tasks \ {t}
      /\ conn' = [conn EXCEPT ![t.c] = Finish(k, t, TRUE)]
  BY DEF Notify
<1>3. k \in ConnObjects /\ k.queues = conn[t.c].queues /\ k.pc = conn[t.c].pc /\ k.msg = conn[t.c].msg
  BY Zenon, <1>1 DEF ConnObjects
<1> HIDE DEF k
<1>4. SameBlocks(conn[t.c], Finish(k, t, TRUE))
  <2> DEFINE z == Finish(k, t, TRUE)
  <2>0. /\ \A f \in DOMAIN k \ {"pc"} : z[f] = k[f]
        /\ IF t.by = "loop" THEN z.pc \in {"read", "exit"} ELSE z = k
    BY ZenonT(60), <1>3, FinishOK
  <2> HIDE DEF z
  <2>1. z.queues = k.queues /\ z.msg = k.msg
    BY <1>3, <2>0 DEF ConnObjects
  <2>2. z.pc = "notify" => k.pc = "notify"
    BY <2>0
  <2> QED  BY Zenon, <1>3, <2>1, <2>2 DEF SameBlocks, z
<1> QED  BY Zenon, <1>0, <1>2, <1>4, QuietObject

\* Collect, Reset and heartBeatService
LEMMA SweepBlocks ==
  ASSUME IInv, BlockInv, LeftOK(scene, left'),
         \/ \E n \in Nodes : Collect(n)
         \/ \E s \in Streams : Reset(s)
         \/ \E c \in Ends : heartBeatService(c)
  PROVE  BlockInv'
<1>1. UNCHANGED <<scene, conn, wire, net>> /\ \A t \in tasks' : t \in tasks \/ t.m.code # "block"
  BY Zenon, NoBlock DEF Collect, Reset, heartBeatService
<1>2. \A d \in DOMAIN conn : SameBlocks(conn[d], conn'[d])
  BY <1>1 DEF SameBlocks
<1> QED  BY <1>1, <1>2, QuietBlocks

-----------------------------------------------------------------------------
(* The actions that carry blocks.                                          *)

\* Run: the message that was queued is on the wire.
LEMMA RunBlocks ==
  ASSUME IInv, BlockInv, LeftOK(scene, left'), NEW c \in Ends, Run(c)
  PROVE  BlockInv'
<1> DEFINE k == conn[c]
           filled == {p \in DOMAIN k.queues : k.queues[p] # <<>>}
<1>0. k \in ConnObjects /\ UNCHANGED <<scene, net, tasks>>
  BY SMTT(60), ObjectOK DEF Run
<1>1. CASE /\ filled # {}
           /\ conn' = [conn EXCEPT ![c].queues[Max(filled)] = Tail(@)]
           /\ wire' = IF k.open /\ c[1] \notin reset
                      THEN [wire EXCEPT ![Other(c)] = Append(@, Head(k.queues[Max(filled)]))] ELSE wire
  <2>0. /\ DOMAIN k.queues = Low..Top /\ \A p \in Low..Top : k.queues[p] \in Seq(Sent)
    BY Zenon, <1>0 DEF ConnObjects
  <2> HIDE DEF k
  <2>1. Max(filled) \in filled
    <3>1. filled \in SUBSET {0, 1, 2}
      BY <2>0 DEF Low, Top
    <3>2. filled \in {{0}, {1}, {2}, {0, 1}, {0, 2}, {1, 2}, {0, 1, 2}}
      BY <1>1, <3>1
    <3> HIDE DEF filled
    <3>3. \E x \in filled : \A y \in filled : x >= y
      BY <3>2
    <3> QED  BY <3>3 DEF Max
  <2> DEFINE p == Max(filled)
             q == k.queues[p]
             x == Head(q)
             z == [k EXCEPT !.queues = [k.queues EXCEPT ![p] = Tail(q)]]
  <2>2. p \in Low..Top /\ q \in Seq(Sent) /\ q # <<>>
    BY Zenon, <2>0, <2>1
  <2>3. conn' = [conn EXCEPT ![c] = z]
    BY ZenonT(60), <1>1 DEF k
  <2>4. wire' = wire \/ wire' = [wire EXCEPT ![Other(c)] = Append(@, x)]
    BY <1>1
  <2> HIDE DEF filled, p, q, x
  <2>5. x \in Range(q) /\ Range(Tail(q)) \subseteq Range(q) /\ x \in Sent
    BY <2>2, OnceTail DEF x
  <2>6. /\ z.pc = k.pc /\ z.msg = k.msg
        /\ \A i \in Low..Top : Range(z.queues[i]) \subseteq Range(k.queues[i])
    BY ZenonT(60), <1>0, <2>0, <2>2, <2>5 DEF ConnObjects, q, k
  <2> HIDE DEF z
  <2>7. x \in Queued(k)
    BY <2>2, <2>5 DEF Queued, q
  <2>8. Queued(z) \subseteq Queued(k)
    BY ZenonT(60), <2>6 DEF Queued
  <2>9. Arrives(scene, net, x, Peer2(scene, c))
    BY <2>7 DEF BlockInv, Ends, k
  <2>10. Other(c) \in Ends /\ Peer1(scene, Other(c)) = Peer2(scene, c)
    <3>1. Other(c) \in Ends /\ NodeOf(Other(c)) = Peer1(scene, Other(c)) /\ RemotePeer(c) = Peer2(scene, c)
      BY Zenon, EndsOK
    <3> QED  BY <3>1 DEF RemotePeer
  <2>11. ASSUME NEW d \in DOMAIN conn, NEW m \in Range(wire'[d])
         PROVE  m \in Range(wire[d]) \/ Arrives(scene, net', m, Peer1(scene, d))
    <3>1. CASE wire'[d] = wire[d]
      BY Zenon, <2>11, <3>1
    <3>2. CASE d = Other(c) /\ wire'[d] = Append(wire[d], x)
      <4>1. wire[d] \in Seq(Sent)
        BY DEF IInv
      <4>2. Range(Append(wire[d], x)) = Range(wire[d]) \cup {x}
        BY <2>5, <4>1, OnceAppend
      <4> QED  BY ZenonT(60), <1>0, <2>9, <2>10, <2>11, <3>2, <4>2
    <3> QED  BY Zenon, <2>4, <3>1, <3>2 DEF IInv
  <2>12. DOMAIN conn' = DOMAIN conn /\ \A d \in DOMAIN conn : conn'[d] = conn[d] \/ (d = c /\ conn'[d] = z)
    BY SMTT(30), <2>3
  <2>13. LoopsOK(scene, net', conn')
    <3>1. \A d \in DOMAIN conn : conn'[d].pc = "notify" => conn[d].pc = "notify" /\ conn'[d].msg = conn[d].msg
      BY <2>6, <2>12 DEF k
    <3>2. LoopsOK(scene, net, conn) /\ net' = net
      BY Zenon, <1>0 DEF BlockInv
    <3> QED  BY Zenon, <2>12, <3>1, <3>2, LoopsStay
  <2>14. Grows(net, net') /\ \A n \in DOMAIN net : NodeBlocks(scene, net', n)
    BY ZenonT(60), <1>0 DEF Grows, BlockInv
  <2>15. \A d \in DOMAIN conn : Queued(conn'[d]) \subseteq Queued(conn[d])
    BY <2>8, <2>12 DEF k
  <2> QED  BY SMTT(30), <1>0, <2>11, <2>12, <2>13, <2>14, <2>15, TaskNode, Conveys
<1>2. CASE UNCHANGED wire /\ conn' = [conn EXCEPT ![c] = [k EXCEPT !.writer = "search", !.notify = FALSE]]
  <2>1. SameBlocks(k, [k EXCEPT !.writer = "search", !.notify = FALSE])
    BY <1>0 DEF SameBlocks, ConnObjects
  <2> QED  BY Zenon, <1>0, <1>2, <2>1, QuietObject
<1>3. ASSUME NEW w, UNCHANGED wire, conn' = [conn EXCEPT ![c] = [k EXCEPT !.writer = w]]
      PROVE  BlockInv'
  <2>1. SameBlocks(k, [k EXCEPT !.writer = w])
    BY ZenonT(60), <1>0 DEF SameBlocks, ConnObjects
  <2> QED  BY Zenon, <1>0, <1>3, <2>1, QuietObject
<1> QED  BY ZenonT(60), <1>1, <1>2, <1>3 DEF Run

\* A node that passes block b on has received it, or sends it.
Owns(sc, nt, b, n) ==
  \/ b \in DOMAIN nt[n].times /\ Goes(sc, nt, b, n, nt[n].times[b])
  \/ b = n /\ n \in sc.sends /\ n \notin DOMAIN nt[n].times

\* Such a node is near the sender.
LEMMA OwnsNear ==
  ASSUME NEW sc \in Scenes, NEW nt, NEW n \in NodesOf(sc), NEW b, Owns(sc, nt, b, n)
  PROVE  b \in sc.sends /\ n \in Near[sc][b][RelayTimes + 1]
<1>0. RelayTimes \in Nat
  BY Zenon, NetAssumption
<1>1. CASE Goes(sc, nt, b, n, nt[n].times[b])
  <2> DEFINE i == RelayTimes + 1 - nt[n].times[b]
  <2>1. b \in sc.sends /\ n \in Near[sc][b][i] /\ nt[n].times[b] \in 0..RelayTimes
    BY Zenon, <1>1 DEF Goes
  <2>2. i \in 0..(RelayTimes + 1)
    BY <1>0, <2>1
  <2> HIDE DEF i
  <2> QED  BY Zenon, <2>1, <2>2, NearGrows
<1>2. CASE b = n /\ n \in sc.sends
  <2>1. 0 \in 0..(RelayTimes + 1)
    BY SMTT(30), <1>0
  <2> QED  BY ZenonT(60), <1>2, <2>1, NearGrows, NearSelf
<1> QED  BY <1>1, <1>2 DEF Owns

\* What such a node sends is in time for the other end of the connection.
LEMMA ReservedArrives ==
  ASSUME IInv, NEW c \in Ends, NEW m \in Sent, NeedToRelay(NodeOf(c), m),
         m.code = "block" => Owns(scene, net, m.body, NodeOf(c)), NEW nt, Grows(net, nt),
         m.code = "block" => m.body \in nt[NodeOf(c)].seen
  PROVE  Arrives(scene, nt, Reserved(NodeOf(c), m), Peer2(scene, c))
<1> DEFINE n == NodeOf(c)
           x == Reserved(n, m)
           b == m.body
           old == net[n].times[b]
<1>0. RelayTimes \in Nat /\ n \in DOMAIN net /\ Peer2(scene, c) = RemotePeer(c) /\ scene \in Scenes
  BY ZenonT(60), NetAssumption, TaskNode, EndsOK DEF IInv
<1>1. CASE m.code # "block"
  BY <1>1 DEF Reserved, Arrives
<1>2. CASE m.code = "block" /\ b \in DOMAIN net[n].times /\ Goes(scene, net, b, n, old)
  <2>1. old \in 0..RelayTimes /\ old > 0
    BY <1>2 DEF Goes, NeedToRelay
  <2>2. x.code = "block" /\ x.body = b /\ x.times = old - 1
    <3>1. x = [m EXCEPT !.times = old - 1]
      BY ZenonT(60), <1>2 DEF Reserved, TimesLeft
    <3> QED  BY <1>2, <3>1 DEF Sent, Messages
  <2>3. /\ b \in scene.sends /\ n \in Near[scene][b][RelayTimes + 1 - old]
        /\ b \in DOMAIN nt /\ b \in nt[b].seen
    BY Zenon, <1>2 DEF Goes, Grows
  <2> HIDE DEF x, old, b
  <2>4. /\ old - 1 \in 0..RelayTimes /\ RelayTimes + 1 - old \in 0..RelayTimes
        /\ (RelayTimes + 1 - old) + 1 = RelayTimes + 1 - (old - 1)
    BY <1>0, <2>1
  <2>5. RemotePeer(c) \in Near[scene][b][(RelayTimes + 1 - old) + 1]
    BY Zenon, <2>3, <2>4, NearNext
  <2>6. Goes(scene, nt, b, RemotePeer(c), old - 1)
    BY ZenonT(60), <2>3, <2>4, <2>5 DEF Goes
  <2> QED  BY ZenonT(60), <1>0, <2>2, <2>6 DEF Arrives, x
<1>3. CASE m.code = "block" /\ b = n /\ n \in scene.sends /\ n \notin DOMAIN net[n].times
  <2>1. x.code = "block" /\ x.body = b /\ x.times = RelayTimes
    BY ZenonT(60), <1>3 DEF Reserved, TimesLeft, Sent, Messages
  <2>2. 0 \in 0..RelayTimes /\ 0 + 1 = RelayTimes + 1 - RelayTimes /\ RelayTimes \in 0..RelayTimes
    BY SMTT(30), <1>0
  <2> HIDE DEF x
  <2>3. n \in Near[scene][b][0]
    BY Zenon, <1>0, <1>3, NearSelf DEF IInv
  <2>4. RemotePeer(c) \in Near[scene][b][0 + 1]
    BY Zenon, <1>3, <2>2, <2>3, NearNext
  <2>5. b \in DOMAIN nt /\ b \in nt[b].seen
    BY ZenonT(60), <1>0, <1>3 DEF Grows
  <2>6. Goes(scene, nt, b, RemotePeer(c), RelayTimes)
    BY ZenonT(60), <1>3, <2>2, <2>4, <2>5 DEF Goes
  <2> QED  BY ZenonT(60), <1>0, <2>1, <2>6 DEF Arrives, x
<1> QED  BY SMTT(30), <1>1, <1>2, <1>3 DEF Owns

\* reserve adds the block to what the node has seen and changes nothing else at the node.
LEMMA RememberBlocks ==
  ASSUME IInv, BlockInv, NEW n \in DOMAIN net, NEW m,
         m.code = "block" => Owns(scene, net, m.body, n),
         net' = [net EXCEPT ![n] = Remember(net[n], m)]
  PROVE  /\ Grows(net, net') /\ \A x \in DOMAIN net : NodeBlocks(scene, net', x)
         /\ \A x \in DOMAIN net : net'[x].times = net[x].times /\ Held(net'[x]) = Held(net[x])
         /\ m.code = "block" => m.body \in net'[n].seen
<1> DEFINE r == net[n]
<1>1. NodeOK(r) /\ scene \in Scenes
  BY DEF IInv
<1>2. /\ DOMAIN net' = DOMAIN net /\ \A x \in DOMAIN net \ {n} : net'[x] = net[x]
      /\ net'[n].seen = r.seen \cup (IF m.code = "block" THEN {m.body} ELSE {})
      /\ net'[n].times = r.times /\ net'[n].receiveCh = r.receiveCh
      /\ net'[n].handler = r.handler /\ net'[n].known = r.known
  BY ZenonT(60), <1>1 DEF Remember, NodeOK
<1> HIDE DEF r
<1>3. Grows(net, net')
  BY ZenonT(60), <1>2 DEF Grows, r
<1>4. \A x \in DOMAIN net : NodeBlocks(scene, net, x)
  BY ZenonT(60) DEF BlockInv
<1>5. \A b \in net'[n].seen : b \in r.seen \/ (b \in scene.sends /\ n \in Near[scene][b][RelayTimes + 1])
  BY SMTT(60), <1>1, <1>2, OwnsNear DEF IInv
<1>6. NodeBlocks(scene, net', n)
  BY ZenonT(60), <1>2, <1>3, <1>4, <1>5, NodeGrows DEF r
<1>7. ASSUME NEW x \in DOMAIN net \ {n} PROVE NodeBlocks(scene, net', x)
  BY ZenonT(60), <1>2, <1>3, <1>4, NodeGrows
<1>8. \A x \in DOMAIN net : net'[x].times = net[x].times /\ Held(net'[x]) = Held(net[x])
  BY ZenonT(60), <1>2 DEF Held, r
<1>9. m.code = "block" => m.body \in net'[n].seen
  BY <1>2
<1> QED  BY ZenonT(60), <1>3, <1>6, <1>7, <1>8, <1>9

\* Put: the node is near enough to send the block, and its peer to receive it.
LEMMA PutBlocks ==
  ASSUME IInv, BlockInv, LeftOK(scene, left'), NEW t \in tasks, Put(t)
  PROVE  BlockInv'
<1> DEFINE c == t.c
           n == NodeOf(c)
           k == conn[c]
           m == t.m
           x == Reserved(n, m)
           p == Priority(m)
           q == Append(k.queues[p], x)
<1>0. /\ c \in Ends /\ n \in DOMAIN net /\ m \in Sent /\ k \in ConnObjects
      /\ Peer1(scene, c) = n /\ NodeOK(net[n])
  <2>1. c \in Ends /\ m \in Sent
    BY ZenonT(60) DEF IInv, Pushes, Ends
  <2> QED  BY ZenonT(60), <2>1, TaskNode, EndsOK, ObjectOK DEF IInv
<1>1. UNCHANGED <<scene, wire>>
  BY ZenonT(60) DEF Put
<1>2. CASE ~NeedToRelay(n, m)
  <2>1. tasks' = tasks \ {t} /\ UNCHANGED <<conn, net>>
    BY Zenon, <1>2 DEF Put
  <2>2. \A d \in DOMAIN conn : SameBlocks(conn[d], conn'[d])
    BY Zenon, <2>1 DEF SameBlocks
  <2> QED  BY ZenonT(60), <1>1, <2>1, <2>2, QuietBlocks
<1>3. CASE NeedToRelay(n, m)
  <2>1. net' = [net EXCEPT ![n] = Remember(net[n], m)]
    BY Zenon, <1>3 DEF Put
  <2>2. \/ tasks' = tasks \ {t} /\ conn' = [conn EXCEPT ![c] = Finish(k, t, FALSE)]
        \/ /\ tasks' = (tasks \ {t}) \cup {[t EXCEPT !.stage = "notify"]}
           /\ conn' = [conn EXCEPT ![c] = [k EXCEPT !.queues = [k.queues EXCEPT ![p] = q]]]
    BY ZenonT(60), <1>3 DEF Put
  <2>3. m.code = "block" => Owns(scene, net, m.body, n)
    <3>1. TaskOK(scene, net, t) /\ NodeBlocks(scene, net, n)
      BY <1>0 DEF BlockInv
    <3> QED  BY ZenonT(60), <1>0, <3>1 DEF TaskOK, NodeBlocks, Owns
  <2>4. /\ Grows(net, net') /\ \A y \in DOMAIN net : NodeBlocks(scene, net', y)
        /\ \A y \in DOMAIN net : net'[y].times = net[y].times /\ Held(net'[y]) = Held(net[y])
        /\ m.code = "block" => m.body \in net'[n].seen
    BY Zenon, <1>0, <2>1, <2>3, RememberBlocks
  <2>5. Arrives(scene, net', x, Peer2(scene, c))
    BY ZenonT(60), <1>0, <1>3, <2>3, <2>4, ReservedArrives
  <2>6. p \in Low..Top /\ x \in Sent
    BY ZenonT(60), <1>0, <1>3, ReservedOK
  <2>7. [t EXCEPT !.stage = "notify"].c = t.c /\ [t EXCEPT !.stage = "notify"].m = t.m
    BY DEF IInv, Pushes
  <2>8. \A u \in tasks' : \E v \in tasks : v.c = u.c /\ v.m = u.m
    BY ZenonT(60), <2>2, <2>7
  <2>9. \E z : /\ conn' = [conn EXCEPT ![c] = z] /\ z.msg = k.msg
               /\ z.pc = "notify" => k.pc = "notify"
               /\ Queued(z) \subseteq Queued(k) \cup {x}
    <3> DEFINE z1 == Finish(k, t, FALSE)
               z2 == [k EXCEPT !.queues = [k.queues EXCEPT ![p] = q]]
               Fits(z) == /\ conn' = [conn EXCEPT ![c] = z] /\ z.msg = k.msg
                          /\ z.pc = "notify" => k.pc = "notify"
                          /\ Queued(z) \subseteq Queued(k) \cup {x}
    <3>1. CASE conn' = [conn EXCEPT ![c] = z1]
      <4> HIDE DEF k
      <4>1. /\ \A f \in DOMAIN k \ {"pc"} : z1[f] = k[f]
            /\ IF t.by = "loop" THEN z1.pc \in {"read", "exit"} ELSE z1 = k
        BY ZenonT(60), <1>0, FinishOK
      <4> HIDE DEF z1
      <4>2. z1.queues = k.queues /\ z1.msg = k.msg /\ (z1.pc = "notify" => k.pc = "notify")
        BY <1>0, <4>1 DEF ConnObjects
      <4>3. Queued(z1) = Queued(k)
        BY <4>2 DEF Queued
      <4>4. Fits(z1)
        BY <3>1, <4>2, <4>3
      <4> HIDE DEF Fits
      <4>5. \E z : Fits(z)
        BY Zenon, <4>4
      <4> QED  BY Zenon, <4>5 DEF Fits
    <3>2. CASE conn' = [conn EXCEPT ![c] = z2]
      <4>1. k.queues[p] \in Seq(Sent)
        BY ZenonT(60), <1>0, <2>6 DEF ConnObjects
      <4>2. Range(q) = Range(k.queues[p]) \cup {x}
        BY <2>6, <4>1, OnceAppend
      <4> HIDE DEF q, x, p
      <4>3. /\ z2.pc = k.pc /\ z2.msg = k.msg
            /\ \A i \in Low..Top : Range(z2.queues[i]) \subseteq Range(k.queues[i]) \cup {x}
        BY ZenonT(60), <1>0, <2>6, <4>2 DEF ConnObjects
      <4> HIDE DEF z2
      <4>4. Queued(z2) \subseteq Queued(k) \cup {x}
        BY ZenonT(60), <4>3 DEF Queued
      <4>5. Fits(z2)
        BY SMTT(30), <3>2, <4>3, <4>4
      <4> HIDE DEF Fits
      <4>6. \E z : Fits(z)
        BY Zenon, <4>5
      <4> QED  BY Zenon, <4>6 DEF Fits
    <3> QED  BY Zenon, <2>2, <3>1, <3>2
  <2> HIDE DEF c, n, k, m, x, p, q
  <2>10. PICK z : /\ conn' = [conn EXCEPT ![c] = z] /\ z.msg = k.msg
                  /\ z.pc = "notify" => k.pc = "notify"
                  /\ Queued(z) \subseteq Queued(k) \cup {x}
    BY Zenon, <2>9
  <2>11. DOMAIN conn' = DOMAIN conn
         /\ \A d \in DOMAIN conn : conn'[d] = conn[d] \/ (d = c /\ conn'[d] = z)
    BY Zenon, <2>10
  <2>12. LoopsOK(scene, net', conn')
    BY Zenon, <2>4, <2>10, <2>11, LoopsKeep DEF BlockInv, k
  <2>13. \A d \in DOMAIN conn : \A y \in Queued(conn'[d]) :
           y \in Queued(conn[d]) \/ Arrives(scene, net', y, Peer2(scene, d))
    BY Zenon, <2>5, <2>10, <2>11 DEF k
  <2>14. \A d \in DOMAIN conn : wire'[d] = wire[d]
    BY <1>1
  <2> QED  BY ZenonT(60), <1>1, <2>4, <2>8, <2>11, <2>12, <2>13, <2>14, TaskNode, Conveys
<1> QED  BY ZenonT(60), <1>2, <1>3
=============================================================================

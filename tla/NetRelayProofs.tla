--------------------------- MODULE NetRelayProofs ---------------------------
(***************************************************************************)
(* The theorem that a block travels no further than RelayTimes + 1 streams *)
(* and is handed to the handlers of a node at most once, for any network,  *)
(* any number of senders and any faults.                                   *)
(***************************************************************************)
EXTENDS NetBlockProofs

-----------------------------------------------------------------------------
(* The actions that take blocks from the wire to the handlers.             *)

\* Read: what becomes of the object, of the wire and of the pushes.
LEMMA ReadObject ==
  ASSUME IInv, NEW c \in Ends, Read(c)
  PROVE  LET k == conn[c]
             m == Head(wire[c])
             n == NodeOf(c)
         IN /\ UNCHANGED scene /\ wire' = [wire EXCEPT ![c] = Tail(wire[c])]
            /\ wire[c] \in Seq(Sent) /\ wire[c] # <<>> /\ m \in Sent /\ k.pc = "read"
            /\ \A t \in tasks' : t \in tasks \/ t.m.code # "block"
            /\ DOMAIN conn' = DOMAIN conn /\ \A d \in DOMAIN conn \ {c} : conn'[d] = conn[d]
            /\ conn'[c].queues = k.queues
            /\ conn'[c].pc = "notify" =>
                 conn'[c].msg = m /\ m.code = "block" /\ ~Duplicate(net[n], m)
            /\ net' = IF Duplicate(net[n], m) THEN net
                      ELSE [net EXCEPT ![n] = Noted(Remember(net[n], m), m)]
<1> DEFINE k == conn[c]
           m == Head(wire[c])
           n == NodeOf(c)
<1>1. /\ UNCHANGED scene /\ wire' = [wire EXCEPT ![c] = Tail(wire[c])]
      /\ wire[c] # <<>> /\ k.pc = "read"
      /\ net' = IF Duplicate(net[n], m) THEN net
                ELSE [net EXCEPT ![n] = Noted(Remember(net[n], m), m)]
  BY DEF Read
<1>2. wire[c] \in Seq(Sent) /\ k \in ConnObjects
  BY Zenon, ObjectOK DEF IInv, Ends
<1>3. m \in Sent
  BY <1>1, <1>2
<1>4. m.code \in {"ping", "pong", "discover", "reply", "block"} /\ k.est \in BOOLEAN
  BY <1>2, <1>3 DEF Sent, Messages, ConnObjects
<1>5. /\ \A pc \in {"push", "beat"} : [Established(k) EXCEPT !.pc = pc].queues = k.queues
                                      /\ [Established(k) EXCEPT !.pc = pc].pc = pc
      /\ \A pc \in {"push", "exit"} : [k EXCEPT !.pc = pc].queues = k.queues
                                      /\ [k EXCEPT !.pc = pc].pc = pc
      /\ Again(k).queues = k.queues /\ Again(k).pc # "notify"
      /\ [k EXCEPT !.pc = "notify", !.msg = m].queues = k.queues
      /\ [k EXCEPT !.pc = "notify", !.msg = m].msg = m
  BY <1>2 DEF ConnObjects, Established, Again
<1> DEFINE Ok(z) == z.queues = k.queues
                    /\ (z.pc = "notify" => z.msg = m /\ m.code = "block" /\ ~Duplicate(net[n], m))
<1>6. \E z, todo : /\ conn' = [conn EXCEPT ![c] = z] /\ tasks' = tasks \cup todo
                   /\ \A t \in todo : t.m.code # "block"
                   /\ Ok(z)
  <2>0. /\ Ok(Again(k)) /\ Ok([Established(k) EXCEPT !.pc = "push"])
        /\ Ok([Established(k) EXCEPT !.pc = "beat"])
        /\ Ok([k EXCEPT !.pc = "exit"]) /\ Ok([k EXCEPT !.pc = "push"])
        /\ (m.code = "block" /\ ~Duplicate(net[n], m) => Ok([k EXCEPT !.pc = "notify", !.msg = m]))
    BY <1>5
  <2> DEFINE P(z, todo) == /\ conn' = [conn EXCEPT ![c] = z] /\ tasks' = tasks \cup todo
                           /\ \A t \in todo : t.m.code # "block"
                           /\ Ok(z)
             Pong == {Task(c, "loop", Message("pong"))}
             Rep == {Task(c, "loop", Message("reply"))}
  <2>1. \A t \in Pong \cup Rep : t.m.code # "block"
    BY NoBlock
  <2>2. \/ conn' = [conn EXCEPT ![c] = Again(k)] /\ tasks' = tasks
        \/ conn' = [conn EXCEPT ![c] = [Established(k) EXCEPT !.pc = "push"]] /\ tasks' = tasks \cup Pong
        \/ conn' = [conn EXCEPT ![c] = [Established(k) EXCEPT !.pc = "beat"]] /\ tasks' = tasks
        \/ conn' = [conn EXCEPT ![c] = [k EXCEPT !.pc = "exit"]] /\ tasks' = tasks
        \/ conn' = [conn EXCEPT ![c] = [k EXCEPT !.pc = "push"]] /\ tasks' = tasks \cup Rep
        \/ /\ conn' = [conn EXCEPT ![c] = [k EXCEPT !.pc = "notify", !.msg = m]] /\ tasks' = tasks
           /\ m.code = "block" /\ ~Duplicate(net[n], m)
    BY Zenon, ReadCases
  <2>3. tasks = tasks \cup {}
    OBVIOUS
  <2> HIDE DEF Ok, Pong, Rep
  <2>4. \/ P(Again(k), {}) \/ P([Established(k) EXCEPT !.pc = "push"], Pong)
        \/ P([Established(k) EXCEPT !.pc = "beat"], {}) \/ P([k EXCEPT !.pc = "exit"], {})
        \/ P([k EXCEPT !.pc = "push"], Rep) \/ P([k EXCEPT !.pc = "notify", !.msg = m], {})
    BY Zenon, <2>0, <2>1, <2>2, <2>3
  <2>5. \E z, todo : P(z, todo)
    <3> HIDE DEF P
    <3> QED  BY <2>4
  <2> QED  BY Zenon, <2>5
<1>7. PICK z, todo : /\ conn' = [conn EXCEPT ![c] = z] /\ tasks' = tasks \cup todo
                     /\ \A t \in todo : t.m.code # "block"
                     /\ Ok(z)
  BY ZenonT(60), <1>6
<1>8. DOMAIN conn' = DOMAIN conn /\ conn'[c] = z /\ \A d \in DOMAIN conn \ {c} : conn'[d] = conn[d]
  BY <1>7 DEF Ends
<1> HIDE DEF k, m, n
<1>9. conn'[c].queues = k.queues
      /\ (conn'[c].pc = "notify" => conn'[c].msg = m /\ m.code = "block" /\ ~Duplicate(net[n], m))
  BY <1>7, <1>8
<1>10. \A t \in tasks' : t \in tasks \/ t.m.code # "block"
  BY <1>7
<1> QED  BY ZenonT(60), <1>1, <1>2, <1>3, <1>8, <1>9, <1>10 DEF k, m, n

\* A block that is read for the first time is not the node's own, is near enough, and is
\* nowhere at this node yet.
LEMMA ReadBlocks ==
  ASSUME IInv, BlockInv, LeftOK(scene, left'), NEW c \in Ends, Read(c)
  PROVE  BlockInv'
<1> DEFINE k == conn[c]
           m == Head(wire[c])
           b == m.body
           n == NodeOf(c)
           r == net[n]
<1>0. /\ UNCHANGED scene /\ wire' = [wire EXCEPT ![c] = Tail(wire[c])]
      /\ wire[c] \in Seq(Sent) /\ wire[c] # <<>> /\ m \in Sent /\ k.pc = "read"
      /\ \A t \in tasks' : t \in tasks \/ t.m.code # "block"
      /\ DOMAIN conn' = DOMAIN conn /\ \A d \in DOMAIN conn \ {c} : conn'[d] = conn[d]
      /\ conn'[c].queues = k.queues
      /\ conn'[c].pc = "notify" =>
           conn'[c].msg = m /\ m.code = "block" /\ ~Duplicate(net[n], m)
      /\ net' = IF Duplicate(net[n], m) THEN net
                ELSE [net EXCEPT ![n] = Noted(Remember(net[n], m), m)]
  BY ReadObject
<1>1. /\ n \in DOMAIN net /\ NodeOK(r) /\ Peer1(scene, c) = n /\ scene \in Scenes
      /\ RelayTimes \in Nat /\ m.code \in {"ping", "pong", "discover", "reply", "block"}
      /\ NodeBlocks(scene, net, n)
  BY ZenonT(60), <1>0, TaskNode, NetAssumption DEF IInv, Sent, Messages, BlockInv
<1>2. m \in Range(wire[c]) /\ Range(Tail(wire[c])) \subseteq Range(wire[c])
  BY Zenon, <1>0, OnceTail
<1>3. Arrives(scene, net, m, n)
  BY <1>1, <1>2 DEF BlockInv, Ends
<1>4. \A d \in DOMAIN conn : Range(wire'[d]) \subseteq Range(wire[d])
  BY ZenonT(60), <1>0, <1>2 DEF IInv
<1>5. \A d \in DOMAIN conn : Queued(conn'[d]) = Queued(conn[d])
  BY ZenonT(60), <1>0 DEF Queued
<1>6. \A t \in tasks' : TaskOK(scene, net', t) \/ \E u \in tasks : u.c = t.c /\ u.m = t.m
  BY <1>0 DEF TaskOK
<1> HIDE DEF k, m, n
<1>7. CASE Duplicate(net[n], m) \/ m.code # "block"
  <2>1. DOMAIN net' = DOMAIN net /\ \A x \in DOMAIN net : net'[x] = net[x]
    BY <1>0, <1>7 DEF Remember, Noted
  <2>2. Grows(net, net')
    BY <2>1 DEF Grows
  <2>3. \A x \in DOMAIN net : NodeBlocks(scene, net', x)
    BY Zenon, <2>1, <2>2, NodeGrows DEF BlockInv
  <2>4. LoopsOK(scene, net', conn')
    <3>1. \A d \in DOMAIN conn : conn'[d].pc = "notify" => conn[d].pc = "notify" /\ conn'[d].msg = conn[d].msg
      BY ZenonT(60), <1>0, <1>7
    <3> QED  BY Zenon, <1>0, <2>1, <3>1, LoopsKeep DEF BlockInv
  <2> QED  BY ZenonT(60), <1>0, <1>4, <1>5, <1>6, <2>2, <2>3, <2>4, TaskNode, Conveys
<1>8. CASE m.code = "block" /\ ~Duplicate(net[n], m)
  <2>1. b \notin r.seen /\ Goes(scene, net, b, n, m.times)
    BY SMTT(60), <1>3, <1>8 DEF Arrives, Duplicate
  <2>2. b # n /\ b \in scene.sends
    BY <2>1 DEF Goes
  <2>3. n \in Near[scene][b][RelayTimes + 1]
    <3>1. RelayTimes + 1 - m.times \in 0..(RelayTimes + 1)
      BY <1>1, <2>1 DEF Goes
    <3> QED  BY ZenonT(60), <1>1, <2>1, <3>1, NearGrows DEF Goes
  <2> HIDE DEF b, r
  <2>4. /\ DOMAIN net' = DOMAIN net /\ \A x \in DOMAIN net \ {n} : net'[x] = net[x]
        /\ net'[n].seen = r.seen \cup {b}
        /\ net'[n].times = [x \in DOMAIN r.times \cup {b} |-> IF x = b THEN m.times ELSE r.times[x]]
        /\ net'[n].receiveCh = r.receiveCh
        /\ net'[n].handler = r.handler /\ net'[n].known = r.known
    BY ZenonT(60), <1>0, <1>1, <1>8 DEF Remember, Noted, NodeOK, b, r
  <2>5. Grows(net, net')
    BY <1>1, <2>4 DEF Grows, r
  <2>6. NodeBlocks(scene, net', n)
    <3>1. ASSUME NEW x \in DOMAIN net'[n].times
          PROVE  x \in net'[n].seen /\ x # n /\ Goes(scene, net', x, n, net'[n].times[x])
      <4>1. CASE x = b
        BY Zenon, <2>1, <2>2, <2>4, <2>5, <4>1, GoesOn
      <4>2. CASE x # b
        <5>1. x \in DOMAIN r.times /\ net'[n].times[x] = r.times[x]
          BY Zenon, <2>4, <3>1, <4>2
        <5>2. x \in r.seen /\ x # n /\ Goes(scene, net, x, n, r.times[x])
          BY Zenon, <1>1, <5>1 DEF NodeBlocks, r
        <5> QED  BY Zenon, <2>4, <2>5, <5>1, <5>2, GoesOn
      <4> QED  BY <4>1, <4>2
    <3>2. \A x \in net'[n].seen : x \in scene.sends /\ n \in Near[scene][x][RelayTimes + 1]
      BY ZenonT(60), <1>1, <2>2, <2>3, <2>4 DEF NodeBlocks, r
    <3>3. DOMAIN r.times \subseteq DOMAIN net'[n].times
      BY <2>4
    <3> QED  BY ZenonT(60), <1>1, <2>4, <3>1, <3>2, <3>3 DEF NodeBlocks, r
  <2>7. \A x \in DOMAIN net : NodeBlocks(scene, net', x)
    <3>1. ASSUME NEW x \in DOMAIN net \ {n} PROVE NodeBlocks(scene, net', x)
      BY ZenonT(60), <2>4, <2>5, NodeGrows DEF BlockInv
    <3> QED  BY Zenon, <2>6, <3>1
  <2>8. b \notin Held(r) /\ b \notin DOMAIN r.times /\ Held(net'[n]) = Held(r) /\ b \in DOMAIN net'[n].times
    BY ZenonT(60), <1>1, <2>1, <2>2, <2>4 DEF NodeBlocks, Held, b, r
  <2>9. ASSUME NEW d \in DOMAIN conn, conn'[d].pc = "notify"
        PROVE  \/ d = c /\ conn'[d].msg.body = b
               \/ d # c /\ conn[d].pc = "notify" /\ conn'[d].msg = conn[d].msg
    BY Zenon, <1>0, <2>9 DEF b
  <2>10. ASSUME NEW d \in DOMAIN conn, d # c, conn[d].pc = "notify", Peer1(scene, d) = n
         PROVE  conn[d].msg.body # b
    BY Zenon, <2>8, <2>10 DEF BlockInv, LoopsOK, r
  <2>11. LoopsOK(scene, net', conn')
    <3> SUFFICES ASSUME NEW d \in DOMAIN conn, conn'[d].pc = "notify"
                 PROVE  LET x == Peer1(scene, d)
                            y == conn'[d].msg.body
                        IN /\ y \in DOMAIN net'[x].times /\ y \notin Held(net'[x])
                           /\ \A e \in DOMAIN conn :
                                conn'[e].pc = "notify" /\ Peer1(scene, e) = x /\ conn'[e].msg.body = y => e = d
      BY <1>0 DEF LoopsOK
    <3>1. CASE d = c
      BY Zenon, <1>1, <2>8, <2>9, <2>10, <3>1
    <3>2. CASE d # c
      <4> DEFINE x == Peer1(scene, d)
                 y == conn[d].msg.body
      <4>1. conn[d].pc = "notify" /\ conn'[d].msg.body = y /\ x \in DOMAIN net
        BY Zenon, <2>9, <3>2, TaskNode DEF Ends
      <4>2. /\ y \in DOMAIN net[x].times /\ y \notin Held(net[x])
            /\ \A e \in DOMAIN conn :
                 conn[e].pc = "notify" /\ Peer1(scene, e) = x /\ conn[e].msg.body = y => e = d
        BY Zenon, <4>1 DEF BlockInv, LoopsOK
      <4>3. x = n => y # b
        BY Zenon, <2>10, <3>2, <4>1
      <4>4. y \in DOMAIN net'[x].times /\ y \notin Held(net'[x])
        BY Zenon, <2>4, <2>5, <2>8, <4>1, <4>2 DEF Grows, r
      <4>5. ASSUME NEW e \in DOMAIN conn, conn'[e].pc = "notify", Peer1(scene, e) = x,
                   conn'[e].msg.body = y
            PROVE  e = d
        BY ZenonT(60), <1>1, <2>9, <4>2, <4>3, <4>5
      <4> QED  BY Zenon, <4>1, <4>4, <4>5
    <3> QED  BY Zenon, <3>1, <3>2
  <2> QED  BY Zenon, <1>0, <1>4, <1>5, <1>6, <2>5, <2>7, <2>11, TaskNode, Conveys
<1> QED  BY Zenon, <1>1, <1>7, <1>8 DEF m

\* A step that changes what one node holds.
LEMMA NodeMoves ==
  ASSUME IInv, BlockInv, UNCHANGED scene, LeftOK(scene, left'), NEW n \in DOMAIN net, NEW r,
         net' = [net EXCEPT ![n] = r], r.seen = net[n].seen, r.times = net[n].times,
         Range(r.receiveCh) \subseteq DOMAIN r.times, Range(r.handler) \subseteq DOMAIN r.times,
         r.known \subseteq DOMAIN r.times \cup {n}, Once(r.receiveCh), Once(r.handler),
         Range(r.receiveCh) \cap Range(r.handler) = {},
         r.known \cap (Range(r.receiveCh) \cup Range(r.handler)) = {}
  PROVE  Grows(net, net') /\ \A x \in DOMAIN net : NodeBlocks(scene, net', x)
<1>1. DOMAIN net' = DOMAIN net /\ net'[n] = r /\ \A x \in DOMAIN net \ {n} : net'[x] = net[x]
  OBVIOUS
<1>2. Grows(net, net')
  BY <1>1 DEF Grows
<1>3. NodeBlocks(scene, net, n)
  BY DEF BlockInv
<1>4. \A b \in DOMAIN r.times : b \in r.seen /\ b # n /\ Goes(scene, net', b, n, r.times[b])
  BY Zenon, <1>2, <1>3, GoesOn DEF NodeBlocks
<1>5. \A b \in r.seen : b \in scene.sends /\ n \in Near[scene][b][RelayTimes + 1]
  BY <1>3 DEF NodeBlocks
<1>6. NodeBlocks(scene, net', n)
  BY Zenon, <1>1, <1>4, <1>5 DEF NodeBlocks
<1>7. ASSUME NEW x \in DOMAIN net \ {n} PROVE NodeBlocks(scene, net', x)
  BY Zenon, <1>1, <1>2, NodeGrows DEF BlockInv
<1> QED  BY Zenon, <1>2, <1>6, <1>7

\* HandOver: the block leaves the loop for the channel of the notifier.
LEMMA HandOverBlocks ==
  ASSUME IInv, BlockInv, LeftOK(scene, left'), NEW c \in Ends, HandOver(c)
  PROVE  BlockInv'
<1> DEFINE n == NodeOf(c)
           k == conn[c]
           b == k.msg.body
           r == net[n]
           r2 == [r EXCEPT !.receiveCh = Append(r.receiveCh, b)]
           z == Again([k EXCEPT !.msg = Message("none")])
<1>1. /\ UNCHANGED <<scene, wire, tasks>> /\ conn' = [conn EXCEPT ![c] = z]
      /\ net' = [net EXCEPT ![n] = r2] /\ k.pc = "notify"
  BY DEF HandOver
<1>2. k \in ConnObjects /\ n \in DOMAIN net /\ Peer1(scene, c) = n /\ NodeOK(r) /\ NodeBlocks(scene, net, n)
  BY Zenon, TaskNode, ObjectOK DEF IInv, BlockInv
<1>3. z.queues = k.queues /\ z.pc # "notify"
  BY <1>2 DEF ConnObjects, Again
<1>4. /\ b \in DOMAIN r.times /\ b \notin Held(r)
      /\ \A d \in DOMAIN conn : conn[d].pc = "notify" /\ Peer1(scene, d) = n /\ conn[d].msg.body = b => d = c
  BY Zenon, <1>1, <1>2 DEF BlockInv, LoopsOK, Ends
<1>5. b \in Bodies /\ r.receiveCh \in Seq(Bodies)
  BY <1>2 DEF ConnObjects, Messages, NodeOK
<1> HIDE DEF z, b, k, n, r
<1>6. /\ Range(Append(r.receiveCh, b)) = Range(r.receiveCh) \cup {b}
      /\ Once(r.receiveCh) /\ b \notin Range(r.receiveCh) => Once(Append(r.receiveCh, b))
  BY <1>5, OnceAppend
<1>7. /\ r2.receiveCh = Append(r.receiveCh, b) /\ r2.seen = r.seen /\ r2.times = r.times
      /\ r2.handler = r.handler /\ r2.known = r.known
  BY <1>2 DEF NodeOK
<1> HIDE DEF r2
<1>8. /\ Range(r2.receiveCh) = Range(r.receiveCh) \cup {b} /\ Once(r2.receiveCh)
      /\ b \notin r.known /\ b \notin Range(r.handler)
  BY ZenonT(60), <1>2, <1>4, <1>6, <1>7 DEF Held, NodeBlocks, r
<1>9. Grows(net, net') /\ \A x \in DOMAIN net : NodeBlocks(scene, net', x)
  <2>1. /\ Range(r2.receiveCh) \subseteq DOMAIN r2.times /\ Range(r2.handler) \subseteq DOMAIN r2.times
        /\ r2.known \subseteq DOMAIN r2.times \cup {n} /\ Once(r2.receiveCh) /\ Once(r2.handler)
        /\ Range(r2.receiveCh) \cap Range(r2.handler) = {}
        /\ r2.known \cap (Range(r2.receiveCh) \cup Range(r2.handler)) = {}
    BY ZenonT(60), <1>2, <1>4, <1>7, <1>8 DEF NodeBlocks, r
  <2> QED  BY ZenonT(60), <1>1, <1>2, <1>7, <2>1, NodeMoves DEF r
<1>10. /\ DOMAIN conn' = DOMAIN conn /\ conn'[c] = z /\ \A d \in DOMAIN conn \ {c} : conn'[d] = conn[d]
       /\ DOMAIN net' = DOMAIN net /\ net'[n] = r2 /\ \A x \in DOMAIN net \ {n} : net'[x] = net[x]
  BY Zenon, <1>1, <1>2 DEF Ends
<1>11. LoopsOK(scene, net', conn')
  <2> SUFFICES ASSUME NEW d \in DOMAIN conn, conn'[d].pc = "notify"
               PROVE  LET x == Peer1(scene, d)
                          y == conn'[d].msg.body
                      IN /\ y \in DOMAIN net'[x].times /\ y \notin Held(net'[x])
                         /\ \A e \in DOMAIN conn :
                              conn'[e].pc = "notify" /\ Peer1(scene, e) = x /\ conn'[e].msg.body = y => e = d
    BY <1>10 DEF LoopsOK
  <2> DEFINE x == Peer1(scene, d)
             y == conn[d].msg.body
  <2>1. d # c /\ conn[d].pc = "notify" /\ conn'[d].msg.body = y /\ x \in DOMAIN net
    BY Zenon, <1>3, <1>10, TaskNode DEF Ends
  <2>2. /\ y \in DOMAIN net[x].times /\ y \notin Held(net[x])
        /\ \A e \in DOMAIN conn :
             conn[e].pc = "notify" /\ Peer1(scene, e) = x /\ conn[e].msg.body = y => e = d
    BY ZenonT(60), <2>1 DEF BlockInv, LoopsOK
  <2>3. x = n => y # b
    BY <1>4, <2>1
  <2>4. y \in DOMAIN net'[x].times /\ y \notin Held(net'[x])
    BY ZenonT(60), <1>7, <1>8, <1>10, <2>1, <2>2, <2>3 DEF Held, r
  <2>5. ASSUME NEW e \in DOMAIN conn, conn'[e].pc = "notify", Peer1(scene, e) = x,
               conn'[e].msg.body = y
        PROVE  e = d
    BY ZenonT(60), <1>3, <1>10, <2>2, <2>5
  <2> QED  BY Zenon, <2>1, <2>4, <2>5
<1>12. \A d \in DOMAIN conn : Queued(conn'[d]) = Queued(conn[d])
  BY ZenonT(60), <1>3, <1>10 DEF Queued, k
<1> QED  BY ZenonT(60), <1>1, <1>9, <1>10, <1>11, <1>12, TaskNode, Conveys

\* Broadcast: the node's own block is not one that it has received.
LEMMA BroadcastBlocks ==
  ASSUME IInv, BlockInv, LeftOK(scene, left'), NEW n \in Nodes, Broadcast(n)
  PROVE  BlockInv'
<1> DEFINE r == net[n]
           r2 == [r EXCEPT !.known = r.known \cup {n}]
<1>1. /\ UNCHANGED <<scene, conn, wire>> /\ net' = [net EXCEPT ![n] = r2]
      /\ tasks' = tasks \cup Sends(n, Peers(n), n) /\ n \in left.sends
  BY DEF Broadcast
<1>2. n \in DOMAIN net /\ NodeOK(r) /\ NodeBlocks(scene, net, n) /\ n \in scene.sends /\ n \in Bodies
  BY Zenon, <1>1 DEF IInv, BlockInv, Nodes, LeftOK, Bodies
<1>3. /\ r2.receiveCh = r.receiveCh /\ r2.seen = r.seen /\ r2.times = r.times
      /\ r2.handler = r.handler /\ r2.known = r.known \cup {n}
  BY ZenonT(60), <1>2 DEF NodeOK
<1>4. n \notin DOMAIN r.times
  BY <1>2 DEF NodeBlocks
<1> HIDE DEF r, r2
<1>5. Grows(net, net') /\ \A x \in DOMAIN net : NodeBlocks(scene, net', x)
  <2>1. /\ Range(r2.receiveCh) \subseteq DOMAIN r2.times /\ Range(r2.handler) \subseteq DOMAIN r2.times
        /\ r2.known \subseteq DOMAIN r2.times \cup {n} /\ Once(r2.receiveCh) /\ Once(r2.handler)
        /\ Range(r2.receiveCh) \cap Range(r2.handler) = {}
        /\ r2.known \cap (Range(r2.receiveCh) \cup Range(r2.handler)) = {}
    BY ZenonT(60), <1>2, <1>3, <1>4 DEF NodeBlocks, r
  <2> QED  BY ZenonT(60), <1>1, <1>2, <1>3, <2>1, NodeMoves DEF r
<1>6. /\ net'[n] = r2 /\ \A x \in DOMAIN net \ {n} : net'[x] = net[x]
  BY ZenonT(60), <1>1, <1>2
<1>7. LoopsOK(scene, net', conn')
  <2>1. ASSUME NEW x \in DOMAIN net
        PROVE  /\ DOMAIN net[x].times \subseteq DOMAIN net'[x].times
               /\ \A b \in Held(net'[x]) : b \in Held(net[x]) \/ b \notin DOMAIN net[x].times
    BY Zenon, <1>3, <1>4, <1>6 DEF Held, r
  <2> QED  BY Zenon, <1>1, <2>1, LoopsKeep DEF BlockInv
<1>8. ASSUME NEW t \in Sends(n, Peers(n), n) PROVE TaskOK(scene, net', t)
  <2>1. t \in Pushes(Ends) /\ t.m = Block(n, 0) /\ NodeOf(t.c) = n
    BY Zenon, <1>2, SendsOK
  <2>2. t.m.body = n /\ t.c \in Ends /\ NodeOf(t.c) = n
    BY <2>1 DEF Block, Pushes
  <2> QED  BY ZenonT(60), <1>2, <2>2, EndsOK DEF TaskOK
<1>9. \A t \in tasks' : TaskOK(scene, net', t) \/ \E u \in tasks : u.c = t.c /\ u.m = t.m
  BY Zenon, <1>1, <1>8
<1> QED  BY ZenonT(60), <1>1, <1>5, <1>7, <1>9, TaskNode, Conveys

\* Dispatch: the block leaves the channel of the notifier for that of the handler, or is lost.
LEMMA DispatchBlocks ==
  ASSUME IInv, BlockInv, LeftOK(scene, left'), NEW n \in Nodes, Dispatch(n)
  PROVE  BlockInv'
<1> DEFINE r == net[n]
           h == IF Len(r.handler) < HandlerCap THEN Append(r.handler, Head(r.receiveCh)) ELSE r.handler
           r2 == [r EXCEPT !.receiveCh = Tail(r.receiveCh), !.handler = h]
           b == Head(r.receiveCh)
<1>1. /\ UNCHANGED <<scene, conn, wire, tasks>> /\ r.receiveCh # <<>> /\ net' = [net EXCEPT ![n] = r2]
  BY ZenonT(60) DEF Dispatch
<1>2. n \in DOMAIN net /\ NodeOK(r) /\ NodeBlocks(scene, net, n)
  BY Zenon DEF IInv, BlockInv, Nodes
<1>3. r.receiveCh \in Seq(Bodies) /\ r.handler \in Seq(Bodies)
  BY <1>2 DEF NodeOK
<1>4. b \in Bodies
  BY <1>1, <1>3
<1>5. /\ b \in Range(r.receiveCh) /\ Range(Tail(r.receiveCh)) \subseteq Range(r.receiveCh)
      /\ Once(Tail(r.receiveCh)) /\ b \notin Range(Tail(r.receiveCh))
  BY Zenon, <1>1, <1>2, <1>3, OnceTail DEF NodeBlocks
<1>6. /\ Range(Append(r.handler, b)) = Range(r.handler) \cup {b}
      /\ Once(r.handler) /\ b \notin Range(r.handler) => Once(Append(r.handler, b))
  BY ZenonT(60), <1>3, <1>4, OnceAppend
<1>7. /\ r2.receiveCh = Tail(r.receiveCh) /\ r2.seen = r.seen /\ r2.times = r.times
      /\ r2.known = r.known /\ (r2.handler = r.handler \/ r2.handler = Append(r.handler, b))
  BY ZenonT(60), <1>2 DEF NodeOK
<1> HIDE DEF r, r2, h, b
<1>8. b \notin Range(r.handler) /\ b \notin r.known
  BY <1>2, <1>5 DEF NodeBlocks, r
<1>9. Range(r2.handler) \subseteq Range(r.handler) \cup {b} /\ Once(r2.handler)
  BY ZenonT(60), <1>2, <1>6, <1>7, <1>8 DEF NodeBlocks, r
<1>10. Grows(net, net') /\ \A x \in DOMAIN net : NodeBlocks(scene, net', x)
  <2>1. /\ Range(r2.receiveCh) \subseteq DOMAIN r2.times /\ Range(r2.handler) \subseteq DOMAIN r2.times
        /\ r2.known \subseteq DOMAIN r2.times \cup {n} /\ Once(r2.receiveCh) /\ Once(r2.handler)
        /\ Range(r2.receiveCh) \cap Range(r2.handler) = {}
        /\ r2.known \cap (Range(r2.receiveCh) \cup Range(r2.handler)) = {}
    BY ZenonT(60), <1>2, <1>5, <1>7, <1>8, <1>9 DEF NodeBlocks, r
  <2> QED  BY ZenonT(60), <1>1, <1>2, <1>7, <2>1, NodeMoves DEF r
<1>11. /\ net'[n] = r2 /\ \A x \in DOMAIN net \ {n} : net'[x] = net[x]
  BY <1>1, <1>2
<1>12. LoopsOK(scene, net', conn')
  <2>1. ASSUME NEW x \in DOMAIN net
        PROVE  /\ DOMAIN net[x].times \subseteq DOMAIN net'[x].times
               /\ \A y \in Held(net'[x]) : y \in Held(net[x]) \/ y \notin DOMAIN net[x].times
    BY ZenonT(60), <1>5, <1>7, <1>9, <1>11 DEF Held, r
  <2> QED  BY ZenonT(60), <1>1, <2>1, LoopsKeep DEF BlockInv
<1> QED  BY Zenon, <1>1, <1>10, <1>12, TaskNode, Conveys

\* Relay: the block leaves the channel of the handler and is known for good.
LEMMA RelayBlocks ==
  ASSUME IInv, BlockInv, LeftOK(scene, left'), NEW n \in Nodes, Relay(n)
  PROVE  BlockInv'
<1> DEFINE r == net[n]
           b == Head(r.handler)
           r2 == [r EXCEPT !.handler = Tail(r.handler), !.known = r.known \cup {b}]
<1>1. /\ UNCHANGED <<scene, conn, wire>> /\ r.handler # <<>> /\ net' = [net EXCEPT ![n] = r2]
      /\ \/ tasks' = tasks
         \/ \E to \in SUBSET Peers(n) : tasks' = tasks \cup Sends(n, to, b)
  BY Zenon DEF Relay, kSubset
<1>2. n \in DOMAIN net /\ NodeOK(r) /\ NodeBlocks(scene, net, n)
  BY Zenon DEF IInv, BlockInv, Nodes
<1>3. r.receiveCh \in Seq(Bodies) /\ r.handler \in Seq(Bodies)
  BY <1>2 DEF NodeOK
<1>4. b \in Bodies
  BY <1>1, <1>3
<1>5. /\ b \in Range(r.handler) /\ Range(Tail(r.handler)) \subseteq Range(r.handler)
      /\ Once(Tail(r.handler)) /\ b \notin Range(Tail(r.handler))
  BY ZenonT(60), <1>1, <1>2, <1>3, OnceTail DEF NodeBlocks
<1>6. /\ r2.receiveCh = r.receiveCh /\ r2.seen = r.seen /\ r2.times = r.times
      /\ r2.known = r.known \cup {b} /\ r2.handler = Tail(r.handler)
  BY Zenon, <1>2 DEF NodeOK
<1> HIDE DEF r, r2, b
<1>7. b \notin Range(r.receiveCh) /\ b \in DOMAIN r.times
  BY <1>2, <1>5 DEF NodeBlocks, r
<1>8. Grows(net, net') /\ \A x \in DOMAIN net : NodeBlocks(scene, net', x)
  <2>1. /\ Range(r2.receiveCh) \subseteq DOMAIN r2.times /\ Range(r2.handler) \subseteq DOMAIN r2.times
        /\ r2.known \subseteq DOMAIN r2.times \cup {n} /\ Once(r2.receiveCh) /\ Once(r2.handler)
        /\ Range(r2.receiveCh) \cap Range(r2.handler) = {}
        /\ r2.known \cap (Range(r2.receiveCh) \cup Range(r2.handler)) = {}
    BY Zenon, <1>2, <1>5, <1>6, <1>7 DEF NodeBlocks, r
  <2> QED  BY ZenonT(60), <1>1, <1>2, <1>6, <2>1, NodeMoves DEF r
<1>9. /\ net'[n] = r2 /\ \A x \in DOMAIN net \ {n} : net'[x] = net[x]
  BY ZenonT(60), <1>1, <1>2
<1>10. LoopsOK(scene, net', conn')
  <2>1. ASSUME NEW x \in DOMAIN net
        PROVE  /\ DOMAIN net[x].times \subseteq DOMAIN net'[x].times
               /\ \A y \in Held(net'[x]) : y \in Held(net[x]) \/ y \notin DOMAIN net[x].times
    BY ZenonT(60), <1>5, <1>6, <1>9 DEF Held, r
  <2> QED  BY ZenonT(60), <1>1, <2>1, LoopsKeep DEF BlockInv
<1>11. ASSUME NEW to \in SUBSET Peers(n), NEW t \in Sends(n, to, b) PROVE TaskOK(scene, net', t)
  <2>1. t \in Pushes(Ends) /\ t.m = Block(b, 0) /\ NodeOf(t.c) = n
    BY ZenonT(60), <1>4, SendsOK
  <2>2. t.m.body = b /\ t.c \in Ends /\ NodeOf(t.c) = n
    BY <2>1 DEF Block, Pushes
  <2> QED  BY ZenonT(60), <1>6, <1>7, <1>9, <2>2, EndsOK DEF TaskOK
<1>12. \A t \in tasks' : TaskOK(scene, net', t) \/ \E u \in tasks : u.c = t.c /\ u.m = t.m
  BY ZenonT(60), <1>1, <1>11
<1> QED  BY ZenonT(60), <1>1, <1>8, <1>10, <1>12, TaskNode, Conveys

-----------------------------------------------------------------------------
(* The theorem about blocks.                                               *)

\* At the start nobody has a block.
LEMMA InitBlocks == Init => BlockInv
<1> SUFFICES ASSUME Init PROVE BlockInv
  OBVIOUS
<1>1. IInv
  BY ZenonT(60), InitIInv
<1>2. LeftOK(scene, left) /\ tasks = {}
  BY DEF Init, LeftOK
<1>3. \A n \in DOMAIN net : NodeBlocks(scene, net, n)
  <2>1. Range(<<>>) = {} /\ Once(<<>>) /\ DOMAIN <<>> = {}
    BY DEF Range, Once
  <2>2. \A n \in DOMAIN net : net[n] = [seen |-> {}, times |-> <<>>, receiveCh |-> <<>>,
                                        handler |-> <<>>, known |-> {}]
    BY Zenon DEF Init
  <2> QED  BY <2>1, <2>2 DEF NodeBlocks
<1>4. ASSUME NEW c \in DOMAIN conn
      PROVE  conn[c].pc # "notify" /\ Queued(conn[c]) = {} /\ Range(wire[c]) = {}
  <2>1. conn[c] = Up \/ conn[c] = None
    BY DEF Init
  <2>2. conn[c].pc # "notify" /\ conn[c].queues = NoQueues
    <3>1. Up.pc = "read" /\ Up.queues = NoQueues
      BY DEF Up, NewConn
    <3>2. None.pc = "none" /\ None.queues = NoQueues
      BY DEF None, NewConn
    <3> QED  BY ZenonT(60), <2>1, <3>1, <3>2
  <2>3. wire[c] = <<>>
    BY DEF Init, Ends
  <2>4. Range(<<>>) = {}
    BY DEF Range
  <2> QED  BY ZenonT(60), <2>2, <2>3, <2>4, NothingQueued
<1> QED  BY ZenonT(60), <1>2, <1>3, <1>4 DEF BlockInv, LoopsOK

\* No step breaks the invariant, one lemma per action.
LEMMA NextBlocks == IInv /\ BlockInv /\ [Next]_vars => BlockInv'
<1> SUFFICES ASSUME IInv, BlockInv, [Next]_vars PROVE BlockInv'
  OBVIOUS
<1>1. CASE UNCHANGED vars
  BY Zenon, <1>1 DEF vars, BlockInv
<1>2. CASE Next
  <2>0. LeftOK(scene, left')
    BY <1>2, LeftStep
  <2>1. ASSUME NEW s \in Streams, lookup(s) \/ Reset(s) PROVE BlockInv'
    BY ZenonT(60), <2>0, <2>1, LookupBlocks, SweepBlocks
  <2>2. ASSUME NEW c \in Ends, Loop(c) PROVE BlockInv'
    BY ZenonT(60), <2>0, <2>2, DialBlocks, ReadBlocks, HandOverBlocks, ObjectBlocks DEF Loop
  <2>3. ASSUME NEW c \in Ends, Discover(c) PROVE BlockInv'
    BY ZenonT(60), <2>0, <2>3, ObjectBlocks DEF Discover
  <2>4. ASSUME NEW c \in Ends, Run(c) \/ heartBeatService(c) \/ CloseCollected(c) PROVE BlockInv'
    BY ZenonT(60), <2>0, <2>4, RunBlocks, SweepBlocks, ObjectBlocks
  <2>5. ASSUME NEW t \in tasks, Push(t) PROVE BlockInv'
    BY ZenonT(60), <2>0, <2>5, PutBlocks, NotifyBlocks DEF Push
  <2>6. ASSUME NEW n \in Nodes, Collect(n) \/ Broadcast(n) \/ Dispatch(n) \/ Relay(n) PROVE BlockInv'
    BY ZenonT(60), <2>0, <2>6, SweepBlocks, BroadcastBlocks, DispatchBlocks, RelayBlocks
  <2> QED  BY ZenonT(60), <1>2, <2>1, <2>2, <2>3, <2>4, <2>5, <2>6 DEF Next
<1> QED  BY <1>1, <1>2

\* The places of a block at a node are one place.
LEMMA OnePlace ==
  ASSUME IInv, BlockInv, NEW n \in Nodes, NEW b, NEW x \in Places(n, b), NEW y \in Places(n, b)
  PROVE  x = y
<1> DEFINE r == net[n]
           Loops == {c \in Ends : NodeOf(c) = n /\ conn[c].pc = "notify" /\ conn[c].msg.body = b}
<1>1. NodeBlocks(scene, net, n)
  BY DEF BlockInv, Nodes
<1>2. \A c \in Loops : b \notin Held(r) /\ \A d \in Loops : d = c
  BY ZenonT(60), TaskNode DEF BlockInv, LoopsOK, Ends
<1>3. ASSUME NEW z \in Places(n, b)
      PROVE  \/ z[1] = "loop" /\ \E c \in Loops : z = <<"loop", c>>
             \/ z[1] = "receiveCh" /\ \E i \in DOMAIN r.receiveCh : z = <<"receiveCh", i>> /\ r.receiveCh[i] = b
             \/ z[1] = "handler" /\ \E i \in DOMAIN r.handler : z = <<"handler", i>> /\ r.handler[i] = b
             \/ z[1] = "known" /\ z = <<"known", b>> /\ b \in r.known
  BY DEF Places
<1>4. \A i, j \in DOMAIN r.receiveCh : r.receiveCh[i] = b /\ r.receiveCh[j] = b => i = j
  BY <1>1 DEF NodeBlocks, Once
<1>5. \A i, j \in DOMAIN r.handler : r.handler[i] = b /\ r.handler[j] = b => i = j
  BY <1>1 DEF NodeBlocks, Once
<1>6. /\ (\E i \in DOMAIN r.receiveCh : r.receiveCh[i] = b) <=> b \in Range(r.receiveCh)
      /\ (\E i \in DOMAIN r.handler : r.handler[i] = b) <=> b \in Range(r.handler)
  BY DEF Range
<1>7. /\ ~(b \in Range(r.receiveCh) /\ b \in Range(r.handler))
      /\ b \in r.known => b \notin Range(r.receiveCh) /\ b \notin Range(r.handler)
  BY <1>1 DEF NodeBlocks
<1>8. Held(r) = r.known \cup Range(r.receiveCh) \cup Range(r.handler)
  BY DEF Held
<1> HIDE DEF r, Loops
<1> QED  BY ZenonT(60), <1>2, <1>3, <1>4, <1>5, <1>6, <1>7, <1>8

\* A block travels no further than RelayTimes + 1 streams from its sender and is handed to
\* the handlers of a node at most once, whichever connections it comes back on.
THEOREM BlocksHandedOnce == Spec => []HandedOnce
<1>1. IInv /\ BlockInv => HandedOnce
  <2> SUFFICES ASSUME IInv, BlockInv PROVE HandedOnce
    OBVIOUS
  <2>1. ASSUME NEW n \in Nodes, NEW b \in scene.sends, b \in net[n].seen
        PROVE  n \in Reach(b)
    BY Zenon, <2>1 DEF BlockInv, NodeBlocks, Nodes, Reach
  <2>2. ASSUME NEW n \in Nodes, NEW b \in scene.sends
        PROVE  \A x, y \in Places(n, b) : x = y
    BY OnePlace
  <2> QED  BY <2>1, <2>2 DEF HandedOnce
<1>2. Spec => []BlockInv
  BY InitBlocks, NextBlocks, Connections, PTL DEF Spec
<1> QED  BY <1>1, <1>2, Connections, PTL

=============================================================================

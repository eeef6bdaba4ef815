----------------------------- MODULE NetProofs -----------------------------
(***************************************************************************)
(* The theorems about the connections of Net, for any network, any         *)
(* capacities of the queues and channels, and any number of faults: the    *)
(* table of connections has only live ones, and the writer of a connection *)
(* never sleeps beside a message.                                          *)
(***************************************************************************)
EXTENDS Net, TLAPS

-----------------------------------------------------------------------------
(* What is known of one connection object k, the end c, while the pushes   *)
(* ts are in progress.                                                     *)

\* What messages carry: the name of a block, which is that of a node, or nothing.
Bodies == {"none"} \cup UNION {NodesOf(sc) : sc \in Scenes}
Messages == [code : {"none", "ping", "pong", "discover", "reply", "block"}, body : Bodies,
             times : Nat]
Sent == {m \in Messages : m.code # "none"}

ConnObjects ==
  [pc : {"none", "dial", "unused", "push", "read", "beat", "notify", "exit", "over"},
   est : BOOLEAN, succeed : BOOLEAN, closed : BOOLEAN, closing : BOOLEAN, open : BOOLEAN,
   beat : {"none", "on", "off"}, disc : {"none", "wait", "late", "closing", "done"},
   queues : [Low..Top -> Seq(Sent)], notify : BOOLEAN, writer : {"search", "wait", "stop"},
   msg : Messages]

\* Places of the loop before there is a stream.
Early == {"none", "dial", "unused"}

\* An object that is closed has no messages, and was established or is over. Nobody pushes
\* before there is a stream, and the loop itself pushes one message at a time, for which it
\* waits. The last but one conjunct is WriterAwake.
ConnOK(c, k, ts) ==
  /\ k \in ConnObjects
  /\ k.closed => k.queues = NoQueues /\ (k.est \/ k.pc = "over")
  /\ k.pc \in Early => ~k.est /\ k.beat = "none"
  /\ k.pc = "dial" => c[2] = 1
  /\ k.pc = "none" => k.disc = "none"
  /\ k.succeed => k.est
  /\ k.pc = "over" => k.beat # "on"
  /\ \A t \in ts : t.c = c => k.pc \notin Early /\ (t.by = "loop" => k.pc = "push")
  /\ k.writer = "wait" /\ ~k.notify /\ k.queues # NoQueues
       => \E t \in ts : t.c = c /\ t.stage = "notify"
  /\ \A t, u \in ts : t.c = c /\ u.c = c /\ t.by = "loop" /\ u.by = "loop" => t = u

Pushes(ends) == [c : ends, by : {"loop", "lookup", "beat", "send"}, m : Sent,
                 stage : {"put", "notify"}]

\* The table tb names objects of cn that are live.
Peer1(sc, c) == sc.dials[c[1]][c[2]]
Peer2(sc, c) == sc.dials[c[1]][3 - c[2]]
TableOK(sc, cn, tb, nodes) ==
  /\ tb \in [nodes -> [nodes -> DOMAIN cn \cup {NoConn}]]
  /\ \A n, p \in nodes : tb[n][p] # NoConn =>
       LET c == tb[n][p] IN Peer1(sc, c) = n /\ Peer2(sc, c) = p /\ cn[c].est /\ ~cn[c].closed

\* What node n has heard of.
NodeOK(r) ==
  /\ DOMAIN r = {"seen", "times", "receiveCh", "handler", "known"}
  /\ r.seen \subseteq Bodies /\ r.known \subseteq Bodies
  /\ r.receiveCh \in Seq(Bodies) /\ r.handler \in Seq(Bodies)
  /\ \A b \in DOMAIN r.times : r.times[b] \in Nat

IInv ==
  /\ scene \in Scenes
  /\ DOMAIN conn = Streams \X {1, 2}
  /\ tasks \subseteq Pushes(DOMAIN conn)
  /\ \A c \in DOMAIN conn : ConnOK(c, conn[c], tasks)
  /\ \A s \in Streams : conn[<<s, 1>>].pc \in {"none", "dial"} => conn[<<s, 2>>] = None
  /\ TableOK(scene, conn, conns, DOMAIN net)
  /\ \A c \in sweeping : c \in DOMAIN conn /\ conn[c].est
  /\ DOMAIN wire = DOMAIN conn /\ \A c \in DOMAIN conn : wire[c] \in Seq(Sent)
  /\ DOMAIN net = NodesOf(scene) /\ \A n \in DOMAIN net : NodeOK(net[n])

-----------------------------------------------------------------------------
(* The two ends of a stream.                                               *)

\* The ends of a stream belong to nodes, and each is the other of the other.
LEMMA EndsOK ==
  ASSUME IInv, NEW c \in Ends
  PROVE  /\ c = <<c[1], c[2]>> /\ c[1] \in Streams /\ c[2] \in {1, 2} /\ c # NoConn
         /\ Other(c) \in Ends /\ Other(c) # c /\ Other(c)[1] = c[1]
         /\ NodeOf(c) = Peer1(scene, c) /\ RemotePeer(c) = Peer2(scene, c)
         /\ NodeOf(c) \in Nodes /\ RemotePeer(c) \in Nodes
<1>1. c \in Streams \X {1, 2}
  BY DEF IInv, Ends
<1>2. c = <<c[1], c[2]>> /\ c[1] \in Streams /\ c[2] \in {1, 2} /\ c # NoConn
  BY <1>1 DEF NoConn
<1>3. 3 - c[2] \in {1, 2} /\ 3 - c[2] # c[2]
  BY <1>2
<1>4. Other(c) \in Ends /\ Other(c)[1] = c[1] /\ Other(c)[2] = 3 - c[2]
  BY <1>2, <1>3 DEF IInv, Ends, Other
<1>5. \A i \in {1, 2} : scene.dials[c[1]][i] \in Nodes
  <2>1. DOMAIN scene.dials[c[1]] = {1, 2}
    BY <1>2, NetAssumption DEF IInv, Streams
  <2> QED  BY SMTT(30), <1>2, <2>1 DEF IInv, Streams, Nodes, NodesOf, Range
<1> QED  BY <1>2, <1>3, <1>4, <1>5 DEF NodeOf, RemotePeer, Peer1, Peer2

\* Messages that carry nothing.
LEMMA MessageOK ==
  /\ \A code \in {"ping", "pong", "discover", "reply"} : Message(code) \in Sent
  /\ Message("none") \in Messages
BY DEF Message, Sent, Messages, Bodies

\* New objects.
LEMMA NewConnOK ==
  /\ None \in ConnObjects /\ NewConn("dial", "wait") \in ConnObjects
  /\ handleStream \in ConnObjects /\ Up \in ConnObjects
<1>1. NoQueues \in [Low..Top -> Seq(Sent)]
  <2>1. <<>> \in Seq(Sent)
    OBVIOUS
  <2> QED  BY <2>1 DEF NoQueues
<1> QED  BY Zenon, <1>1, MessageOK DEF None, NewConn, handleStream, Up, ConnObjects

\* A stream that was not dialled has no established end.
LEMMA NoneNotEst == None.est = FALSE
BY DEF None, NewConn

\* What is known of an object before a step.
LEMMA ObjectOK ==
  ASSUME IInv, NEW c \in Ends
  PROVE  conn[c] \in ConnObjects /\ ConnOK(c, conn[c], tasks)
BY DEF IInv, Ends, ConnOK

\* The loop is back at its head.
LEMMA AgainOK ==
  ASSUME NEW k \in ConnObjects
  PROVE  /\ Again(k) \in ConnObjects /\ Again(k).pc \in {"read", "exit"}
         /\ \A f \in DOMAIN k \ {"pc"} : Again(k)[f] = k[f]
BY DEF Again, ConnObjects

\* Teardown and CloseCollected: Close.
LEMMA ClosedOK ==
  ASSUME NEW k \in ConnObjects
  PROVE  /\ Closed(k) \in ConnObjects /\ Closed(k).closed /\ Closed(k).queues = NoQueues
         /\ Closed(k).beat # "on" /\ (Closed(k).beat = k.beat \/ k.beat = "on")
         /\ \A f \in {"pc", "est", "succeed", "closing", "disc", "writer", "msg"} : Closed(k)[f] = k[f]
<1>1. NoQueues \in [Low..Top -> Seq(Sent)]
  BY NewConnOK DEF ConnObjects, None, NewConn
<1> QED  BY ZenonT(60), <1>1 DEF Closed, ConnObjects

\* Put: reserve and the queue of the message.
LEMMA ReservedOK ==
  ASSUME NEW n, NodeOK(net[n]), NEW m \in Sent, NeedToRelay(n, m)
  PROVE  Reserved(n, m) \in Sent /\ Priority(m) \in Low..Top /\ NodeOK(Remember(net[n], m))
<1>1. m \in Messages /\ m.code \in {"ping", "pong", "discover", "reply", "block"}
  BY DEF Sent, Messages
<1>2. m.body \in Bodies /\ m.times \in Nat
  BY <1>1 DEF Messages
<1>3. Priority(m) \in Low..Top
  BY <1>1 DEF Priority, Low, Top
<1>4. m.code = "block" => TimesLeft(n, m) \in Nat
  BY NetAssumption DEF NeedToRelay, TimesLeft, NodeOK
<1>5. Reserved(n, m) \in Sent
  BY <1>1, <1>4 DEF Reserved, Sent, Messages
<1>6. NodeOK(Remember(net[n], m))
  BY <1>2 DEF NodeOK, Remember
<1> QED  BY <1>3, <1>5, <1>6

\* The goroutine of a push is done: that of the loop goes on with the loop.
LEMMA FinishOK ==
  ASSUME NEW k \in ConnObjects, NEW t, NEW ok
  PROVE  /\ Finish(k, t, ok) \in ConnObjects
         /\ \A f \in DOMAIN k \ {"pc"} : Finish(k, t, ok)[f] = k[f]
         /\ IF t.by = "loop" THEN Finish(k, t, ok).pc \in {"read", "exit"} ELSE Finish(k, t, ok) = k
<1>1. CASE t.by = "loop" /\ ok
  BY <1>1, AgainOK DEF Finish
<1>2. CASE t.by = "loop" /\ ~ok
  BY <1>2 DEF Finish, ConnObjects
<1>3. CASE t.by # "loop"
  BY ZenonT(60), <1>3 DEF Finish
<1> QED  BY <1>1, <1>2, <1>3

\* The same, field by field.
LEMMA FinishFields ==
  ASSUME NEW k \in ConnObjects, NEW t, NEW ok
  PROVE  /\ Finish(k, t, ok).est = k.est /\ Finish(k, t, ok).closed = k.closed
         /\ Finish(k, t, ok).beat = k.beat /\ Finish(k, t, ok).succeed = k.succeed
         /\ Finish(k, t, ok).queues = k.queues /\ Finish(k, t, ok).writer = k.writer
         /\ Finish(k, t, ok).notify = k.notify
  BY SMTT(60), FinishOK DEF ConnObjects

\* Read: what becomes of the object, the table and the pushes, whatever the message.
LEMMA ReadCases ==
  ASSUME IInv, NEW c \in Ends, Read(c)
  PROVE  LET n == NodeOf(c)
             k == conn[c]
             m == Head(wire[c])
         IN \/ conn' = [conn EXCEPT ![c] = Again(k)] /\ conns' = conns /\ tasks' = tasks
            \/ /\ conn' = [conn EXCEPT ![c] = [Established(k) EXCEPT !.pc = "push"]]
               /\ conns' = Registered(c)
               /\ tasks' = tasks \cup {Task(c, "loop", Message("pong"))}
            \/ /\ ~k.est /\ conn' = [conn EXCEPT ![c] = [Established(k) EXCEPT !.pc = "beat"]]
               /\ conns' = Registered(c) /\ tasks' = tasks
            \/ conn' = [conn EXCEPT ![c] = [k EXCEPT !.pc = "exit"]] /\ conns' = conns /\ tasks' = tasks
            \/ /\ conn' = [conn EXCEPT ![c] = [k EXCEPT !.pc = "push"]]
               /\ conns' = conns
               /\ tasks' = tasks \cup {Task(c, "loop", Message("reply"))}
            \/ /\ conn' = [conn EXCEPT ![c] = [k EXCEPT !.pc = "notify", !.msg = m]]
               /\ conns' = conns /\ tasks' = tasks /\ m.code = "block" /\ ~Duplicate(net[n], m)
<1> DEFINE n == NodeOf(c)
           k == conn[c]
           m == Head(wire[c])
<1>0. k \in ConnObjects /\ wire[c] \in Seq(Sent) /\ wire[c] # <<>>
  BY Zenon, ObjectOK DEF IInv, Read, Ends
<1>1. m \in Sent
  BY <1>0
<1>2. m.code \in {"ping", "pong", "discover", "reply", "block"} /\ k.est \in BOOLEAN
  BY <1>0, <1>1 DEF Sent, Messages, ConnObjects
<1> HIDE DEF k
<1>3. CASE Duplicate(net[n], m)
  BY Zenon, <1>3 DEF Read, Handled, Duplicate, k
<1>4. CASE m.code = "ping"
  BY Zenon, <1>4 DEF Read, Handled, Duplicate, k
<1>5. CASE m.code = "pong"
  <2>1. CASE k.est
    BY Zenon, <1>5, <2>1 DEF Read, Handled, Duplicate, Registered, k
  <2>2. CASE ~k.est
    BY Zenon, <1>5, <2>2 DEF Read, Handled, Duplicate, k
  <2> QED  BY <2>1, <2>2
<1>6. CASE m.code \notin {"ping", "pong"} /\ ~Duplicate(net[n], m) /\ ~k.est
  BY Zenon, <1>6 DEF Read, Handled, Duplicate, k
<1>7. CASE m.code = "discover" /\ k.est
  BY Zenon, <1>7 DEF Read, Handled, Duplicate, k
<1>8. CASE m.code = "reply" /\ k.est
  BY Zenon, <1>8 DEF Read, Handled, Duplicate, k
<1>9. CASE m.code = "block" /\ ~Duplicate(net[n], m) /\ k.est
  BY ZenonT(60), <1>9 DEF Read, Handled, Duplicate, k
<1> QED  BY <1>2, <1>3, <1>4, <1>5, <1>6, <1>7, <1>8, <1>9

\* What a node has in its table.
LEMMA TableEntry ==
  ASSUME IInv, NEW n \in Nodes, NEW p \in Nodes, conns[n][p] # NoConn
  PROVE  LET c == conns[n][p]
         IN /\ c \in Ends /\ conn[c].est /\ ~conn[c].closed /\ conn[c].pc \notin Early
            /\ NodeOf(c) = n /\ RemotePeer(c) = p
<1> DEFINE c == conns[n][p]
<1>1. c \in Ends /\ conn[c].est /\ ~conn[c].closed /\ Peer1(scene, c) = n /\ Peer2(scene, c) = p
  BY SMTT(30) DEF IInv, TableOK, Nodes, Ends
<1>2. conn[c].pc \notin Early
  BY <1>1, ObjectOK DEF ConnOK
<1> QED  BY SMTT(30), <1>1, <1>2, EndsOK

\* What a node sends to some of its peers.
LEMMA SendsOK ==
  ASSUME IInv, NEW n \in Nodes, NEW body \in Bodies, NEW to \in SUBSET Peers(n)
  PROVE  \A t \in Sends(n, to, body) :
           /\ t \in Pushes(Ends) /\ t.by = "send" /\ t.stage = "put" /\ t.m = Block(body, 0)
           /\ conn[t.c].pc \notin Early /\ NodeOf(t.c) = n
<1> SUFFICES ASSUME NEW p \in to
             PROVE  LET t == Task(conns[n][p], "send", Block(body, 0))
                    IN /\ t \in Pushes(Ends) /\ t.by = "send" /\ t.stage = "put"
                       /\ t.m = Block(body, 0)
                       /\ conn[t.c].pc \notin Early /\ NodeOf(t.c) = n
  BY DEF Sends
<1>1. p \in Nodes /\ conns[n][p] # NoConn
  BY DEF Peers
<1>2. Block(body, 0) \in Sent
  BY DEF Block, Sent, Messages
<1> QED  BY SMTT(30), <1>1, <1>2, TableEntry DEF Task, Pushes

-----------------------------------------------------------------------------
(* Steps: what they do to one object, to the pushes and to the table.      *)

\* Other objects do not mind that there are more pushes that are not their loop's.
LEMMA OthersOK ==
  ASSUME NEW d, NEW k, NEW ts, NEW ts2, ConnOK(d, k, ts),
         \A t \in ts2 : t.c = d => t \in ts \/ (t.by # "loop" /\ k.pc \notin Early),
         \A t \in ts : t.c = d /\ t.stage = "notify" => t \in ts2
  PROVE  ConnOK(d, k, ts2)
<1>1. \A t \in ts2 : t.c = d => k.pc \notin Early /\ (t.by = "loop" => k.pc = "push")
  BY DEF ConnOK
<1>2. k.writer = "wait" /\ ~k.notify /\ k.queues # NoQueues
        => \E t \in ts2 : t.c = d /\ t.stage = "notify"
  BY DEF ConnOK
<1>3. \A t, u \in ts2 : t.c = d /\ u.c = d /\ t.by = "loop" /\ u.by = "loop" => t = u
  BY DEF ConnOK
<1> QED  BY <1>1, <1>2, <1>3 DEF ConnOK

\* The table after a step of c keeps live connections, or has c as a new one.
TableMoves(c, k) ==
  /\ conns' \in [Nodes -> [Nodes -> Ends \cup {NoConn}]]
  /\ \A n, p \in Nodes : conns'[n][p] # NoConn =>
       \/ conns'[n][p] = conns[n][p] /\ (conns[n][p] = c => k.est /\ ~k.closed)
       \/ conns'[n][p] = c /\ NodeOf(c) = n /\ RemotePeer(c) = p /\ k.est /\ ~k.closed

\* Pushes of c may begin and end; those of others may begin.
TasksMove(c) ==
  /\ tasks' \subseteq Pushes(Ends)
  /\ \A t \in tasks' : \/ t.c = c \/ t \in tasks
                       \/ t.by # "loop" /\ conn[t.c].pc \notin Early
  /\ \A t \in tasks : t.c = c \/ t \in tasks'

\* The parts of IInv about connections.
ConnInv ==
  /\ DOMAIN conn = Streams \X {1, 2}
  /\ tasks \subseteq Pushes(DOMAIN conn)
  /\ \A c \in DOMAIN conn : ConnOK(c, conn[c], tasks)
  /\ \A s \in Streams : conn[<<s, 1>>].pc \in {"none", "dial"} => conn[<<s, 2>>] = None
  /\ TableOK(scene, conn, conns, DOMAIN net)
  /\ \A c \in sweeping : c \in DOMAIN conn /\ conn[c].est

\* A step of one object keeps the invariant when the object, the pushes and the table do.
LEMMA Moves ==
  ASSUME IInv, NEW c \in Ends, NEW k, conn' = [conn EXCEPT ![c] = k],
         UNCHANGED scene, DOMAIN net' = DOMAIN net, ConnOK(c, k, tasks'), TasksMove(c),
         TableMoves(c, k), sweeping' \subseteq sweeping,
         conn[c].est => k.est,
         k.pc \in {"none", "dial"} => conn[c].pc \in {"none", "dial"},
         c[2] = 1 \/ conn[c].pc # "none"
  PROVE  ConnInv'
<1>0. /\ DOMAIN conn' = DOMAIN conn /\ conn'[c] = k
      /\ \A d \in DOMAIN conn \ {c} : conn'[d] = conn[d]
      /\ Streams' = Streams /\ c \in DOMAIN conn
  BY DEF Ends, Streams
<1>1. DOMAIN conn' = Streams' \X {1, 2} /\ tasks' \subseteq Pushes(DOMAIN conn')
  BY <1>0 DEF IInv, TasksMove, Ends
<1>2. ASSUME NEW d \in DOMAIN conn
      PROVE  ConnOK(d, conn'[d], tasks')
  <2>1. CASE d = c
    BY <1>0, <2>1
  <2>2. CASE d # c
    <3>1. ConnOK(d, conn[d], tasks) /\ conn'[d] = conn[d]
      BY <1>0, <2>2 DEF IInv
    <3>2. \A t \in tasks' : t.c = d => t \in tasks \/ (t.by # "loop" /\ conn[d].pc \notin Early)
      BY <2>2 DEF TasksMove
    <3>3. \A t \in tasks : t.c = d /\ t.stage = "notify" => t \in tasks'
      BY <2>2 DEF TasksMove
    <3> QED  BY <3>1, <3>2, <3>3, OthersOK
  <2> QED  BY <2>1, <2>2
<1>3. ASSUME NEW s \in Streams, conn'[<<s, 1>>].pc \in {"none", "dial"}
      PROVE  conn'[<<s, 2>>] = None
  <2>1. <<s, 1>> \in DOMAIN conn /\ <<s, 2>> \in DOMAIN conn
    BY DEF IInv
  <2>2. conn[<<s, 1>>].pc \in {"none", "dial"}
    BY <1>0, <1>3, <2>1
  <2>3. conn[<<s, 2>>] = None
    BY <2>2 DEF IInv
  <2>4. <<s, 2>> # c
    BY <2>3 DEF None, NewConn
  <2> QED  BY <1>0, <2>1, <2>3, <2>4
<1>4. TableOK(scene', conn', conns', DOMAIN net')
  <2>1. conns' \in [DOMAIN net' -> [DOMAIN net' -> DOMAIN conn' \cup {NoConn}]]
    BY <1>0 DEF TableMoves, Nodes, Ends
  <2>2. ASSUME NEW n \in Nodes, NEW p \in Nodes, conns'[n][p] # NoConn
        PROVE  LET d == conns'[n][p]
               IN Peer1(scene, d) = n /\ Peer2(scene, d) = p /\ conn'[d].est /\ ~conn'[d].closed
    <3>1. CASE conns'[n][p] = conns[n][p] /\ (conns[n][p] = c => k.est /\ ~k.closed)
      BY <1>0, <2>2, <3>1 DEF IInv, TableOK, Nodes
    <3>2. CASE conns'[n][p] = c /\ NodeOf(c) = n /\ RemotePeer(c) = p /\ k.est /\ ~k.closed
      BY <1>0, <3>2, EndsOK
    <3> QED  BY <2>2, <3>1, <3>2 DEF TableMoves
  <2> QED  BY <2>1, <2>2 DEF TableOK, Nodes
<1>5. \A d \in sweeping' : d \in DOMAIN conn' /\ conn'[d].est
  BY <1>0 DEF IInv
<1> QED  BY <1>0, <1>1, <1>2, <1>3, <1>4, <1>5 DEF ConnInv

\* A step that leaves the objects and the table alone.
LEMMA Stays ==
  ASSUME IInv, UNCHANGED <<scene, conn, conns>>, DOMAIN net' = DOMAIN net,
         tasks' \subseteq Pushes(Ends), \A t \in tasks : t.stage = "notify" => t \in tasks',
         \A t \in tasks' : t \in tasks \/ (t.by # "loop" /\ conn[t.c].pc \notin Early),
         \A c \in sweeping' : c \in sweeping \/ (c \in Ends /\ conn[c].est)
  PROVE  ConnInv'
<1>1. \A c \in DOMAIN conn : ConnOK(c, conn[c], tasks')
  <2> SUFFICES ASSUME NEW c \in DOMAIN conn PROVE ConnOK(c, conn[c], tasks')
    OBVIOUS
  <2>1. ConnOK(c, conn[c], tasks)
    BY DEF IInv
  <2> QED  BY <2>1, OthersOK
<1>2. Streams' = Streams
  BY DEF Streams
<1> QED  BY Zenon, <1>1, <1>2 DEF IInv, ConnInv, Ends

\* A table that stays as it is names live connections after a step that establishes or
\* closes nothing.
LEMMA TableSame ==
  ASSUME IInv, NEW c, NEW k, conns' = conns,
         c \in Ends => (conn[c].est => k.est) /\ (k.closed => conn[c].closed)
  PROVE  TableMoves(c, k)
BY DEF IInv, TableMoves, TableOK, Nodes, Ends

\* Conn.Establish puts c into the table: c is established with that peer.
LEMMA TableNew ==
  ASSUME IInv, NEW c \in Ends, NEW k, conns' = Registered(c), k.est, ~k.closed
  PROVE  TableMoves(c, k)
<1>1. CASE conns' = conns
  BY <1>1 DEF IInv, TableMoves, TableOK, Nodes, Ends
<1>2. CASE conns' = [conns EXCEPT ![NodeOf(c)][RemotePeer(c)] = c]
  <2>1. NodeOf(c) \in Nodes /\ RemotePeer(c) \in Nodes
    BY EndsOK
  <2>2. conns \in [Nodes -> [Nodes -> Ends \cup {NoConn}]]
    BY DEF IInv, TableOK, Nodes, Ends
  <2>3. conns' \in [Nodes -> [Nodes -> Ends \cup {NoConn}]]
    BY <1>2, <2>1, <2>2
  <2>4. \A n, p \in Nodes : conns'[n][p] = conns[n][p]
                            \/ (n = NodeOf(c) /\ p = RemotePeer(c) /\ conns'[n][p] = c)
    BY <1>2, <2>1, <2>2
  <2> QED  BY <2>3, <2>4 DEF TableMoves
<1> QED  BY ZenonT(60), <1>1, <1>2 DEF Registered

\* Conn.Close takes c out of the table, so that c may be closed.
LEMMA TableLess ==
  ASSUME IInv, NEW c \in Ends, NEW k, conns' = Deregistered(c)
  PROVE  TableMoves(c, k)
<1>1. NodeOf(c) \in Nodes /\ RemotePeer(c) \in Nodes
      /\ NodeOf(c) = Peer1(scene, c) /\ RemotePeer(c) = Peer2(scene, c)
  BY EndsOK
<1>2. conns \in [Nodes -> [Nodes -> Ends \cup {NoConn}]]
  BY DEF IInv, TableOK, Nodes, Ends
<1>3. conns' \in [Nodes -> [Nodes -> Ends \cup {NoConn}]]
  BY <1>1, <1>2 DEF Deregistered
<1>4. \A n, p \in Nodes : conns'[n][p] = conns[n][p]
                          \/ conns'[n][p] = NoConn
  BY ZenonT(60), <1>1, <1>2 DEF Deregistered
<1>5. ASSUME NEW n \in Nodes, NEW p \in Nodes, conns'[n][p] # NoConn
      PROVE  conns'[n][p] = conns[n][p] /\ conns[n][p] # c
  <2>1. ~(n = NodeOf(c) /\ p = RemotePeer(c))
    BY ZenonT(60), <1>1, <1>2, <1>5 DEF Deregistered
  <2> QED  BY <1>1, <1>4, <1>5, <2>1 DEF IInv, TableOK, Nodes
<1> QED  BY <1>3, <1>5 DEF TableMoves

-----------------------------------------------------------------------------
(* The actions.                                                            *)

\* The parts of IInv about what is on its way and what the nodes have heard.
NetInv ==
  /\ scene \in Scenes
  /\ DOMAIN wire = DOMAIN conn /\ \A c \in DOMAIN conn : wire[c] \in Seq(Sent)
  /\ DOMAIN net = NodesOf(scene) /\ \A n \in DOMAIN net : NodeOK(net[n])

\* IInv is both.
LEMMA Parts == /\ IInv => ConnInv /\ NetInv
               /\ ConnInv' /\ NetInv' => IInv'
BY DEF IInv, ConnInv, NetInv

\* Table.lookup: a new object for a peer that has none, and its look-up.
LEMMA LookupStep ==
  ASSUME IInv, NEW s \in Streams, lookup(s)
  PROVE  IInv'
<1> DEFINE c == <<s, 1>>
           old == conns[NodeOf(c)][RemotePeer(c)]
<1>1. c \in Ends /\ c[2] = 1 /\ conn[c] = None /\ ConnOK(c, conn[c], tasks)
  BY DEF IInv, Ends, lookup
<1>2. UNCHANGED <<scene, wire, conns, sweeping, net>>
  BY DEF lookup
<1>3. \A t \in tasks : t.c # c
  BY <1>1 DEF ConnOK, None, NewConn, Early
<1>4. CASE old # NoConn
  <2> DEFINE k == [conn[c] EXCEPT !.pc = "unused"]
             t0 == Task(old, "lookup", Message("discover"))
  <2>1. conn' = [conn EXCEPT ![c] = k] /\ tasks' = tasks \cup {t0}
    BY ZenonT(60), <1>4 DEF lookup
  <2>2. old \in Ends /\ conn[old].est /\ ConnOK(old, conn[old], tasks)
    <3>1. NodeOf(c) \in Nodes /\ RemotePeer(c) \in Nodes
      BY ZenonT(60), <1>1, EndsOK
    <3> QED  BY <1>4, <3>1 DEF IInv, TableOK, Nodes, Ends
  <2>3. old # c /\ conn[old].pc \notin Early
    BY <1>1, <2>2 DEF ConnOK, None, NewConn
  <2>4. t0.c = old /\ t0.by = "lookup" /\ t0 \in Pushes(Ends)
    BY <2>2, MessageOK DEF Task, Pushes
  <2>5. TasksMove(c)
    BY Zenon, <2>1, <2>3, <2>4 DEF IInv, TasksMove, Ends
  <2>6. ConnOK(c, k, tasks')
    <3>1. \A t \in tasks' : t.c # c
      BY <1>3, <2>1, <2>3, <2>4
    <3> HIDE DEF c
    <3>2. k \in ConnObjects
      BY <1>1, NewConnOK DEF ConnObjects
    <3> QED  BY <1>1, <3>1, <3>2 DEF ConnOK, None, NewConn, Early
  <2>7. k.est = conn[c].est /\ k.closed = conn[c].closed /\ k.pc = "unused"
    BY <1>1 DEF None, NewConn
  <2> HIDE DEF c, k
  <2>8. TableMoves(c, k)
    BY <1>2, <2>7, TableSame
  <2>9. ConnInv'
    BY Zenon, <1>1, <1>2, <2>1, <2>5, <2>6, <2>7, <2>8, Moves
  <2> QED  BY <1>1, <1>2, <2>1, <2>9, Parts DEF NetInv
<1>5. CASE old = NoConn
  <2> DEFINE k == NewConn("dial", "wait")
  <2>1. conn' = [conn EXCEPT ![c] = k] /\ tasks' = tasks
    BY <1>5 DEF lookup
  <2>2. TasksMove(c)
    BY Zenon, <2>1 DEF IInv, TasksMove, Ends
  <2>3. ConnOK(c, k, tasks')
    <3> HIDE DEF c
    <3> QED  BY Zenon, <1>1, <1>3, <2>1, NewConnOK DEF ConnOK, NewConn, Early
  <2>4. k.est = conn[c].est /\ k.closed = conn[c].closed
    BY SMTT(30), <1>1 DEF None, NewConn
  <2>5. conn[c].pc = "none"
    BY <1>1 DEF None, NewConn
  <2> HIDE DEF c, k
  <2>6. TableMoves(c, k)
    BY <1>2, <2>4, TableSame
  <2>7. ConnInv'
    BY Zenon, <1>1, <1>2, <2>1, <2>2, <2>3, <2>4, <2>5, <2>6, Moves
  <2> QED  BY <1>1, <1>2, <2>1, <2>7, Parts DEF NetInv
<1> QED  BY <1>4, <1>5

\* A step of one object that neither establishes nor closes it, and begins no push.
LEMMA QuietStep ==
  ASSUME IInv, NEW c \in Ends, NEW k, conn' = [conn EXCEPT ![c] = k],
         UNCHANGED <<scene, conns, tasks, sweeping>>, DOMAIN net' = DOMAIN net,
         k \in ConnObjects, k.est = conn[c].est, k.closed = conn[c].closed,
         k.pc = conn[c].pc \/ (conn[c].pc \in {"read", "beat", "notify"} /\ k.pc \in {"read", "exit"}),
         k.beat = "on" => k.pc # "over" /\ (k.beat = conn[c].beat \/ k.pc \notin Early),
         k.beat = conn[c].beat \/ k.pc \notin Early,
         k.succeed => conn[c].succeed,
         k.closed => k.queues = NoQueues,
         k.writer = "wait" /\ ~k.notify /\ k.queues # NoQueues
           => \E t \in tasks : t.c = c /\ t.stage = "notify",
         conn[c].pc # "none"
  PROVE  ConnInv'
<1>1. ConnOK(c, conn[c], tasks)
  BY DEF IInv, Ends
<1>2. ConnOK(c, k, tasks')
  <2>1. k.closed => k.queues = NoQueues /\ (k.est \/ k.pc = "over")
    BY <1>1 DEF ConnOK
  <2>2. k.pc \in Early => ~k.est /\ k.beat = "none"
    BY ZenonT(60), <1>1 DEF ConnOK, Early
  <2>3. (k.pc = "dial" => c[2] = 1) /\ k.pc # "none" /\ (k.succeed => k.est) /\ (k.pc = "over" => k.beat # "on")
    BY ZenonT(60), <1>1 DEF ConnOK
  <2>4. \A t \in tasks : t.c = c => k.pc \notin Early /\ (t.by = "loop" => k.pc = "push")
    BY ZenonT(60), <1>1 DEF ConnOK, Early
  <2>5. \A t, u \in tasks : t.c = c /\ u.c = c /\ t.by = "loop" /\ u.by = "loop" => t = u
    BY <1>1 DEF ConnOK
  <2> QED  BY ZenonT(60), <2>1, <2>2, <2>3, <2>4, <2>5 DEF ConnOK
<1>3. TasksMove(c)
  BY Zenon DEF IInv, TasksMove, Ends
<1>4. TableMoves(c, k)
  BY TableSame
<1>5. k.pc \in {"none", "dial"} => conn[c].pc \in {"none", "dial"}
  OBVIOUS
<1> QED  BY Zenon, <1>2, <1>3, <1>4, <1>5, Moves

\* Conn.PeerDiscover gives up the wait for the connection to be established.
LEMMA TimeoutStep ==
  ASSUME IInv, NEW c \in Ends, Timeout(c)
  PROVE  IInv'
<1> DEFINE k == [conn[c] EXCEPT !.disc = IF conn[c].succeed THEN "late" ELSE "closing",
                                !.closing = TRUE, !.beat = IF @ = "on" THEN "off" ELSE @]
<1>0. conn[c] \in ConnObjects /\ ConnOK(c, conn[c], tasks)
  BY ObjectOK
<1>1. UNCHANGED <<scene, wire, conns, tasks, sweeping, net>> /\ conn' = [conn EXCEPT ![c] = k]
      /\ conn[c].disc = "wait"
  BY Zenon DEF Timeout
<1>2. /\ k \in ConnObjects /\ k.est = conn[c].est /\ k.closed = conn[c].closed /\ k.pc = conn[c].pc
      /\ k.queues = conn[c].queues /\ k.succeed = conn[c].succeed /\ k.writer = conn[c].writer
      /\ k.notify = conn[c].notify /\ k.beat # "on"
      /\ (k.beat = conn[c].beat \/ conn[c].beat = "on")
  BY ZenonT(60), <1>0 DEF ConnObjects
<1> HIDE DEF k
<1>3. conn[c].pc # "none" /\ (conn[c].beat = "on" => conn[c].pc \notin Early)
  BY <1>0, <1>1 DEF ConnOK
<1>4. (k.closed => k.queues = NoQueues)
      /\ (k.writer = "wait" /\ ~k.notify /\ k.queues # NoQueues
            => \E t \in tasks : t.c = c /\ t.stage = "notify")
  BY <1>0, <1>2 DEF ConnOK
<1>5. ConnInv'
  BY Zenon, <1>1, <1>2, <1>3, <1>4, QuietStep
<1> QED  BY <1>1, <1>5, Parts DEF NetInv, Ends

\* Conn.PeerDiscover of a connection that is being closed.
LEMMA PeerDiscoverFailsStep ==
  ASSUME IInv, NEW c \in Ends, PeerDiscoverFails(c)
  PROVE  IInv'
<1> DEFINE k == [conn[c] EXCEPT !.disc = "done"]
<1>0. conn[c] \in ConnObjects /\ ConnOK(c, conn[c], tasks)
  BY ObjectOK
<1>1. UNCHANGED <<scene, wire, conns, tasks, sweeping, net>> /\ conn' = [conn EXCEPT ![c] = k]
      /\ conn[c].pc = "over"
  BY DEF PeerDiscoverFails
<1>2. /\ k \in ConnObjects /\ k.est = conn[c].est /\ k.closed = conn[c].closed /\ k.pc = conn[c].pc
      /\ k.queues = conn[c].queues /\ k.succeed = conn[c].succeed /\ k.writer = conn[c].writer
      /\ k.notify = conn[c].notify /\ k.beat = conn[c].beat
  BY <1>0 DEF ConnObjects
<1> HIDE DEF k
<1>3. conn[c].pc # "none" /\ conn[c].beat # "on"
  BY <1>0, <1>1 DEF ConnOK
<1>4. (k.closed => k.queues = NoQueues)
      /\ (k.writer = "wait" /\ ~k.notify /\ k.queues # NoQueues
            => \E t \in tasks : t.c = c /\ t.stage = "notify")
  BY <1>0, <1>2 DEF ConnOK
<1>5. ConnInv'
  BY Zenon, <1>1, <1>2, <1>3, <1>4, QuietStep
<1> QED  BY <1>1, <1>5, Parts DEF NetInv, Ends

\* Conn.loop leaves its loop when the stream is gone.
LEMMA ReadFailsStep ==
  ASSUME IInv, NEW c \in Ends, ReadFails(c)
  PROVE  IInv'
<1> DEFINE k == [conn[c] EXCEPT !.pc = "exit"]
<1>0. conn[c] \in ConnObjects /\ ConnOK(c, conn[c], tasks)
  BY ObjectOK
<1>1. UNCHANGED <<scene, wire, conns, tasks, sweeping, net>> /\ conn' = [conn EXCEPT ![c] = k]
      /\ conn[c].pc = "read"
  BY DEF ReadFails
<1>2. /\ k \in ConnObjects /\ k.est = conn[c].est /\ k.closed = conn[c].closed /\ k.pc = "exit"
      /\ k.queues = conn[c].queues /\ k.succeed = conn[c].succeed /\ k.writer = conn[c].writer
      /\ k.notify = conn[c].notify /\ k.beat = conn[c].beat
  BY ZenonT(60), <1>0 DEF ConnObjects
<1> HIDE DEF k
<1>4. (k.closed => k.queues = NoQueues)
      /\ (k.writer = "wait" /\ ~k.notify /\ k.queues # NoQueues
            => \E t \in tasks : t.c = c /\ t.stage = "notify")
  BY <1>0, <1>2 DEF ConnOK
<1>5. ConnInv'
  BY Zenon, <1>1, <1>2, <1>4, QuietStep
<1> QED  BY <1>1, <1>5, Parts DEF NetInv, Ends

\* Conn.OnPong starts the heart beat once.
LEMMA StartBeatStep ==
  ASSUME IInv, NEW c \in Ends, StartBeat(c)
  PROVE  IInv'
<1> DEFINE r == Beating(conn[c])
           k == Again(r)
<1>0. conn[c] \in ConnObjects /\ ConnOK(c, conn[c], tasks)
  BY ObjectOK
<1>1. UNCHANGED <<scene, wire, conns, tasks, sweeping, net>> /\ conn' = [conn EXCEPT ![c] = k]
      /\ conn[c].pc = "beat"
  BY DEF StartBeat
<1>2. /\ r \in ConnObjects /\ r.est = conn[c].est /\ r.closed = conn[c].closed
      /\ r.queues = conn[c].queues /\ r.succeed = conn[c].succeed /\ r.writer = conn[c].writer
      /\ r.notify = conn[c].notify
  BY ZenonT(60), <1>0 DEF ConnObjects, Beating
<1> HIDE DEF r
<1>3. /\ k \in ConnObjects /\ k.est = conn[c].est /\ k.closed = conn[c].closed
      /\ k.pc \in {"read", "exit"}
      /\ k.queues = conn[c].queues /\ k.succeed = conn[c].succeed /\ k.writer = conn[c].writer
      /\ k.notify = conn[c].notify
  BY <1>2, AgainOK DEF ConnObjects
<1> HIDE DEF k
<1>4. (k.closed => k.queues = NoQueues)
      /\ (k.writer = "wait" /\ ~k.notify /\ k.queues # NoQueues
            => \E t \in tasks : t.c = c /\ t.stage = "notify")
  BY <1>0, <1>3 DEF ConnOK
<1>5. ConnInv'
  BY Zenon, <1>1, <1>3, <1>4, QuietStep DEF Early
<1> QED  BY <1>1, <1>5, Parts DEF NetInv, Ends

\* Notifier.Notify takes a block from the loop when its channel has room.
LEMMA HandOverStep ==
  ASSUME IInv, NEW c \in Ends, HandOver(c)
  PROVE  IInv'
<1> DEFINE n == NodeOf(c)
           r == [conn[c] EXCEPT !.msg = Message("none")]
           k == Again(r)
<1>0. conn[c] \in ConnObjects /\ ConnOK(c, conn[c], tasks) /\ n \in Nodes
  BY ObjectOK, EndsOK
<1>1. /\ UNCHANGED <<scene, wire, conns, tasks, sweeping>> /\ conn' = [conn EXCEPT ![c] = k]
      /\ net' = [net EXCEPT ![n].receiveCh = Append(@, conn[c].msg.body)]
      /\ conn[c].pc = "notify"
  BY DEF HandOver
<1>2. /\ r \in ConnObjects /\ r.est = conn[c].est /\ r.closed = conn[c].closed
      /\ r.queues = conn[c].queues /\ r.succeed = conn[c].succeed /\ r.writer = conn[c].writer
      /\ r.notify = conn[c].notify /\ r.beat = conn[c].beat
  BY ZenonT(60), <1>0, MessageOK DEF ConnObjects
<1> HIDE DEF r
<1>3. /\ k \in ConnObjects /\ k.est = conn[c].est /\ k.closed = conn[c].closed
      /\ k.pc \in {"read", "exit"} /\ k.beat = conn[c].beat
      /\ k.queues = conn[c].queues /\ k.succeed = conn[c].succeed /\ k.writer = conn[c].writer
      /\ k.notify = conn[c].notify
  BY SMTT(60), <1>2, AgainOK DEF ConnObjects
<1> HIDE DEF k
<1>4. (k.closed => k.queues = NoQueues)
      /\ (k.writer = "wait" /\ ~k.notify /\ k.queues # NoQueues
            => \E t \in tasks : t.c = c /\ t.stage = "notify")
  BY <1>0, <1>3 DEF ConnOK
<1>5. ConnInv'
  BY Zenon, <1>1, <1>3, <1>4, QuietStep DEF Early
<1>6. \A m \in DOMAIN net : NodeOK(net'[m])
  <2>1. conn[c].msg.body \in Bodies
    BY ZenonT(60), <1>0 DEF ConnObjects, Messages
  <2>2. NodeOK(net[n]) /\ net'[n] = [net[n] EXCEPT !.receiveCh = Append(@, conn[c].msg.body)]
        /\ \A m \in DOMAIN net : NodeOK(net[m]) /\ (m # n => net'[m] = net[m])
    BY <1>0, <1>1 DEF IInv, Nodes
  <2> HIDE DEF n
  <2>3. NodeOK(net'[n])
    BY <2>1, <2>2 DEF NodeOK
  <2> QED  BY ZenonT(60), <2>2, <2>3
<1> QED  BY Zenon, <1>1, <1>5, <1>6, Parts DEF NetInv, Ends

\* PriorityMsgQueue.Run: the writer looks for a message, sends one, waits or stops.
LEMMA RunStep ==
  ASSUME IInv, NEW c \in Ends, Run(c)
  PROVE  IInv'
<1> DEFINE filled == {p \in DOMAIN conn[c].queues : conn[c].queues[p] # <<>>}
<1>0. /\ conn[c] \in ConnObjects /\ ConnOK(c, conn[c], tasks)
      /\ conn[c].pc # "none" /\ UNCHANGED <<scene, conns, tasks, sweeping, net>>
  BY ObjectOK DEF Run
<1>1. ASSUME NEW k, conn' = [conn EXCEPT ![c] = k], k \in ConnObjects,
             \A f \in DOMAIN k \ {"queues", "writer", "notify"} : k[f] = conn[c][f],
             conn[c].closed => k.queues = NoQueues,
             k.writer = "wait" /\ ~k.notify => k.queues = NoQueues
      PROVE  ConnInv' /\ DOMAIN conn' = DOMAIN conn
  <2>1. /\ k.est = conn[c].est /\ k.closed = conn[c].closed /\ k.pc = conn[c].pc
        /\ k.beat = conn[c].beat /\ k.succeed = conn[c].succeed
    BY ZenonT(60), <1>0, <1>1 DEF ConnObjects
  <2>2. k.beat = "on" => k.pc # "over"
    BY <1>0, <2>1 DEF ConnOK
  <2> QED  BY Zenon, <1>0, <1>1, <2>1, <2>2, QuietStep
<1>2. /\ DOMAIN conn[c].queues = Low..Top
      /\ \A p \in Low..Top : conn[c].queues[p] \in Seq(Sent)
      /\ conn[c].closed => conn[c].queues = NoQueues
  BY Zenon, <1>0 DEF ConnObjects, ConnOK
<1>3. CASE conn[c].writer = "search" /\ filled # {}
           /\ conn' = [conn EXCEPT ![c].queues[Max(filled)] = Tail(@)]
           /\ wire' = IF conn[c].open /\ c[1] \notin reset
                      THEN [wire EXCEPT ![Other(c)] = Append(@, Head(conn[c].queues[Max(filled)]))]
                      ELSE wire
  <2>0. Max(filled) \in filled
    <3>1. filled \in SUBSET {0, 1, 2}
      BY <1>2 DEF Low, Top
    <3>2. filled \in {{0}, {1}, {2}, {0, 1}, {0, 2}, {1, 2}, {0, 1, 2}}
      BY <1>3, <3>1
    <3> HIDE DEF filled
    <3>3. \E x \in filled : \A y \in filled : x >= y
      BY <3>2
    <3> QED  BY <3>3 DEF Max
  <2> DEFINE p == Max(filled)
             k == [conn[c] EXCEPT !.queues = [@ EXCEPT ![p] = Tail(conn[c].queues[p])]]
  <2>1. p \in Low..Top /\ conn[c].queues[p] \in Seq(Sent) /\ conn[c].queues[p] # <<>>
    BY Zenon, <1>2, <2>0
  <2>2. conn' = [conn EXCEPT ![c] = k]
    BY <1>3
  <2> HIDE DEF p
  <2>3. Tail(conn[c].queues[p]) \in Seq(Sent) /\ Head(conn[c].queues[p]) \in Sent
    BY <2>1
  <2>4. k \in ConnObjects /\ k.writer = "search"
        /\ \A f \in DOMAIN k \ {"queues", "writer", "notify"} : k[f] = conn[c][f]
    BY Zenon, <1>0, <1>3, <2>1, <2>3 DEF ConnObjects
  <2>5. ~conn[c].closed
    BY Zenon, <1>2, <2>1 DEF NoQueues
  <2>6. ConnInv' /\ DOMAIN conn' = DOMAIN conn
    BY Zenon, <1>1, <2>2, <2>4, <2>5
  <2>7. DOMAIN wire' = DOMAIN wire /\ \A d \in DOMAIN wire : wire'[d] \in Seq(Sent)
    <3> DEFINE x == Head(conn[c].queues[p])
    <3>1. wire' = wire \/ wire' = [wire EXCEPT ![Other(c)] = Append(@, x)]
      BY <1>3 DEF p
    <3>2. x \in Sent
      BY ZenonT(60), <2>3
    <3> HIDE DEF x
    <3>3. \A d \in DOMAIN wire : wire[d] \in Seq(Sent) /\ Append(wire[d], x) \in Seq(Sent)
      BY <3>2 DEF IInv
    <3> QED  BY ZenonT(60), <3>1, <3>3
  <2> QED  BY <1>0, <2>6, <2>7, Parts DEF NetInv
<1>4. CASE conn[c].writer = "search" /\ filled = {}
           /\ conn' = [conn EXCEPT ![c].writer = "wait"] /\ UNCHANGED wire
  <2> DEFINE k == [conn[c] EXCEPT !.writer = "wait"]
  <2>1. conn[c].queues = NoQueues
    <3>1. \A p \in Low..Top : conn[c].queues[p] = <<>>
      BY <1>2, <1>4
    <3> QED  BY Zenon, <1>0, <3>1 DEF ConnObjects, NoQueues
  <2>2. conn' = [conn EXCEPT ![c] = k]
    BY <1>4
  <2>3. k \in ConnObjects /\ k.queues = NoQueues
        /\ \A f \in DOMAIN k \ {"queues", "writer", "notify"} : k[f] = conn[c][f]
    BY <1>0, <2>1 DEF ConnObjects
  <2> HIDE DEF k
  <2>4. ConnInv' /\ DOMAIN conn' = DOMAIN conn
    BY Zenon, <1>1, <2>2, <2>3
  <2> QED  BY <1>0, <1>4, <2>4, Parts DEF NetInv
<1>5. CASE conn[c].writer = "wait" /\ conn[c].notify /\ UNCHANGED wire
           /\ conn' = [conn EXCEPT ![c].writer = "search", ![c].notify = FALSE]
  <2> DEFINE k == [conn[c] EXCEPT !.writer = "search", !.notify = FALSE]
  <2>1. conn' = [conn EXCEPT ![c] = k]
    BY Zenon, <1>5
  <2>2. k \in ConnObjects /\ k.queues = conn[c].queues /\ k.writer = "search"
        /\ \A f \in DOMAIN k \ {"queues", "writer", "notify"} : k[f] = conn[c][f]
    BY Zenon, <1>0 DEF ConnObjects
  <2> HIDE DEF k
  <2>3. ConnInv' /\ DOMAIN conn' = DOMAIN conn
    BY Zenon, <1>1, <1>2, <2>1, <2>2
  <2> QED  BY ZenonT(60), <1>0, <1>5, <2>3, Parts DEF NetInv
<1>6. CASE conn' = [conn EXCEPT ![c].writer = "stop"] /\ UNCHANGED wire
  <2> DEFINE k == [conn[c] EXCEPT !.writer = "stop"]
  <2>1. conn' = [conn EXCEPT ![c] = k]
    BY <1>6
  <2>2. k \in ConnObjects /\ k.queues = conn[c].queues /\ k.writer = "stop"
        /\ \A f \in DOMAIN k \ {"queues", "writer", "notify"} : k[f] = conn[c][f]
    BY <1>0 DEF ConnObjects
  <2> HIDE DEF k
  <2>3. ConnInv' /\ DOMAIN conn' = DOMAIN conn
    BY Zenon, <1>1, <1>2, <2>1, <2>2
  <2> QED  BY ZenonT(60), <1>0, <1>6, <2>3, Parts DEF NetInv
<1> QED  BY ZenonT(60), <1>3, <1>4, <1>5, <1>6 DEF Run

\* Conn.Close, from the end of the loop and from clearUp and ReorgConns.
LEMMA CloseStep ==
  ASSUME IInv, NEW c \in Ends, Teardown(c) \/ CloseCollected(c)
  PROVE  IInv'
<1>0. conn[c] \in ConnObjects /\ ConnOK(c, conn[c], tasks)
  BY ObjectOK
<1>1. /\ UNCHANGED <<scene, wire, tasks, net>> /\ conns' = Deregistered(c)
      /\ sweeping' \subseteq sweeping
  BY DEF Teardown, CloseCollected
<1> DEFINE z == Closed(conn[c])
           k == IF Teardown(c) THEN [z EXCEPT !.pc = "over"] ELSE z
<1>2. conn' = [conn EXCEPT ![c] = k]
  BY Zenon DEF Teardown, CloseCollected
<1>3. /\ z \in ConnObjects /\ z.closed /\ z.queues = NoQueues
      /\ z.beat # "on" /\ (z.beat = conn[c].beat \/ conn[c].beat = "on")
      /\ \A f \in {"pc", "est", "succeed", "closing", "disc", "writer", "msg"} : z[f] = conn[c][f]
  BY ZenonT(60), <1>0, ClosedOK
<1>4. \/ Teardown(c) /\ conn[c].pc = "exit" /\ k.pc = "over"
      \/ ~Teardown(c) /\ conn[c].est /\ k.pc = conn[c].pc
  BY <1>3 DEF IInv, Teardown, CloseCollected, ConnObjects
<1>5. /\ k \in ConnObjects /\ k.closed /\ k.queues = NoQueues /\ k.beat # "on"
      /\ k.est = conn[c].est /\ k.succeed = conn[c].succeed
      /\ (k.pc = conn[c].pc \/ (conn[c].pc = "exit" /\ k.pc = "over"))
  <2> HIDE DEF z
  <2> QED  BY <1>3, <1>4 DEF ConnObjects
<1> HIDE DEF k
<1>6. conn[c].pc \notin Early
  BY ZenonT(60), <1>0, <1>4 DEF ConnOK, Early
<1>7. ConnOK(c, k, tasks')
  BY <1>0, <1>1, <1>4, <1>5, <1>6 DEF ConnOK, Early
<1>8. TasksMove(c)
  BY Zenon, <1>1 DEF IInv, TasksMove, Ends
<1>9. TableMoves(c, k)
  BY <1>1, TableLess
<1>10. ConnInv'
  BY ZenonT(60), <1>1, <1>2, <1>5, <1>6, <1>7, <1>8, <1>9, Moves DEF Early
<1> QED  BY <1>1, <1>2, <1>10, Parts DEF NetInv

\* Conn.PeerDiscover asks for peers once the connection is established.
LEMMA PeerDiscoverStep ==
  ASSUME IInv, NEW c \in Ends, PeerDiscover(c)
  PROVE  IInv'
<1> DEFINE k == [conn[c] EXCEPT !.disc = "done", !.succeed = FALSE]
           t0 == Task(c, "lookup", Message("discover"))
<1>0. conn[c] \in ConnObjects /\ ConnOK(c, conn[c], tasks)
  BY ObjectOK
<1>1. /\ UNCHANGED <<scene, wire, conns, sweeping, net>> /\ conn' = [conn EXCEPT ![c] = k]
      /\ tasks' = tasks \cup {t0} /\ conn[c].succeed
  BY Zenon DEF PeerDiscover
<1>2. /\ k \in ConnObjects /\ ~k.succeed
      /\ \A f \in DOMAIN k \ {"disc", "succeed"} : k[f] = conn[c][f]
  BY ZenonT(60), <1>0 DEF ConnObjects
<1> HIDE DEF k
<1>3. conn[c].est /\ conn[c].pc \notin Early
  BY <1>0, <1>1 DEF ConnOK
<1>4. t0.c = c /\ t0.by = "lookup" /\ t0 \in Pushes(Ends)
  BY MessageOK DEF Task, Pushes
<1> HIDE DEF t0
<1>5. TasksMove(c)
  BY Zenon, <1>1, <1>4 DEF IInv, TasksMove, Ends
<1>6. /\ k.pc = conn[c].pc /\ k.est = conn[c].est /\ k.closed = conn[c].closed
      /\ k.queues = conn[c].queues /\ k.beat = conn[c].beat /\ k.writer = conn[c].writer
      /\ k.notify = conn[c].notify
  BY ZenonT(60), <1>2 DEF ConnObjects
<1>7. ConnOK(c, k, tasks')
  BY ZenonT(60), <1>0, <1>1, <1>2, <1>3, <1>4, <1>6 DEF ConnOK, Early
<1>8. TableMoves(c, k)
  BY <1>1, <1>6, TableSame
<1>9. ConnInv'
  BY Zenon, <1>1, <1>3, <1>5, <1>6, <1>7, <1>8, Moves DEF Early
<1> QED  BY ZenonT(60), <1>1, <1>9, Parts DEF NetInv

\* The goroutine of push t is done with object c.
LEMMA DoneOK ==
  ASSUME IInv, NEW t \in tasks, NEW k \in ConnObjects, NEW ok,
         k.pc = conn[t.c].pc, k.est = conn[t.c].est, k.closed = conn[t.c].closed,
         k.beat = conn[t.c].beat, k.succeed = conn[t.c].succeed, k.queues = conn[t.c].queues,
         k.writer = conn[t.c].writer,
         (t.stage = "put" /\ k.notify = conn[t.c].notify) \/ k.notify = ~k.closed,
         tasks' = tasks \ {t}, conn' = [conn EXCEPT ![t.c] = Finish(k, t, ok)],
         UNCHANGED <<scene, conns, sweeping>>, DOMAIN net' = DOMAIN net
  PROVE  ConnInv'
<1> DEFINE c == t.c
           z == Finish(k, t, ok)
<1>0. c \in Ends /\ conn[c] \in ConnObjects /\ ConnOK(c, conn[c], tasks)
  <2>1. c \in Ends
    BY ZenonT(60) DEF IInv, Pushes, Ends
  <2> QED  BY <2>1, ObjectOK
<1>1. /\ z \in ConnObjects /\ z.est = conn[c].est /\ z.closed = conn[c].closed
      /\ z.beat = conn[c].beat /\ z.succeed = conn[c].succeed /\ z.queues = conn[c].queues
      /\ z.writer = conn[c].writer /\ z.notify = k.notify
      /\ IF t.by = "loop" THEN z.pc \in {"read", "exit"} ELSE z.pc = conn[c].pc
  <2>1. z \in ConnObjects /\ IF t.by = "loop" THEN z.pc \in {"read", "exit"} ELSE z = k
    BY SMTT(60), FinishOK
  <2>2. /\ z.est = k.est /\ z.closed = k.closed /\ z.beat = k.beat /\ z.succeed = k.succeed
        /\ z.queues = k.queues /\ z.writer = k.writer /\ z.notify = k.notify
    BY SMTT(60), FinishFields
  <2> HIDE DEF z
  <2> QED  BY ZenonT(60), <2>1, <2>2
<1> HIDE DEF z
<1>2. conn[c].pc \notin Early /\ (t.by = "loop" => conn[c].pc = "push")
  BY <1>0 DEF ConnOK
<1>3. z.pc \notin Early /\ (t.by # "loop" => z.pc = conn[c].pc)
  BY Zenon, <1>1, <1>2 DEF Early
<1> HIDE DEF c
<1>4. ConnOK(c, z, tasks')
  <2>1. z.closed => z.queues = NoQueues /\ (z.est \/ z.pc = "over")
    BY Zenon, <1>0, <1>1, <1>2 DEF ConnOK
  <2>2. (z.succeed => z.est) /\ (z.pc = "over" => z.beat # "on")
    BY Zenon, <1>0, <1>1 DEF ConnOK
  <2>3. ASSUME NEW u \in tasks', u.c = c
        PROVE  u.by = "loop" => z.pc = "push"
    BY Zenon, <1>0, <1>1, <2>3 DEF ConnOK, c
  <2>4. z.writer = "wait" /\ ~z.notify /\ z.queues # NoQueues
          => \E u \in tasks' : u.c = c /\ u.stage = "notify"
    <3>1. CASE t.stage = "put" /\ k.notify = conn[c].notify
      BY <1>0, <1>1, <3>1 DEF ConnOK
    <3>2. CASE k.notify = ~k.closed
      BY ZenonT(60), <1>1, <2>1, <3>2 DEF c
    <3> QED  BY ZenonT(60), <3>1, <3>2 DEF c
  <2>5. \A u, v \in tasks' : u.c = c /\ v.c = c /\ u.by = "loop" /\ v.by = "loop" => u = v
    BY ZenonT(60), <1>0 DEF ConnOK
  <2>6. z.pc \notin {"none", "dial", "unused"}
    BY <1>3 DEF Early
  <2> QED  BY Zenon, <1>1, <1>3, <2>1, <2>2, <2>3, <2>4, <2>5, <2>6 DEF ConnOK
<1>5. TasksMove(c)
  BY Zenon DEF IInv, TasksMove, Ends, c
<1>6. TableMoves(c, z)
  BY Zenon, <1>1, TableSame
<1>7. conn' = [conn EXCEPT ![c] = z]
  BY DEF c, z
<1> QED  BY ZenonT(60), <1>0, <1>1, <1>2, <1>3, <1>4, <1>5, <1>6, <1>7, Moves DEF Early

\* PriorityMsgQueue.Push wakes the writer.
LEMMA NotifyStep ==
  ASSUME IInv, NEW t \in tasks, Notify(t)
  PROVE  IInv'
<1> DEFINE k == [conn[t.c] EXCEPT !.notify = ~conn[t.c].closed]
<1>0. t.c \in Ends
  BY DEF IInv, Pushes, Ends
<1>1. conn[t.c] \in ConnObjects
  BY <1>0, ObjectOK
<1>2. /\ UNCHANGED <<scene, wire, conns, sweeping, net>> /\ tasks' = tasks \ {t}
      /\ conn' = [conn EXCEPT ![t.c] = Finish(k, t, TRUE)]
  BY DEF Notify
<1>3. /\ k \in ConnObjects /\ k.notify = ~conn[t.c].closed
      /\ k.pc = conn[t.c].pc /\ k.est = conn[t.c].est /\ k.closed = conn[t.c].closed
      /\ k.beat = conn[t.c].beat /\ k.succeed = conn[t.c].succeed /\ k.queues = conn[t.c].queues
      /\ k.writer = conn[t.c].writer
  BY Zenon, <1>1 DEF ConnObjects
<1> HIDE DEF k
<1>4. ConnInv'
  BY ZenonT(60), <1>2, <1>3, DoneOK
<1> QED  BY Zenon, <1>2, <1>4, Parts DEF NetInv

\* Conn.Write and PriorityMsgQueue.Push put a message into its queue, or refuse it.
LEMMA PutStep ==
  ASSUME IInv, NEW t \in tasks, Put(t)
  PROVE  IInv'
<1> DEFINE c == t.c
           n == NodeOf(c)
           k == conn[c]
<1>0. /\ c \in Ends /\ n \in Nodes /\ t.m \in Sent /\ NodeOK(net[n])
      /\ t.stage = "put" /\ t \in Pushes(Ends)
  <2>1. c \in Ends /\ t.m \in Sent /\ t \in Pushes(Ends)
    BY DEF IInv, Pushes, Ends
  <2>2. n \in Nodes
    BY ZenonT(60), <2>1, EndsOK
  <2> QED  BY SMTT(30), <2>1, <2>2 DEF IInv, Put, Nodes
<1>1. k \in ConnObjects /\ ConnOK(c, k, tasks)
  BY ZenonT(60), <1>0, ObjectOK
<1>2. UNCHANGED <<scene, wire, conns, sweeping>>
  BY DEF Put
<1> HIDE DEF n, k
<1>3. CASE ~NeedToRelay(n, t.m)
  <2>1. tasks' = tasks \ {t} /\ UNCHANGED <<conn, net>>
    BY Zenon, <1>3 DEF Put, n, c
  <2>2. ConnInv'
    BY Zenon, <1>0, <1>2, <2>1, Stays DEF IInv, Ends
  <2> QED  BY <1>2, <2>1, <2>2, Parts DEF NetInv
<1>4. CASE NeedToRelay(n, t.m)
  <2>0. Reserved(n, t.m) \in Sent /\ Priority(t.m) \in Low..Top /\ NodeOK(Remember(net[n], t.m))
    BY <1>0, <1>4, ReservedOK
  <2>1. net' = [net EXCEPT ![n] = Remember(net[n], t.m)]
    BY ZenonT(60), <1>4 DEF Put, n, c, k
  <2>2. DOMAIN net' = DOMAIN net /\ \A x \in DOMAIN net : NodeOK(net'[x])
    BY <2>0, <2>1 DEF IInv
  <2>3. CASE ~HasRoom(k, t.m)
    <3>1. tasks' = tasks \ {t} /\ conn' = [conn EXCEPT ![t.c] = Finish(k, t, FALSE)]
      BY Zenon, <1>4, <2>3 DEF Put, n, c, k
    <3>2. ConnInv'
      BY Zenon, <1>0, <1>1, <1>2, <2>2, <3>1, DoneOK DEF k
    <3> QED  BY Zenon, <1>2, <2>2, <3>1, <3>2, Parts DEF NetInv, IInv
  <2>4. CASE HasRoom(k, t.m)
    <3> DEFINE p == Priority(t.m)
               q == Append(k.queues[p], Reserved(n, t.m))
               z == [k EXCEPT !.queues = [k.queues EXCEPT ![p] = q]]
               t1 == [t EXCEPT !.stage = "notify"]
    <3>1. tasks' = (tasks \ {t}) \cup {t1} /\ conn' = [conn EXCEPT ![c] = z]
      BY ZenonT(60), <1>4, <2>4 DEF Put, n, c, k
    <3>2. q \in Seq(Sent) /\ ~k.closed
      <4>1. k.queues[p] \in Seq(Sent)
        BY Zenon, <1>1, <2>0 DEF ConnObjects
      <4> QED  BY <2>0, <2>4, <4>1 DEF HasRoom
    <3> HIDE DEF p, q
    <3>3. z \in ConnObjects /\ \A f \in DOMAIN z \ {"queues"} : z[f] = k[f]
      BY Zenon, <1>1, <2>0, <3>2 DEF ConnObjects, p
    <3>4. /\ z.pc = k.pc /\ z.est = k.est /\ z.closed = k.closed /\ z.beat = k.beat
          /\ z.succeed = k.succeed /\ z.disc = k.disc
      BY <3>3 DEF ConnObjects
    <3> HIDE DEF z
    <3>5. t1 \in Pushes(Ends) /\ t1.c = c /\ t1.by = t.by /\ t1.stage = "notify"
      BY Zenon, <1>0 DEF Pushes
    <3> HIDE DEF t1
    <3>6. ConnOK(c, z, tasks')
      <4>1. \A u \in tasks' : u.c = c => z.pc \notin Early /\ (u.by = "loop" => z.pc = "push")
        BY <1>1, <3>1, <3>4, <3>5 DEF ConnOK
      <4>2. t1 \in tasks'
        BY <3>1
      <4>3. ASSUME NEW u \in tasks', NEW v \in tasks', u.c = c, v.c = c, u.by = "loop", v.by = "loop"
            PROVE  u = v
        <5>1. \A x \in tasks \ {t} : ~(x.c = c /\ x.by = "loop" /\ t.by = "loop")
          BY ZenonT(60), <1>1 DEF ConnOK
        <5>2. \A x, y \in tasks : x.c = c /\ y.c = c /\ x.by = "loop" /\ y.by = "loop" => x = y
          BY <1>1 DEF ConnOK
        <5> QED  BY Zenon, <3>1, <3>5, <4>3, <5>1, <5>2
      <4> QED  BY ZenonT(60), <1>1, <3>2, <3>3, <3>4, <3>5, <4>1, <4>2, <4>3 DEF ConnOK
    <3>7. TasksMove(c)
      BY Zenon, <3>1, <3>5 DEF IInv, TasksMove, Ends
    <3>8. TableMoves(c, z)
      BY Zenon, <1>2, <3>4, TableSame DEF k
    <3>9. k.pc \notin Early
      BY <1>1 DEF ConnOK
    <3>10. ConnInv'
      BY Zenon, <1>0, <1>2, <2>2, <3>1, <3>4, <3>6, <3>7, <3>8, <3>9, Moves DEF k, Early
    <3> QED  BY ZenonT(60), <1>2, <2>2, <3>1, <3>10, Parts DEF NetInv, IInv
  <2> QED  BY <2>3, <2>4
<1> QED  BY ZenonT(60), <1>3, <1>4

\* Dial: the stream is opened and the other node keeps its end, or not.
LEMMA DialStep ==
  ASSUME IInv, NEW c \in Ends, Dial(c)
  PROVE  IInv'
<1> DEFINE o == Other(c)
           k == conn[c]
<1>0. /\ k \in ConnObjects /\ ConnOK(c, k, tasks) /\ k.pc = "dial" /\ c[2] = 1
      /\ o \in Ends /\ o # c /\ o = <<c[1], 2>> /\ c = <<c[1], 1>> /\ c[1] \in Streams
  <2>1. k \in ConnObjects /\ ConnOK(c, k, tasks) /\ k.pc = "dial"
    BY ZenonT(60), ObjectOK DEF Dial
  <2>2. c[2] = 1
    BY <2>1 DEF ConnOK
  <2> QED  BY <2>1, <2>2, EndsOK DEF Other
<1>1. conn[o] = None /\ ConnOK(o, None, tasks)
  <2>1. conn[o] = None
    BY <1>0 DEF IInv
  <2> QED  BY ZenonT(60), <1>0, <2>1, ObjectOK
<1>2. UNCHANGED <<scene, wire, conns, sweeping, net>>
  BY ZenonT(60) DEF Dial
<1>3. \A t \in tasks : t.c # c /\ t.c # o
  BY <1>0, <1>1 DEF ConnOK, Early, None, NewConn
<1> DEFINE t0 == Task(c, "loop", Message("ping"))
<1>4. t0 \in Pushes(Ends) /\ t0.c = c /\ t0.by = "loop"
  BY MessageOK DEF Task, Pushes
<1> HIDE DEF t0, o, k
<1>5. ASSUME NEW x, NEW y, conn' = [conn EXCEPT ![c] = x, ![o] = y],
             x \in ConnObjects, y \in ConnObjects,
             x.est = k.est, x.closed = k.closed, x.beat = k.beat, x.succeed = k.succeed,
             x.queues = k.queues, x.notify = k.notify, x.writer = k.writer,
             ~y.est, ~y.closed, y.beat = "none", ~y.succeed, y.queues = NoQueues,
             \/ x.pc = "push" /\ tasks' = tasks \cup {t0}
             \/ x.pc = "exit" /\ tasks' = tasks,
             y.pc \in {"read", "over", "unused"}
      PROVE  ConnInv'
  <2>0. /\ DOMAIN conn' = DOMAIN conn /\ conn'[c] = x /\ conn'[o] = y
        /\ \A d \in DOMAIN conn \ {c, o} : conn'[d] = conn[d]
        /\ Streams' = Streams
    BY <1>0, <1>2, <1>5 DEF Ends, Streams
  <2>1. /\ ~k.est /\ ~k.closed /\ k.beat = "none" /\ ~k.succeed
    BY Zenon, <1>0 DEF ConnOK, Early, ConnObjects
  <2>2. ConnOK(c, x, tasks')
    <3>1. x.writer = "wait" /\ ~x.notify => x.queues = NoQueues
      BY Zenon, <1>0, <1>3, <1>5 DEF ConnOK
    <3>2. \A t \in tasks' : t.c = c => t = t0 /\ x.pc = "push"
      BY <1>3, <1>5
    <3>3. ~x.est /\ ~x.closed /\ x.beat = "none" /\ ~x.succeed /\ x.pc \notin {"dial", "none", "unused"}
      BY Zenon, <1>5, <2>1
    <3> QED  BY Zenon, <1>4, <1>5, <3>1, <3>2, <3>3 DEF ConnOK, Early
  <2>3. ConnOK(o, y, tasks')
    <3>2. \A t \in tasks' : t.c # o
      BY ZenonT(60), <1>0, <1>3, <1>4, <1>5
    <3>3. y.pc = "unused" \/ y.pc \notin Early
      BY <1>5 DEF Early
    <3> QED  BY ZenonT(60), <1>5, <3>2, <3>3 DEF ConnOK
  <2>4. ASSUME NEW d \in DOMAIN conn \ {c, o}
        PROVE  ConnOK(d, conn'[d], tasks')
    <3>1. ConnOK(d, conn[d], tasks) /\ conn'[d] = conn[d]
      BY Zenon, <2>0 DEF IInv
    <3>2. \A t \in tasks' : t.c = d => t \in tasks
      BY <1>4, <1>5
    <3>3. \A t \in tasks : t \in tasks'
      BY Zenon, <1>5
    <3> QED  BY Zenon, <3>1, <3>2, <3>3, OthersOK
  <2>5. ASSUME NEW s \in Streams, conn'[<<s, 1>>].pc \in {"none", "dial"}
        PROVE  conn'[<<s, 2>>] = None
    <3>1. s # c[1]
      BY ZenonT(60), <1>0, <1>5, <2>0, <2>5
    <3>2. <<s, 1>> \in DOMAIN conn \ {c, o} /\ <<s, 2>> \in DOMAIN conn \ {c, o}
      BY SMTT(30), <1>0, <3>1 DEF IInv
    <3> QED  BY ZenonT(60), <2>0, <2>5, <3>2 DEF IInv
  <2>6. TableOK(scene, conn', conns, DOMAIN net)
    <3>1. \A a, p \in DOMAIN net : conns[a][p] # c /\ conns[a][p] # o
      <4>1. ~conn[c].est /\ ~conn[o].est
        BY Zenon, <1>1, <2>1, NoneNotEst DEF k
      <4>2. c # NoConn /\ o # NoConn
        BY Zenon, <1>0, EndsOK
      <4> QED  BY Zenon, <4>1, <4>2 DEF IInv, TableOK
    <3> QED  BY SMTT(30), <2>0, <3>1 DEF IInv, TableOK
  <2>7. \A d \in sweeping : d \in DOMAIN conn' /\ conn'[d].est
    <3>1. ~conn[c].est /\ ~conn[o].est
      BY Zenon, <1>1, <2>1, NoneNotEst DEF k
    <3> QED  BY ZenonT(60), <2>0, <3>1 DEF IInv
  <2>8. tasks' \subseteq Pushes(DOMAIN conn)
    BY Zenon, <1>4, <1>5 DEF IInv, Ends
  <2> QED  BY ZenonT(60), <1>2, <2>0, <2>2, <2>3, <2>4, <2>5, <2>6, <2>7, <2>8 DEF ConnInv, IInv
<1>6. ConnInv' /\ DOMAIN conn' = DOMAIN conn
  <2> DEFINE x == [k EXCEPT !.pc = "push", !.open = TRUE]
             e == [k EXCEPT !.pc = "exit"]
             y == [conn[o] EXCEPT !.pc = "over"]
             z == [conn[o] EXCEPT !.pc = "unused"]
  <2>1. /\ x \in ConnObjects /\ x.pc = "push"
        /\ x.est = k.est /\ x.closed = k.closed /\ x.beat = k.beat /\ x.succeed = k.succeed
        /\ x.queues = k.queues /\ x.notify = k.notify /\ x.writer = k.writer
    BY Zenon, <1>0 DEF ConnObjects
  <2>2. /\ e \in ConnObjects /\ e.pc = "exit"
        /\ e.est = k.est /\ e.closed = k.closed /\ e.beat = k.beat /\ e.succeed = k.succeed
        /\ e.queues = k.queues /\ e.notify = k.notify /\ e.writer = k.writer
    BY Zenon, <1>0 DEF ConnObjects
  <2>3. /\ ~None.est /\ ~None.closed /\ None.beat = "none" /\ ~None.succeed
        /\ None.queues = NoQueues /\ None \in ConnObjects
    BY NewConnOK DEF None, NewConn
  <2>4. /\ handleStream \in ConnObjects /\ handleStream.pc = "read"
        /\ ~handleStream.est /\ ~handleStream.closed /\ handleStream.beat = "none"
        /\ ~handleStream.succeed /\ handleStream.queues = NoQueues
    BY NewConnOK DEF handleStream, NewConn
  <2>5. /\ y \in ConnObjects /\ y.pc = "over" /\ z \in ConnObjects /\ z.pc = "unused"
        /\ ~y.est /\ ~y.closed /\ y.beat = "none" /\ ~y.succeed /\ y.queues = NoQueues
        /\ ~z.est /\ ~z.closed /\ z.beat = "none" /\ ~z.succeed /\ z.queues = NoQueues
    BY <1>1, <2>3 DEF ConnObjects
  <2>6. \/ conn' = [conn EXCEPT ![c] = x, ![o] = handleStream] /\ tasks' = tasks \cup {t0}
        \/ conn' = [conn EXCEPT ![c] = x, ![o] = y] /\ tasks' = tasks \cup {t0}
        \/ conn' = [conn EXCEPT ![c] = e, ![o] = z] /\ tasks' = tasks
    BY Zenon, <1>0 DEF Dial, t0, o, k
  <2> HIDE DEF x, e, y, z
  <2>7. CASE conn' = [conn EXCEPT ![c] = x, ![o] = handleStream] /\ tasks' = tasks \cup {t0}
    BY Zenon, <1>5, <2>1, <2>4, <2>7
  <2>8. CASE conn' = [conn EXCEPT ![c] = x, ![o] = y] /\ tasks' = tasks \cup {t0}
    BY Zenon, <1>5, <2>1, <2>5, <2>8
  <2>9. CASE conn' = [conn EXCEPT ![c] = e, ![o] = z] /\ tasks' = tasks
    BY Zenon, <1>5, <2>2, <2>5, <2>9
  <2> QED  BY <2>6, <2>7, <2>8, <2>9
<1> QED  BY Zenon, <1>2, <1>6, Parts DEF NetInv, IInv

\* Read: the object and the pushes after a message that is not handed over.
LEMMA ReadMoves ==
  ASSUME IInv, NEW c \in Ends, NEW k, conn' = [conn EXCEPT ![c] = k], conn[c].pc = "read",
         UNCHANGED <<scene, sweeping>>, DOMAIN net' = DOMAIN net,
         k \in ConnObjects, k.closed = conn[c].closed, k.beat = conn[c].beat,
         k.queues = conn[c].queues, k.notify = conn[c].notify, k.writer = conn[c].writer,
         \/ k.est = conn[c].est /\ k.succeed = conn[c].succeed /\ conns' = conns
         \/ ~conn[c].est /\ k.est /\ conns' = Registered(c),
         \/ k.pc \in {"read", "exit", "beat", "notify"} /\ tasks' = tasks
         \/ k.pc = "push" /\ \E code \in {"pong", "reply"} :
                               tasks' = tasks \cup {Task(c, "loop", Message(code))}
  PROVE  ConnInv'
<1>0. conn[c] \in ConnObjects /\ ConnOK(c, conn[c], tasks)
  BY Zenon, ObjectOK
<1>1. \A t \in tasks : t.c = c => t.by # "loop"
  BY ZenonT(60), <1>0 DEF ConnOK
<1>2. /\ tasks' \subseteq Pushes(Ends) /\ tasks \subseteq tasks'
      /\ \A t \in tasks' \ tasks : t.c = c /\ k.pc = "push"
      /\ \A t, u \in tasks' \ tasks : t = u
  <2>1. CASE tasks' = tasks
    BY ZenonT(60), <2>1 DEF IInv, Ends
  <2>2. CASE k.pc = "push" /\ \E code \in {"pong", "reply"} :
                                tasks' = tasks \cup {Task(c, "loop", Message(code))}
    BY SMTT(30), <2>2, MessageOK DEF IInv, Task, Pushes, Ends
  <2> QED  BY <2>1, <2>2
<1>3. k.pc \notin Early /\ k.pc # "over"
  BY Zenon DEF Early
<1>4. ConnOK(c, k, tasks')
  <2>1. k.closed => k.queues = NoQueues /\ k.est
    BY <1>0 DEF ConnOK
  <2>2. k.succeed => k.est
    BY Zenon, <1>0 DEF ConnOK
  <2>3. \A t \in tasks' : t.c = c => (t.by = "loop" => k.pc = "push")
    BY Zenon, <1>1, <1>2
  <2>4. k.writer = "wait" /\ ~k.notify /\ k.queues # NoQueues
          => \E t \in tasks' : t.c = c /\ t.stage = "notify"
    BY Zenon, <1>0, <1>2 DEF ConnOK
  <2>5. \A t, u \in tasks' : t.c = c /\ u.c = c /\ t.by = "loop" /\ u.by = "loop" => t = u
    BY ZenonT(60), <1>1, <1>2
  <2> QED  BY ZenonT(60), <1>3, <2>1, <2>2, <2>3, <2>4, <2>5 DEF ConnOK, Early
<1>5. TasksMove(c)
  BY Zenon, <1>2 DEF TasksMove
<1>6. TableMoves(c, k)
  <2>1. CASE k.est = conn[c].est /\ conns' = conns
    BY SMTT(30), <2>1, TableSame
  <2>2. CASE ~conn[c].est /\ k.est /\ conns' = Registered(c)
    <3>1. ~k.closed
      BY SMTT(30), <1>0, <2>2 DEF ConnOK
    <3> QED  BY ZenonT(60), <2>2, <3>1, TableNew
  <2> QED  BY ZenonT(60), <2>1, <2>2
<1> QED  BY ZenonT(60), <1>3, <1>4, <1>5, <1>6, Moves DEF Early

\* Conn.readMessage and Conn.Handle, for every message.
LEMMA ReadStep ==
  ASSUME IInv, NEW c \in Ends, Read(c)
  PROVE  IInv'
<1> DEFINE n == NodeOf(c)
           k == conn[c]
           m == Head(wire[c])
<1>0. /\ k \in ConnObjects /\ ConnOK(c, k, tasks) /\ n \in Nodes /\ NodeOK(net[n])
      /\ k.pc = "read" /\ wire[c] \in Seq(Sent) /\ wire[c] # <<>>
  <2>1. n \in Nodes
    BY ZenonT(60), EndsOK
  <2> QED  BY ZenonT(60), <2>1, ObjectOK DEF IInv, Read, Nodes, Ends
<1>1. m \in Sent /\ Tail(wire[c]) \in Seq(Sent)
  BY <1>0
<1>2. m \in Messages /\ m.code \in {"ping", "pong", "discover", "reply", "block"}
  BY ZenonT(60), <1>1 DEF Sent, Messages
<1>3. /\ UNCHANGED <<scene, sweeping>> /\ wire' = [wire EXCEPT ![c] = Tail(wire[c])]
      /\ net' = IF Duplicate(net[n], m) THEN net
                ELSE [net EXCEPT ![n] = Noted(Remember(net[n], m), m)]
  BY SMTT(30) DEF Read
<1>4. DOMAIN wire' = DOMAIN wire /\ \A d \in DOMAIN wire : wire'[d] \in Seq(Sent)
  BY Zenon, <1>1, <1>3 DEF IInv
<1>5. DOMAIN net' = DOMAIN net /\ \A x \in DOMAIN net : NodeOK(net'[x])
  <2>1. NodeOK(Noted(Remember(net[n], m), m))
    <3>1. m.body \in Bodies /\ m.times \in Nat
      BY <1>2 DEF Messages
    <3>2. NodeOK(Remember(net[n], m))
      BY <1>0, <3>1 DEF NodeOK, Remember
    <3> QED  BY <3>1, <3>2 DEF NodeOK, Noted
  <2> QED  BY ZenonT(60), <1>3, <2>1 DEF IInv
<1>6. \/ conn' = [conn EXCEPT ![c] = Again(k)] /\ conns' = conns /\ tasks' = tasks
      \/ /\ conn' = [conn EXCEPT ![c] = [Established(k) EXCEPT !.pc = "push"]]
         /\ conns' = Registered(c)
         /\ tasks' = tasks \cup {Task(c, "loop", Message("pong"))}
      \/ /\ ~k.est /\ conn' = [conn EXCEPT ![c] = [Established(k) EXCEPT !.pc = "beat"]]
         /\ conns' = Registered(c) /\ tasks' = tasks
      \/ conn' = [conn EXCEPT ![c] = [k EXCEPT !.pc = "exit"]] /\ conns' = conns /\ tasks' = tasks
      \/ /\ conn' = [conn EXCEPT ![c] = [k EXCEPT !.pc = "push"]]
         /\ conns' = conns
         /\ tasks' = tasks \cup {Task(c, "loop", Message("reply"))}
      \/ /\ conn' = [conn EXCEPT ![c] = [k EXCEPT !.pc = "notify", !.msg = m]]
         /\ conns' = conns /\ tasks' = tasks
  BY ZenonT(60), ReadCases
<1> HIDE DEF n, m
<1>7. ConnInv' /\ DOMAIN conn' = DOMAIN conn
  <2>1. /\ Established(k) \in ConnObjects /\ Established(k).est
        /\ \A f \in {"closed", "beat", "queues", "notify", "writer"} : Established(k)[f] = k[f]
        /\ k.est => Established(k) = k
    BY ZenonT(60), <1>0 DEF Established, ConnObjects
  <2>2. /\ Established(k).closed = k.closed /\ Established(k).beat = k.beat
        /\ Established(k).queues = k.queues /\ Established(k).notify = k.notify
        /\ Established(k).writer = k.writer
    BY <2>1
  <2> DEFINE e == Established(k)
             Same(z) == /\ z \in ConnObjects /\ z.closed = k.closed /\ z.beat = k.beat
                        /\ z.queues = k.queues /\ z.notify = k.notify /\ z.writer = k.writer
             Est(z) == z.est = k.est /\ z.succeed = k.succeed
  <2>3. Same(Again(k)) /\ Est(Again(k)) /\ Again(k).pc \in {"read", "exit"}
    BY <1>0, AgainOK DEF ConnObjects
  <2>4. \A pc \in {"push", "beat"} :
          Same([e EXCEPT !.pc = pc]) /\ [e EXCEPT !.pc = pc].est /\ [e EXCEPT !.pc = pc].pc = pc
          /\ (k.est => Est([e EXCEPT !.pc = pc]))
    <3> HIDE DEF e
    <3> QED  BY <2>1, <2>2 DEF ConnObjects, e
  <2>5. \A pc \in {"push", "exit"} :
          Same([k EXCEPT !.pc = pc]) /\ Est([k EXCEPT !.pc = pc]) /\ [k EXCEPT !.pc = pc].pc = pc
    BY <1>0 DEF ConnObjects
  <2>6. LET z == [k EXCEPT !.pc = "notify", !.msg = m] IN Same(z) /\ Est(z) /\ z.pc = "notify"
    BY Zenon, <1>0, <1>2 DEF ConnObjects
  <2>7. k.est => Registered(c) = conns
    BY DEF Registered
  <2>8. PICK z : /\ conn' = [conn EXCEPT ![c] = z] /\ Same(z)
                 /\ \/ Est(z) /\ conns' = conns
                    \/ ~k.est /\ z.est /\ conns' = Registered(c)
                 /\ \/ z.pc \in {"read", "exit", "beat", "notify"} /\ tasks' = tasks
                    \/ z.pc = "push" /\ \E code \in {"pong", "reply"} :
                                          tasks' = tasks \cup {Task(c, "loop", Message(code))}
    <3> HIDE DEF e, k, Same, Est
    <3>1. CASE conn' = [conn EXCEPT ![c] = Again(k)] /\ conns' = conns /\ tasks' = tasks
      BY Zenon, <2>3, <3>1
    <3>2. CASE /\ conn' = [conn EXCEPT ![c] = [e EXCEPT !.pc = "push"]]
               /\ conns' = Registered(c)
               /\ tasks' = tasks \cup {Task(c, "loop", Message("pong"))}
      BY Zenon, <2>4, <2>7, <3>2
    <3>3. CASE /\ ~k.est /\ conn' = [conn EXCEPT ![c] = [e EXCEPT !.pc = "beat"]]
               /\ conns' = Registered(c) /\ tasks' = tasks
      BY Zenon, <2>4, <3>3
    <3>4. CASE conn' = [conn EXCEPT ![c] = [k EXCEPT !.pc = "exit"]] /\ conns' = conns /\ tasks' = tasks
      BY Zenon, <2>5, <3>4
    <3>5. CASE /\ conn' = [conn EXCEPT ![c] = [k EXCEPT !.pc = "push"]]
               /\ conns' = conns
               /\ tasks' = tasks \cup {Task(c, "loop", Message("reply"))}
      BY Zenon, <2>5, <3>5
    <3>6. CASE /\ conn' = [conn EXCEPT ![c] = [k EXCEPT !.pc = "notify", !.msg = m]]
               /\ conns' = conns /\ tasks' = tasks
      BY ZenonT(60), <2>6, <3>6
    <3> QED  BY ZenonT(60), <1>6, <3>1, <3>2, <3>3, <3>4, <3>5, <3>6 DEF e
  <2> QED  BY Zenon, <1>0, <1>3, <1>5, <2>8, ReadMoves
<1> QED  BY Zenon, <1>3, <1>4, <1>5, <1>7, Parts DEF NetInv, IInv

\* Conn.heartBeatService pushes a ping.
LEMMA BeatStep ==
  ASSUME IInv, NEW c \in Ends, heartBeatService(c)
  PROVE  IInv'
<1> DEFINE t0 == Task(c, "beat", Message("ping"))
<1>1. UNCHANGED <<scene, conn, wire, conns, sweeping, net>> /\ tasks' = tasks \cup {t0}
      /\ conn[c].beat = "on"
  BY SMTT(30) DEF heartBeatService
<1>2. conn[c].pc \notin Early
  BY <1>1, ObjectOK DEF ConnOK
<1>3. t0 \in Pushes(Ends) /\ t0.c = c /\ t0.by = "beat"
  BY MessageOK DEF Task, Pushes
<1> HIDE DEF t0
<1>4. ConnInv'
  BY ZenonT(60), <1>1, <1>2, <1>3, Stays DEF IInv, Ends
<1> QED  BY <1>1, <1>4, Parts DEF NetInv

\* clearUp and ReorgConns collect established connections and close them later.
LEMMA CollectStep ==
  ASSUME IInv, NEW n \in Nodes, Collect(n)
  PROVE  IInv'
<1>1. PICK c \in Range(conns[n]) \ {NoConn} : sweeping' = sweeping \cup {c}
  BY DEF Collect
<1>2. UNCHANGED <<scene, conn, wire, conns, tasks, net>>
  BY ZenonT(60) DEF Collect
<1>3. DOMAIN conns[n] = Nodes
  BY ZenonT(60) DEF IInv, TableOK, Nodes
<1>4. PICK p \in Nodes : conns[n][p] = c
  BY ZenonT(60), <1>1, <1>3 DEF Range
<1>5. c \in Ends /\ conn[c].est
  BY <1>1, <1>4, TableEntry
<1>6. ConnInv'
  BY ZenonT(60), <1>1, <1>2, <1>5, Stays DEF IInv, Ends
<1> QED  BY <1>2, <1>6, Parts DEF NetInv

\* BoxPeer.Broadcast pushes a block of the node to its peers.
LEMMA BroadcastStep ==
  ASSUME IInv, NEW n \in Nodes, Broadcast(n)
  PROVE  IInv'
<1>1. /\ UNCHANGED <<scene, conn, wire, conns, sweeping>>
      /\ net' = [net EXCEPT ![n].known = @ \cup {n}]
      /\ tasks' = tasks \cup Sends(n, Peers(n), n)
  BY SMTT(30) DEF Broadcast
<1>2. n \in Bodies
  BY DEF IInv, Nodes, Bodies
<1>3. ConnInv'
  BY Zenon, <1>1, <1>2, SendsOK, Stays DEF IInv, Ends
<1>4. NodeOK(net'[n])
  BY <1>1, <1>2 DEF IInv, Nodes, NodeOK
<1> QED  BY Zenon, <1>1, <1>3, <1>4, Parts DEF NetInv, IInv, Nodes

\* Notifier.Loop passes a block on to its subscriber, or drops it.
LEMMA DispatchStep ==
  ASSUME IInv, NEW n \in Nodes, Dispatch(n)
  PROVE  IInv'
<1> DEFINE r == net[n]
           h == IF Len(r.handler) < HandlerCap THEN Append(r.handler, Head(r.receiveCh)) ELSE r.handler
<1>1. /\ UNCHANGED <<scene, conn, wire, conns, tasks, sweeping>> /\ r.receiveCh # <<>>
      /\ net' = [net EXCEPT ![n] = [r EXCEPT !.receiveCh = Tail(r.receiveCh), !.handler = h]]
  BY Zenon DEF Dispatch
<1>2. NodeOK(r)
  BY Zenon DEF IInv, Nodes
<1>3. r.receiveCh \in Seq(Bodies) /\ r.handler \in Seq(Bodies)
  BY <1>2 DEF NodeOK
<1>4. Head(r.receiveCh) \in Bodies /\ Tail(r.receiveCh) \in Seq(Bodies)
  BY <1>1, <1>3
<1>5. h \in Seq(Bodies)
  BY <1>3, <1>4
<1> HIDE DEF h
<1>6. NodeOK(net'[n])
  BY <1>1, <1>2, <1>4, <1>5 DEF IInv, Nodes, NodeOK
<1>7. ConnInv'
  BY Zenon, <1>1, Stays DEF IInv, Ends
<1> QED  BY Zenon, <1>1, <1>6, <1>7, Parts DEF NetInv, IInv, Nodes

\* The handler takes a block, and BoxPeer.Relay pushes a new one to some peers.
LEMMA RelayStep ==
  ASSUME IInv, NEW n \in Nodes, Relay(n)
  PROVE  IInv'
<1> DEFINE r == net[n]
           body == Head(r.handler)
<1>1. /\ UNCHANGED <<scene, conn, wire, conns, sweeping>> /\ r.handler # <<>>
      /\ net' = [net EXCEPT ![n] = [r EXCEPT !.handler = Tail(r.handler), !.known = @ \cup {body}]]
      /\ \/ tasks' = tasks
         \/ \E to \in SUBSET Peers(n) : tasks' = tasks \cup Sends(n, to, body)
  BY Zenon DEF Relay, kSubset
<1>2. NodeOK(r)
  BY ZenonT(60) DEF IInv, Nodes
<1>3. r.handler \in Seq(Bodies)
  BY <1>2 DEF NodeOK
<1>4. body \in Bodies /\ Tail(r.handler) \in Seq(Bodies)
  BY <1>1, <1>3
<1> HIDE DEF body
<1>5. NodeOK(net'[n])
  BY <1>1, <1>2, <1>4 DEF IInv, Nodes, NodeOK
<1>6. ConnInv'
  BY ZenonT(60), <1>1, <1>4, SendsOK, Stays DEF IInv, Ends
<1> QED  BY Zenon, <1>1, <1>5, <1>6, Parts DEF NetInv, IInv, Nodes

\* The network breaks a stream.
LEMMA ResetStep ==
  ASSUME IInv, NEW s \in Streams, Reset(s)
  PROVE  IInv'
<1>1. UNCHANGED <<scene, conn, wire, conns, tasks, sweeping, net>>
  BY DEF Reset
<1>2. ConnInv'
  BY ZenonT(60), <1>1, Stays DEF IInv, Ends
<1> QED  BY <1>1, <1>2, Parts DEF NetInv

-----------------------------------------------------------------------------
(* The theorems about connections.                                         *)

\* At the start there are no connections but those that are up.
LEMMA InitIInv == Init => IInv
<1> SUFFICES ASSUME Init PROVE IInv
  BY Zenon 
<1>1. DOMAIN conn = Streams \X {1, 2} /\ scene \in Scenes /\ tasks = {} /\ sweeping = {}
  BY ZenonT(60) DEF Init
<1>2. \A c \in DOMAIN conn : conn[c] = IF c[1] \in scene.up THEN Up ELSE None
  BY DEF Init
<1>3. \A c \in DOMAIN conn : ConnOK(c, conn[c], tasks)
  <2>1. \A c \in DOMAIN conn : ConnOK(c, Up, {}) /\ ConnOK(c, None, {})
    BY ZenonT(60), NewConnOK DEF ConnOK, Up, None, NewConn, Early
  <2> QED  BY <1>1, <1>2, <2>1
<1>4. ASSUME NEW s \in Streams, conn[<<s, 1>>].pc \in {"none", "dial"}
      PROVE  conn[<<s, 2>>] = None
  <2>1. <<s, 1>> \in DOMAIN conn /\ <<s, 2>> \in DOMAIN conn
    BY <1>1
  <2>2. Up.pc = "read"
    BY DEF Up, NewConn
  <2>3. s \notin scene.up
    BY ZenonT(60), <1>2, <1>4, <2>1, <2>2
  <2> QED  BY ZenonT(60), <1>2, <2>1, <2>3
<1>5. TableOK(scene, conn, conns, DOMAIN net)
  <2> DEFINE P(c, n, p) == c[1] \in scene.up /\ NodeOf(c) = n /\ RemotePeer(c) = p
  <2>1. conns = [n \in Nodes |-> [p \in Nodes |-> IF \E c \in Ends : P(c, n, p)
                                                  THEN CHOOSE c \in Ends : P(c, n, p) ELSE NoConn]]
    BY DEF Init
  <2> HIDE DEF P
  <2>2. \A n, p \in Nodes : \/ conns[n][p] = NoConn
                            \/ conns[n][p] \in Ends /\ P(conns[n][p], n, p)
    BY <2>1
  <2>3. conns \in [Nodes -> [Nodes -> Ends \cup {NoConn}]]
    BY <2>1, <2>2
  <2>4. Up.est /\ ~Up.closed
    BY DEF Up, NewConn
  <2>5. ASSUME NEW c \in Ends
        PROVE  NodeOf(c) = Peer1(scene, c) /\ RemotePeer(c) = Peer2(scene, c)
    BY ZenonT(60) DEF NodeOf, RemotePeer, Other, Peer1, Peer2
  <2> QED  BY SMTT(30), <1>2, <2>2, <2>3, <2>4, <2>5 DEF TableOK, Nodes, Ends, P
<1>6. DOMAIN wire = DOMAIN conn /\ \A c \in DOMAIN conn : wire[c] \in Seq(Sent)
  <2>1. <<>> \in Seq(Sent)
    BY SMTT(30)
  <2> QED  BY <2>1 DEF Init, Ends
<1>7. DOMAIN net = NodesOf(scene) /\ \A n \in DOMAIN net : NodeOK(net[n])
  <2>1. <<>> \in Seq(Bodies) /\ DOMAIN <<>> = {}
    OBVIOUS
  <2> QED  BY <2>1 DEF Init, NodesOf, NodeOK
<1> QED  BY ZenonT(60), <1>1, <1>3, <1>4, <1>5, <1>6, <1>7 DEF IInv

\* No step breaks the invariant, one lemma per action.
LEMMA NextIInv == IInv /\ [Next]_vars => IInv'
<1> SUFFICES ASSUME IInv, [Next]_vars PROVE IInv'
  OBVIOUS
<1>1. ASSUME NEW s \in Streams, lookup(s) \/ Reset(s) PROVE IInv'
  BY <1>1, LookupStep, ResetStep
<1>2. ASSUME NEW c \in Ends, Loop(c) PROVE IInv'
  BY ZenonT(60), <1>2, DialStep, ReadStep, StartBeatStep, HandOverStep, ReadFailsStep, CloseStep DEF Loop
<1>3. ASSUME NEW c \in Ends, Discover(c) PROVE IInv'
  BY <1>3, PeerDiscoverStep, TimeoutStep, PeerDiscoverFailsStep DEF Discover
<1>4. ASSUME NEW c \in Ends, Run(c) \/ heartBeatService(c) \/ CloseCollected(c) PROVE IInv'
  BY <1>4, RunStep, BeatStep, CloseStep
<1>5. ASSUME NEW t \in tasks, Push(t) PROVE IInv'
  BY <1>5, PutStep, NotifyStep DEF Push
<1>6. ASSUME NEW n \in Nodes, Collect(n) \/ Broadcast(n) \/ Dispatch(n) \/ Relay(n) PROVE IInv'
  BY <1>6, CollectStep, BroadcastStep, DispatchStep, RelayStep
<1>7. CASE UNCHANGED vars
  BY Zenon, <1>7, Parts DEF vars, IInv, ConnInv, NetInv, Streams
<1> QED  BY ZenonT(60), <1>1, <1>2, <1>3, <1>4, <1>5, <1>6, <1>7 DEF Next

\* Whatever the peers and the network do, the connections of a node are in order: IInv.
THEOREM Connections == Spec => []IInv
BY InitIInv, NextIInv, PTL DEF Spec

\* The table of every node has only connections that are established with that very peer
\* and not closed, and a connection whose loop is over beats no more, for any network.
THEOREM TableIsLive == Spec => []LiveOnly
<1>1. IInv => LiveOnly
  <2> SUFFICES ASSUME IInv PROVE LiveOnly
    BY ZenonT(60)
  <2>1. \A n \in Nodes : \A p \in Peers(n) :
          LET c == conns[n][p]
          IN NodeOf(c) = n /\ RemotePeer(c) = p /\ conn[c].est /\ ~conn[c].closed
    BY SMTT(30), TableEntry DEF Peers
  <2>2. \A c \in Ends : conn[c].pc = "over" => conn[c].beat # "on"
    BY Zenon, ObjectOK DEF ConnOK
  <2> QED  BY <2>1, <2>2 DEF LiveOnly
<1> QED  BY <1>1, Connections, PTL

\* The writer of a connection never sleeps beside a message that nobody is about to tell
\* it of, however the pushes, the writer and Close interleave.
THEOREM WriterIsWoken == Spec => []WriterAwake
<1>1. IInv => WriterAwake
  BY ObjectOK DEF WriterAwake, ConnOK
<1> QED  BY <1>1, Connections, PTL

=============================================================================

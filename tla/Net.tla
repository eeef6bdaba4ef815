-------------------------------- MODULE Net --------------------------------
(***************************************************************************)
(* Connections between nodes: p2p/conn.go, the table of connections and    *)
(* the sending of messages of p2p/peer.go, the priority queue every        *)
(* connection writes from, the look-up of peers (table.go), the closing of *)
(* connections by the score manager and by ReorgConns, the filter of       *)
(* duplicates and the relaying of messages (conn.go, message.go), and the  *)
(* notifier. Every node runs many goroutines: the loop and the writer of   *)
(* each connection, its heart beat, look-ups, one goroutine for every      *)
(* message sent, the notifier, and the reader of its channel.              *)
(*                                                                         *)
(* A connection object is one end of a stream: <<s, 1>> at the node that   *)
(* dialled stream s, <<s, 2>> at the other. The streams of libp2p, the     *)
(* processes of goprocess and the contents of messages are external.       *)
(***************************************************************************)
EXTENDS Integers, Sequences, FiniteSets, FiniteSetsExt

CONSTANTS
  Scenes,       \* [dials, up, tree, sends, relaySize, resets, sweeps, beats, refuses]: who
                \* dials whom, which streams are up at the start, whether they form a tree, who
                \* sends, config.RelaySize, and bounds on faults and heart beats
  RelayTimes,   \* relayTimes: how often a message is passed on
  QueueCap,     \* PriorityQueueCap
  ReceiveCap,   \* capacity of receiveCh of the notifier
  HandlerCap    \* capacity of the channel of a handler of messages

ASSUME NetAssumption ==
  /\ RelayTimes \in Nat /\ QueueCap \in Nat /\ ReceiveCap \in Nat /\ HandlerCap \in Nat
  /\ \A s \in Scenes : \A i \in DOMAIN s.dials : DOMAIN s.dials[i] = {1, 2}

VARIABLES
  scene,
  conn,         \* the connection objects
  wire,         \* what is on its way to each end
  reset,        \* streams the network has broken
  conns,        \* BoxPeer.conns: node -> peer -> connection
  tasks,        \* pushes in progress: [c, by, m, stage]
  sweeping,     \* connections about to be closed by clearUp or ReorgConns
  net,          \* node -> [seen, times, receiveCh, handler, known]
  left          \* what is left of the bounds

vars == <<scene, conn, wire, reset, conns, tasks, sweeping, net, left>>

NodesOf(s) == UNION {Range(d) : d \in Range(s.dials)}
Streams == DOMAIN scene.dials
Ends == DOMAIN conn
Nodes == DOMAIN net
NodeOf(c) == scene.dials[c[1]][c[2]]
Other(c) == <<c[1], 3 - c[2]>>
RemotePeer(c) == NodeOf(Other(c))
NoConn == <<0, 0>>

------------------------------------------------------------------------------
(* Messages: a code, a body and, for those that are relayed, how often       *)
(* they may still be passed on.                                              *)

Message(code) == [code |-> code, body |-> "none", times |-> 0]
Block(body, times) == [code |-> "block", body |-> body, times |-> times]

\* PriorityMsgTypeSize, without the queue of transactions, which would behave as that of blocks
Low == 0
Top == 2
Priority(m) == CASE m.code \in {"ping", "pong", "discover"} -> Low
                 [] m.code = "reply" -> 1
                 [] m.code = "block" -> Top

\* a mistake: a message that may be passed on once more is not
NeedToRelayEarly(n, m) ==
  m.code = "block" /\ m.body \in DOMAIN net[n].times => net[n].times[m.body] > 1

\* reserve: what is sent of a block, and whether it is sent at all
NeedToRelay(n, m) == m.code = "block" /\ m.body \in DOMAIN net[n].times => net[n].times[m.body] > 0
TimesLeft(n, m) == IF m.body \in DOMAIN net[n].times THEN net[n].times[m.body] - 1 ELSE RelayTimes

Reserved(n, m) == IF m.code = "block" THEN [m EXCEPT !.times = TimesLeft(n, m)] ELSE m

\* a mistake: nothing is remembered
RememberNot(nt, m) == nt

\* duplicateFilter: messages that are unique are remembered by their body
Remember(nt, m) == IF m.code = "block" THEN [nt EXCEPT !.seen = @ \cup {m.body}] ELSE nt
\* ... with how often they may still be passed on
Noted(nt, m) ==
  IF m.code = "block"
  THEN [nt EXCEPT !.times = [b \in DOMAIN @ \cup {m.body} |-> IF b = m.body THEN m.times ELSE @[b]]]
  ELSE nt
Duplicate(nt, m) == m.code = "block" /\ m.body \in nt.seen

------------------------------------------------------------------------------
(* A connection object.                                                      *)

NoQueues == [p \in Low..Top |-> <<>>]
NewConn(pc, disc) ==
  [pc |-> pc,            \* where its loop is
   est |-> FALSE, succeed |-> FALSE,     \* isEstablished, establishSucceedCh
   closed |-> FALSE,     \* Close has run
   closing |-> FALSE,    \* its process is told to end
   open |-> FALSE,       \* its end of the stream
   beat |-> "none",      \* procHeartbeat
   disc |-> disc,        \* its look-up
   queues |-> NoQueues, notify |-> FALSE,
   writer |-> "search",
   msg |-> Message("none")]
None == NewConn("none", "none")

\* a mistake: it does not look whether it is to end
AgainDeaf(k) == [k EXCEPT !.pc = "read"]

\* the loop is back at its head
Again(k) == [k EXCEPT !.pc = IF k.closing THEN "exit" ELSE "read"]

\* a mistake: a connection that was closed once is not closed again
CloseOnce(k) ==
  IF k.closed THEN k
  ELSE [k EXCEPT !.closed = TRUE, !.queues = NoQueues, !.notify = FALSE, !.open = FALSE,
                 !.beat = IF @ = "on" THEN "off" ELSE @]

\* Close, as far as the object is concerned: the queue, the stream, the heart beat
Closed(k) ==
  [k EXCEPT !.closed = TRUE, !.queues = NoQueues, !.notify = FALSE, !.open = FALSE,
            !.beat = IF @ = "on" THEN "off" ELSE @]

\* ... and the table: whatever connection the peer has there
Deregistered(c) == [conns EXCEPT ![NodeOf(c)][RemotePeer(c)] = NoConn]

\* Establish, under the mutex of the connection
Established(k) == IF k.est THEN k ELSE [k EXCEPT !.est = TRUE, !.succeed = TRUE]

Registered(c) == IF conn[c].est THEN conns ELSE [conns EXCEPT ![NodeOf(c)][RemotePeer(c)] = c]

Task(c, by, m) == [c |-> c, by |-> by, m |-> m, stage |-> "put"]

------------------------------------------------------------------------------
(* Looking up a peer.                                                        *)

\* Table.lookup: a connection the peer has is asked; otherwise a new one is made
lookup(s) ==
  LET c == <<s, 1>>
      old == conns[NodeOf(c)][RemotePeer(c)]
  IN /\ conn[c] = None
     /\ IF old /= NoConn
        THEN /\ conn' = [conn EXCEPT ![c].pc = "unused"]
             /\ tasks' = tasks \cup {Task(old, "lookup", Message("discover"))}
        ELSE /\ conn' = [conn EXCEPT ![c] = NewConn("dial", "wait")]
             /\ UNCHANGED tasks
     /\ UNCHANGED <<scene, wire, reset, conns, sweeping, net, left>>

\* the other node keeps the connection and starts its loop
handleStream == [NewConn("read", "none") EXCEPT !.open = TRUE]

\* the loop opens the stream and pings; the other node keeps the connection or not
Dial(c) ==
  /\ conn[c].pc = "dial"
  /\ \/ /\ ~conn[c].closing
        /\ conn' = [conn EXCEPT ![c].pc = "push", ![c].open = TRUE,
                                ![Other(c)] = handleStream]
        /\ tasks' = tasks \cup {Task(c, "loop", Message("ping"))}
        /\ UNCHANGED left
     \/ /\ left.refuses > 0 /\ ~conn[c].closing    \* KeepConn refuses it
        /\ conn' = [conn EXCEPT ![c].pc = "push", ![c].open = TRUE, ![Other(c)].pc = "over"]
        /\ tasks' = tasks \cup {Task(c, "loop", Message("ping"))}
        /\ left' = [left EXCEPT !.refuses = @ - 1]
     \/ /\ left.refuses > 0 \/ conn[c].closing     \* no stream
        /\ conn' = [conn EXCEPT ![c].pc = "exit", ![Other(c)].pc = "unused"]
        /\ left' = IF conn[c].closing THEN left ELSE [left EXCEPT !.refuses = @ - 1]
        /\ UNCHANGED tasks
  /\ UNCHANGED <<scene, wire, reset, conns, sweeping, net>>

\* PeerDiscover waits until the connection is established, or for thirty seconds, in
\* which the writer has sent the ping
PeerDiscover(c) ==
  /\ conn[c].disc = "wait" /\ conn[c].succeed
  /\ conn' = [conn EXCEPT ![c].disc = "done", ![c].succeed = FALSE]
  /\ tasks' = tasks \cup {Task(c, "lookup", Message("discover"))}
  /\ UNCHANGED <<scene, wire, reset, conns, sweeping, net, left>>

Timeout(c) ==
  /\ conn[c].disc = "wait" /\ conn[c].queues = NoQueues /\ conn[c].pc /= "push"
  /\ conn' = [conn EXCEPT ![c].disc = IF conn[c].succeed THEN "late" ELSE "closing", ![c].closing = TRUE,
                            ![c].beat = IF @ = "on" THEN "off" ELSE @]
  /\ UNCHANGED <<scene, wire, reset, conns, tasks, sweeping, net, left>>

\* the process ends when the loop has
PeerDiscoverFails(c) ==
  /\ conn[c].disc \in {"closing", "late"} /\ conn[c].pc = "over"
  /\ conn' = [conn EXCEPT ![c].disc = "done"]
  /\ UNCHANGED <<scene, wire, reset, conns, tasks, sweeping, net, left>>

------------------------------------------------------------------------------
(* Pushing to the queue of a connection, and writing from it.                *)

\* the goroutine of a task is done
Finish(k, t, ok) ==
  IF t.by = "loop" THEN (IF ok THEN Again(k) ELSE [k EXCEPT !.pc = "exit"]) ELSE k

HasRoom(k, m) == ~k.closed /\ Len(k.queues[Priority(m)]) < QueueCap

\* Conn.Write: reserve, then the item goes into its queue
Put(t) ==
  LET n == NodeOf(t.c)  k == conn[t.c]
  IN /\ t.stage = "put"
     /\ CASE ~NeedToRelay(n, t.m) ->
               tasks' = tasks \ {t} /\ UNCHANGED <<conn, net>>
          [] NeedToRelay(n, t.m) /\ ~HasRoom(k, t.m) ->
               /\ tasks' = tasks \ {t}
               /\ net' = [net EXCEPT ![n] = Remember(@, t.m)]
               /\ conn' = [conn EXCEPT ![t.c] = Finish(k, t, FALSE)]
          [] NeedToRelay(n, t.m) /\ HasRoom(k, t.m) ->
               /\ tasks' = (tasks \ {t}) \cup {[t EXCEPT !.stage = "notify"]}
               /\ net' = [net EXCEPT ![n] = Remember(@, t.m)]
               /\ conn' = [conn EXCEPT ![t.c].queues[Priority(t.m)] = Append(@, Reserved(n, t.m))]
     /\ UNCHANGED <<scene, wire, reset, conns, sweeping, left>>

\* ... and the writer is woken
Notify(t) ==
  /\ t.stage = "notify"
  /\ tasks' = tasks \ {t}
  /\ conn' = [conn EXCEPT ![t.c] = Finish([@ EXCEPT !.notify = ~conn[t.c].closed], t, TRUE)]
  /\ UNCHANGED <<scene, wire, reset, conns, sweeping, net, left>>

\* a mistake: the writer waits after every item
RunOnce(c) ==
  LET k == conn[c]
      filled == {p \in DOMAIN k.queues : k.queues[p] /= <<>>}
  IN /\ k.pc /= "none" /\ k.writer /= "stop"
     /\ \/ /\ k.writer = "search" /\ filled /= {}
           /\ conn' = [conn EXCEPT ![c].queues[Max(filled)] = Tail(@), ![c].writer = "wait"]
           /\ wire' = IF k.open THEN [wire EXCEPT ![Other(c)] = Append(@, Head(k.queues[Max(filled)]))] ELSE wire
        \/ /\ \/ k.writer = "search" /\ filled = {} /\ conn' = [conn EXCEPT ![c].writer = "wait"]
              \/ /\ k.writer = "wait" /\ k.notify
                 /\ conn' = [conn EXCEPT ![c].writer = "search", ![c].notify = FALSE]
           /\ UNCHANGED wire
     /\ UNCHANGED <<scene, reset, conns, tasks, sweeping, net, left>>

\* PriorityMsgQueue.Run: from the top queue down to the first that has an item. What is pushed
\* behind the back of this search might as well have been pushed after it, so it is one step.
Run(c) ==
  LET k == conn[c]
      filled == {p \in DOMAIN k.queues : k.queues[p] /= <<>>}
      Goes(next) == conn' = [conn EXCEPT ![c].writer = next] /\ UNCHANGED wire
  IN /\ k.pc /= "none"
     /\ \/ /\ k.writer = "search" /\ filled /= {}
           /\ conn' = [conn EXCEPT ![c].queues[Max(filled)] = Tail(@)]
           /\ wire' = IF k.open /\ c[1] \notin reset
                      THEN [wire EXCEPT ![Other(c)] = Append(@, Head(k.queues[Max(filled)]))] ELSE wire
        \/ k.writer = "search" /\ filled = {} /\ Goes("wait")
        \/ /\ k.writer = "wait" /\ k.notify
           /\ conn' = [conn EXCEPT ![c].writer = "search", ![c].notify = FALSE]
           /\ UNCHANGED wire
        \/ k.writer /= "stop" /\ k.closing /\ Goes("stop")
     /\ UNCHANGED <<scene, reset, conns, tasks, sweeping, net, left>>

------------------------------------------------------------------------------
(* The loop: reading and handling messages.                                  *)

Handled(c, k, table, todo) ==
  /\ conn' = [conn EXCEPT ![c] = k]
  /\ conns' = table /\ tasks' = tasks \cup todo

\* the whole of readMessage and Handle, up to the first thing that may block
Read(c) ==
  LET n == NodeOf(c)  k == conn[c]  m == Head(wire[c])
      Reply(code) == {Task(c, "loop", Message(code))}
  IN /\ k.pc = "read" /\ c[1] \notin reset /\ wire[c] /= <<>>
     /\ wire' = [wire EXCEPT ![c] = Tail(@)]
     /\ net' = IF Duplicate(net[n], m) THEN net
               ELSE [net EXCEPT ![n] = Noted(Remember(@, m), m)]
     /\ CASE Duplicate(net[n], m) -> Handled(c, Again(k), conns, {})
          [] m.code = "ping" -> Handled(c, [Established(k) EXCEPT !.pc = "push"], Registered(c), Reply("pong"))
          [] m.code = "pong" ->
               Handled(c, IF k.est THEN Again(k) ELSE [Established(k) EXCEPT !.pc = "beat"], Registered(c), {})
          [] m.code /= "ping" /\ m.code /= "pong" /\ ~Duplicate(net[n], m) /\ ~k.est ->
               Handled(c, [k EXCEPT !.pc = "exit"], conns, {})
          [] k.est /\ m.code = "discover" -> Handled(c, [k EXCEPT !.pc = "push"], conns, Reply("reply"))
          [] k.est /\ m.code = "reply" -> Handled(c, Again(k), conns, {})
          [] k.est /\ m.code = "block" /\ ~Duplicate(net[n], m) ->
               Handled(c, [k EXCEPT !.pc = "notify", !.msg = m], conns, {})
     /\ UNCHANGED <<scene, reset, sweeping, left>>

\* OnPong goes on: the first pong starts the heart beat
Beating(k) == [k EXCEPT !.beat = IF @ /= "none" THEN @ ELSE IF k.closing THEN "off" ELSE "on"]
StartBeat(c) ==
  /\ conn[c].pc = "beat"
  /\ conn' = [conn EXCEPT ![c] = Again(Beating(@))]
  /\ UNCHANGED <<scene, wire, reset, conns, tasks, sweeping, net, left>>

heartBeatService(c) ==
  /\ conn[c].beat = "on" /\ left.beats > 0
  /\ left' = [left EXCEPT !.beats = @ - 1]
  /\ tasks' = tasks \cup {Task(c, "beat", Message("ping"))}
  /\ UNCHANGED <<scene, conn, wire, reset, conns, sweeping, net>>

\* Notifier.Notify waits for room
HandOver(c) ==
  LET n == NodeOf(c)
  IN /\ conn[c].pc = "notify" /\ Len(net[n].receiveCh) < ReceiveCap
     /\ net' = [net EXCEPT ![n].receiveCh = Append(@, conn[c].msg.body)]
     /\ conn' = [conn EXCEPT ![c] = Again([@ EXCEPT !.msg = Message("none")])]
     /\ UNCHANGED <<scene, wire, reset, conns, tasks, sweeping, left>>

\* the other end has closed, this one is closed, or the network broke the stream
ReadFails(c) ==
  /\ conn[c].pc = "read"
  /\ \/ c[1] \in reset
     \/ ~conn[c].open
     \/ ~conn[Other(c)].open /\ wire[c] = <<>>
  /\ conn' = [conn EXCEPT ![c].pc = "exit"]
  /\ UNCHANGED <<scene, wire, reset, conns, tasks, sweeping, net, left>>

------------------------------------------------------------------------------
(* Closing.                                                                  *)

\* the loop has returned: Close is the teardown of its process
Teardown(c) ==
  /\ conn[c].pc = "exit"
  /\ conn' = [conn EXCEPT ![c] = [Closed(conn[c]) EXCEPT !.pc = "over"]]
  /\ conns' = Deregistered(c)
  /\ UNCHANGED <<scene, wire, reset, tasks, sweeping, net, left>>

\* ScoreManager.clearUp and BoxPeer.ReorgConns collect connections ...
Collect(n) ==
  /\ left.sweeps > 0
  /\ \E c \in Range(conns[n]) \ {NoConn} : sweeping' = sweeping \cup {c}
  /\ left' = [left EXCEPT !.sweeps = @ - 1]
  /\ UNCHANGED <<scene, conn, wire, reset, conns, tasks, net>>

\* ... and close them
CloseCollected(c) ==
  /\ c \in sweeping
  /\ sweeping' = sweeping \ {c}
  /\ conn' = [conn EXCEPT ![c] = Closed(@)]
  /\ conns' = Deregistered(c)
  /\ UNCHANGED <<scene, wire, reset, tasks, net, left>>

Reset(s) ==
  /\ left.resets > 0 /\ s \notin reset /\ conn[<<s, 1>>].open
  /\ reset' = reset \cup {s}
  /\ left' = [left EXCEPT !.resets = @ - 1]
  /\ UNCHANGED <<scene, conn, wire, conns, tasks, sweeping, net>>

------------------------------------------------------------------------------
(* Sending and relaying blocks.                                              *)

Sends(n, to, body) == {Task(c, "send", Block(body, 0)) : c \in {conns[n][p] : p \in to}}
Peers(n) == {p \in Nodes : conns[n][p] /= NoConn}

\* BoxPeer.Broadcast of a block of the node's own, which is named after the node
Broadcast(n) ==
  /\ n \in left.sends
  /\ left' = [left EXCEPT !.sends = @ \ {n}]
  /\ net' = [net EXCEPT ![n].known = @ \cup {n}]
  /\ tasks' = tasks \cup Sends(n, Peers(n), n)
  /\ UNCHANGED <<scene, conn, wire, reset, conns, sweeping>>

\* Notifier.Loop: a handler whose channel is full does not get the message
Dispatch(n) ==
  /\ net[n].receiveCh /= <<>>
  /\ net' = [net EXCEPT ![n].receiveCh = Tail(@),
                        ![n].handler = IF Len(@) < HandlerCap THEN Append(@, Head(net[n].receiveCh)) ELSE @]
  /\ UNCHANGED <<scene, conn, wire, reset, conns, tasks, sweeping, left>>

\* the handler takes a block; BoxPeer.Relay passes a new one on to some peers
Relay(n) ==
  LET body == Head(net[n].handler)
  IN /\ net[n].handler /= <<>>
     /\ net' = [net EXCEPT ![n].handler = Tail(@), ![n].known = @ \cup {body}]
     /\ IF body \in net[n].known THEN UNCHANGED tasks
        ELSE \E to \in kSubset(Min({scene.relaySize, Cardinality(Peers(n))}), Peers(n)) :
               tasks' = tasks \cup Sends(n, to, body)
     /\ UNCHANGED <<scene, conn, wire, reset, conns, sweeping, left>>

------------------------------------------------------------------------------
Up == [NewConn("read", "none") EXCEPT !.open = TRUE, !.est = TRUE, !.writer = "wait"]

Init ==
  /\ scene \in Scenes
  /\ conn = [c \in Streams \X {1, 2} |-> IF c[1] \in scene.up THEN Up ELSE None]
  /\ wire = [c \in Ends |-> <<>>]
  /\ reset = {} /\ tasks = {} /\ sweeping = {}
  /\ net = [n \in NodesOf(scene) |->
             [seen |-> {}, times |-> <<>>, receiveCh |-> <<>>, handler |-> <<>>, known |-> {}]]
  /\ conns = [n \in Nodes |-> [p \in Nodes |->
       IF \E c \in Ends : c[1] \in scene.up /\ NodeOf(c) = n /\ RemotePeer(c) = p
       THEN CHOOSE c \in Ends : c[1] \in scene.up /\ NodeOf(c) = n /\ RemotePeer(c) = p ELSE NoConn]]
  /\ left = [sends |-> scene.sends, resets |-> scene.resets, sweeps |-> scene.sweeps,
             beats |-> scene.beats, refuses |-> scene.refuses]

Loop(c) == Dial(c) \/ Read(c) \/ StartBeat(c) \/ HandOver(c) \/ ReadFails(c) \/ Teardown(c)
Discover(c) == PeerDiscover(c) \/ Timeout(c) \/ PeerDiscoverFails(c)
Push(t) == Put(t) \/ Notify(t)

Next ==
  \/ \E s \in Streams : lookup(s) \/ Reset(s)
  \/ \E c \in Ends : Loop(c) \/ Discover(c) \/ Run(c) \/ heartBeatService(c) \/ CloseCollected(c)
  \/ \E t \in tasks : Push(t)
  \/ \E n \in Nodes : Collect(n) \/ Broadcast(n) \/ Dispatch(n) \/ Relay(n)

\* the goroutines and the timer of a look-up run; the network, the users and the heart
\* beat promise nothing
System ==
  \/ \E c \in Ends : Loop(c) \/ Discover(c) \/ Run(c) \/ CloseCollected(c)
  \/ \E t \in tasks : Push(t)
  \/ \E n \in Nodes : Dispatch(n) \/ Relay(n)

Spec == Init /\ [][Next]_vars
FairSpec == Spec /\ WF_vars(System)

------------------------------------------------------------------------------
(* Properties.                                                               *)

\* A connection in the table of a node is one that was established with that very peer
\* and has not been closed since, whichever goroutines establish and close connections
\* to the peer meanwhile: BoxPeer never sends to a closed connection for good. And a
\* connection whose loop is over beats no more, also when clearUp or ReorgConns closed it
\* between the first pong and the start of its heart beat: the second Close stops it.
LiveOnly ==
  /\ \A n \in Nodes : \A p \in Peers(n) :
       LET c == conns[n][p]
       IN NodeOf(c) = n /\ RemotePeer(c) = p /\ conn[c].est /\ ~conn[c].closed
  /\ \A c \in Ends : conn[c].pc = "over" => conn[c].beat /= "on"

\* The writer of a connection never sleeps beside a message: when it waits for the
\* notification and none has arrived, the queues are empty or a Push is about to send it.
WriterAwake ==
  \A c \in Ends :
    conn[c].writer = "wait" /\ ~conn[c].notify /\ conn[c].queues /= NoQueues
      => \E t \in tasks : t.c = c /\ t.stage = "notify"

\* Near[s][b][i]: the nodes at most i streams from node b, which sends in scene s
Linked(s, x, y) == x = y \/ \E d \in Range(s.dials) : {x, y} \subseteq Range(d)
Near == [s \in Scenes |-> [b \in s.sends |-> [i \in 0..RelayTimes + 1 |->
  {n \in NodesOf(s) : \E path \in [0..i -> NodesOf(s)] :
     path[0] = b /\ path[i] = n /\ \A j \in 1..i : Linked(s, path[j - 1], path[j])}]]]
Reach(b) == Near[scene][b][RelayTimes + 1]

\* Where node n has block b: in the loops that hand it over, in the channels of the
\* notifier and of the handler, and, once it was handled or if it is the node's own, for good
Places(n, b) ==
  {<<"loop", c>> : c \in {c \in Ends : NodeOf(c) = n /\ conn[c].pc = "notify" /\ conn[c].msg.body = b}}
    \cup {<<"receiveCh", i>> : i \in {i \in DOMAIN net[n].receiveCh : net[n].receiveCh[i] = b}}
    \cup {<<"handler", i>> : i \in {i \in DOMAIN net[n].handler : net[n].handler[i] = b}}
    \cup {<<"known", x>> : x \in {b} \cap net[n].known}

\* A block travels no further than RelayTimes + 1 streams from the node that sent it, and
\* a node hands it to its handlers at most once, and never its own: the filter knows what
\* was received and what was sent, whichever connections it comes back on.
HandedOnce ==
  \A n \in Nodes, b \in scene.sends :
    /\ b \in net[n].seen => n \in Reach(b)
    /\ \A x, y \in Places(n, b) : x = y

\* Where the streams form a tree and none breaks, every node within RelayTimes + 1 streams of
\* the sender gets the block.
Arrived == scene.tree => \A b \in scene.sends : \A n \in Reach(b) : b \in net[n].known
BlockArrives == left.sends = {} ~> Arrived

\* Look-ups end: PeerDiscover gets its answer to the ping or gives up, and giving up, which
\* waits for the loop of the connection, does not wait for ever. (When the timer fires after the
\* pong was handled, the loop is reading again, and only a message or an error ends it.)
LookupEnds == <>[](\A c \in Ends : conn[c].disc \notin {"wait", "closing"})
==============================================================================

-------------------------------- MODULE Feed -------------------------------
(***************************************************************************)
(* The feed of new blocks or new logs to clients of the web API:           *)
(* rpc/server/rpc_subscribe.go with the table of subscriptions of          *)
(* rpc_webapi.go, the publish and subscribe half of the event bus          *)
(* (boxd/eventbus/bus.go), and the goroutines by which the chain publishes *)
(* every block it connects. An endpoint keeps the last few items in a      *)
(* list; each subscription has a listener, a goroutine that walks down     *)
(* this list while its front is being removed.                             *)
(*                                                                         *)
(* The connections' table is a Go map that the goroutines of all           *)
(* connections use without a lock; here each use is atomic.                *)
(***************************************************************************)
EXTENDS Integers, Sequences, SequencesExt, FiniteSets

CONSTANTS
  Scenes,        \* [kind, conns, queueSize, blocks]: the endpoint that is looked at ("blocks" or
                 \* "logs"), the connections of clients, newBlockMsgSize or newLogMsgSize, and
                 \* the number of blocks
  CountRange,    \* subscribeCnt of logs is a uint8: 2^8
  MaxSubscribes, MaxErrors, MaxFailures

VARIABLES
  scene,
  height,        \* blocks connected so far
  publishing,    \* blocks whose goroutine has yet to publish them
  handler,       \* pubHandlers has the callback of the endpoint
  eventMtx,      \* the mutex of the endpoint has been made
  queue,         \* the list: items, which are blocks or the logs of blocks
  pushed,        \* everything ever pushed, in order
  subscribeCnt,
  connection,    \* conn -> [state, subs]: its loop, and its cancel channels by uid
  listeners,     \* sequence of [conn, pc, elm, cancel, wants]
  crashed,
  errors

vars == <<scene, height, publishing, handler, eventMtx, queue, pushed, subscribeCnt, connection,
          listeners, crashed, errors>>
feedVars == <<queue, pushed, errors>>

kind == scene.kind
Conns == scene.conns
Blocks == 1..scene.blocks

Alive(l) == listeners[l].pc /= "over"
Width == IF kind = "logs" THEN CountRange ELSE MaxSubscribes + 1

------------------------------------------------------------------------------
(* Publishing.                                                               *)

\* tryConnectBlockToMainChain starts a goroutine for every block
ConnectBlock(b) ==
  /\ b = height + 1
  /\ height' = b /\ publishing' = publishing \cup {b}
  /\ UNCHANGED <<scene, handler, eventMtx, queue, pushed, subscribeCnt, connection, listeners, crashed, errors>>

\* receiveNewBlockMsg and receiveNewLog: the oldest item goes before the new one is ready
Shortened(q) == IF Len(q) = scene.queueSize THEN Tail(q) ELSE q
Receive(b) ==
  \/ queue' = Append(Shortened(queue), b) /\ pushed' = Append(pushed, b) /\ UNCHANGED errors
  \/ /\ kind = "blocks" /\ errors < MaxErrors      \* detailBlock fails
     /\ queue' = Shortened(queue) /\ errors' = errors + 1 /\ UNCHANGED pushed

\* Publish, with its callback, which holds both locks
Publish(b) ==
  /\ b \in publishing
  /\ publishing' = publishing \ {b}
  /\ \/ /\ handler /\ eventMtx
        /\ Receive(b) /\ UNCHANGED crashed
     \/ /\ handler /\ ~eventMtx       \* the callback uses a mutex that is not there
        /\ crashed' = TRUE /\ UNCHANGED feedVars
     \/ ~handler /\ UNCHANGED <<feedVars, crashed>>
  /\ UNCHANGED <<scene, height, handler, eventMtx, subscribeCnt, connection, listeners>>

------------------------------------------------------------------------------
(* Subscriptions.                                                            *)

\* blocks share one uid on a connection, logs have one each
Uid(l) == IF kind = "blocks" THEN 0 ELSE l

\* EventBus.SubscribeUniq: a topic that has a handler keeps it
SubscribeUniq(h) == TRUE

\* EventBus.removeHandler: the callback it is given is a new method value, which equals none
\* that is registered, so that the handler stays
removeHandler(h) == h

\* Subscribe and Unsubscribe of an endpoint, under its mtx
Subscribe ==
  /\ handler' = IF subscribeCnt = 0 THEN SubscribeUniq(handler) ELSE handler
  /\ subscribeCnt' = (subscribeCnt + 1) % Width
Unsubscribe ==
  /\ handler' = IF subscribeCnt = 1 THEN removeHandler(handler) ELSE handler
  /\ subscribeCnt' = (subscribeCnt + Width - 1) % Width

\* webapiServer.subscribe: a new channel, in the place of an old one with the same uid
subscribe(subs, l) == [u \in DOMAIN subs \cup {Uid(l)} |-> IF u = Uid(l) THEN l ELSE subs[u]]

\* Connect receives a request: the table, the endpoint and the goroutine
Register(c, wants) ==
  LET l == Len(listeners) + 1
  IN /\ connection[c].state = "open" /\ l <= MaxSubscribes
     /\ wants \in (IF kind = "blocks" THEN {"all"} ELSE {"odd", "bad"})
     /\ connection' = [connection EXCEPT ![c].subs = subscribe(@, l)]
     /\ Subscribe
     /\ listeners' = Append(listeners, [conn |-> c, pc |-> "first", elm |-> 0, cancel |-> FALSE,
                                        wants |-> wants])
     /\ UNCHANGED <<scene, height, publishing, eventMtx, crashed, feedVars>>

Cancelled(ls) == [l \in DOMAIN listeners |-> IF l \in ls THEN [listeners[l] EXCEPT !.cancel = TRUE] ELSE listeners[l]]

\* Connect receives a cancellation: webapiServer.Unsubscribe
Cancel(c) ==
  /\ connection[c].state = "open"
  /\ \E u \in DOMAIN connection[c].subs :
       /\ listeners' = Cancelled({connection[c].subs[u]})
       /\ connection' = [connection EXCEPT ![c].subs = [v \in DOMAIN @ \ {u} |-> @[v]]]
  /\ UNCHANGED <<scene, height, publishing, handler, eventMtx, subscribeCnt, crashed, feedVars>>

\* the client is gone: the goroutine that receives requests ends ...
RecvFails(c) ==
  /\ connection[c].state = "open"
  /\ Cardinality({d \in Conns : connection[d].state /= "open"}) < MaxFailures
  /\ connection' = [connection EXCEPT ![c].state = "closing"]
  /\ UNCHANGED <<scene, height, publishing, handler, eventMtx, subscribeCnt, listeners, crashed, feedVars>>

\* ... and then the loop that sends, with CloseConn
CloseConn(c) ==
  /\ connection[c].state = "closing"
  /\ listeners' = Cancelled(Range(connection[c].subs))
  /\ connection' = [connection EXCEPT ![c] = [state |-> "closed", subs |-> <<>>]]
  /\ UNCHANGED <<scene, height, publishing, handler, eventMtx, subscribeCnt, crashed, feedVars>>

------------------------------------------------------------------------------
(* A listener: listenBlocks or listenLogs. elm is a place in pushed; the     *)
(* list holds the last Len(queue) of them.                                   *)

Oldest == Len(pushed) - Len(queue) + 1
InList(e) == e >= Oldest

Becomes(l, r) == listeners' = [listeners EXCEPT ![l] = r]
Quiet == UNCHANGED <<scene, height, publishing, handler, subscribeCnt, connection, crashed, feedVars>>

\* the first loop: until there is an element
First(l) ==
  LET r == listeners[l]
  IN /\ r.pc = "first"
     /\ \/ r.cancel /\ Becomes(l, [r EXCEPT !.pc = "end"]) /\ UNCHANGED eventMtx
        \/ /\ ~r.cancel /\ eventMtx' = TRUE
           /\ IF queue /= <<>> THEN Becomes(l, [r EXCEPT !.pc = "top", !.elm = Oldest])
              ELSE ~eventMtx /\ UNCHANGED listeners
     /\ Quiet

Wanted(r) == CASE r.wants = "all" -> TRUE [] r.wants = "odd" -> pushed[r.elm] % 2 = 1

\* the head of the second loop, up to the sending on resultCh; a filter that cannot be parsed
\* ends the listener
Top(l) ==
  LET r == listeners[l]
  IN /\ r.pc = "top"
     /\ CASE r.cancel -> Becomes(l, [r EXCEPT !.pc = "end"])
          [] ~r.cancel /\ r.wants = "bad" -> Becomes(l, [r EXCEPT !.pc = "end"])
          [] ~r.cancel /\ r.wants /= "bad" -> Becomes(l, [r EXCEPT !.pc = IF Wanted(r) THEN "send" ELSE "move"])
     /\ UNCHANGED eventMtx /\ Quiet

\* resultCh has no buffer: the loop of the connection takes the item
Deliver(l) ==
  LET r == listeners[l]
  IN /\ r.pc = "send" /\ connection[r.conn].state /= "closed"
     /\ Becomes(l, [r EXCEPT !.pc = "move"])
     /\ UNCHANGED eventMtx /\ Quiet

\* mistakes: an element that was removed is taken for the last one; the walk starts again at
\* the front
NextElemLost(e) == IF InList(e) /\ e < Len(pushed) THEN e + 1 ELSE e
NextElemFront(e) == IF InList(e) /\ e < Len(pushed) THEN e + 1 ELSE IF queue = <<>> THEN e ELSE Oldest

\* moveToNextElem: the next of the list, or its front when the element has been removed
NextElem(e) ==
  IF InList(e) /\ e < Len(pushed) THEN e + 1
  ELSE IF ~InList(e) /\ queue /= <<>> THEN Oldest
  ELSE e
Move(l) ==
  LET r == listeners[l]
  IN /\ r.pc = "move" /\ NextElem(r.elm) /= r.elm
     /\ Becomes(l, [r EXCEPT !.pc = "top", !.elm = NextElem(r.elm)])
     /\ UNCHANGED eventMtx /\ Quiet

\* the deferred Unsubscribe of the endpoint
End(l) ==
  /\ listeners[l].pc = "end"
  /\ Unsubscribe
  /\ Becomes(l, [listeners[l] EXCEPT !.pc = "over"])
  /\ UNCHANGED <<scene, height, publishing, eventMtx, connection, crashed, feedVars>>

------------------------------------------------------------------------------
Init ==
  /\ scene \in Scenes
  /\ height = 0 /\ publishing = {} /\ handler = FALSE /\ eventMtx = FALSE
  /\ queue = <<>> /\ pushed = <<>> /\ subscribeCnt = 0
  /\ connection = [c \in Conns |-> [state |-> "open", subs |-> <<>>]]
  /\ listeners = <<>> /\ crashed = FALSE /\ errors = 0

Listener(l) == First(l) \/ Top(l) \/ Deliver(l) \/ Move(l) \/ End(l)

Next ==
  /\ ~crashed
  /\ \/ \E b \in Blocks : ConnectBlock(b) \/ Publish(b)
     \/ \E c \in Conns : (\E w \in {"all", "odd", "bad"} : Register(c, w)) \/ Cancel(c) \/ RecvFails(c) \/ CloseConn(c)
     \/ \E l \in DOMAIN listeners : Listener(l)

\* the goroutines run; clients and new blocks are not promised
System ==
  /\ ~crashed
  /\ \/ \E b \in Blocks : Publish(b)
     \/ \E c \in Conns : CloseConn(c)
     \/ \E l \in DOMAIN listeners : Listener(l)
Spec == Init /\ [][Next]_vars /\ WF_vars(System)

------------------------------------------------------------------------------
(* Properties.                                                               *)

\* A client gets the items of a subscription in the order they were pushed, none twice, and
\* passes over one only when it has left the list: the walk of moveToNextElem and the removals
\* of the publisher do not confuse each other.
InOrder ==
  [][\A l \in DOMAIN listeners :
       LET e == listeners[l].elm  f == listeners'[l].elm
       IN e /= f /\ e /= 0 => e < f /\ \A g \in e + 1 .. f - 1 : ~InList(g)]_vars

\* A listener that nobody cancels and whose connection is open catches up with the list: it
\* comes to wait behind the newest item, also when the items it stood at were removed.
Behind(l) ==
  /\ l \in DOMAIN listeners /\ listeners[l].pc /= "over" /\ listeners[l].wants /= "bad"
  /\ ~listeners[l].cancel /\ connection[listeners[l].conn].state = "open"
  /\ queue /= <<>> /\ listeners[l].elm < Len(pushed)
CatchesUp == \A l \in 1..MaxSubscribes : [](Behind(l) => <>(~Behind(l) \/ crashed))
==============================================================================

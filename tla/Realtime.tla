------------------------------ MODULE Realtime ------------------------------
(***************************************************************************)
(* The live availability feed: the API publishes an event when a room is   *)
(* held or released, Redis carries it to the Go service, whose hub fans it *)
(* out to the web sockets of the pages that subscribed, and each page      *)
(* folds the events into the set of rooms it shows as just taken.          *)
(*                                                                         *)
(* The hub is one goroutine; every socket has a reader and a writer of its *)
(* own, and the hub may close a socket's send channel while both run.  The *)
(* model is of one property's events; a page elsewhere is one that has not *)
(* subscribed.                                                             *)
(***************************************************************************)
EXTENDS Naturals, Sequences

CONSTANTS
  Room,        \* rooms of the property
  Client,      \* web sockets
  QueueLen,    \* capacity of hub.broadcastTargeted (256)
  SendLen,     \* capacity of a client's send channel (256)
  MaxEvents    \* bound on the events published

ASSUME CapacityAssumption ==
  QueueLen \in Nat \ {0} /\ SendLen \in Nat \ {0} /\ MaxEvents \in Nat

VARIABLES
  published,   \* number of events the API has published
  channel,     \* events on their way through Redis
  feed,        \* the service's Redis subscription is alive
  queue,       \* hub.broadcastTargeted
  clients,     \* hub.clients
  conn,        \* conn[c]: the socket, its goroutines and its channels
  view,        \* view[c]: the rooms the page shows as just held
  due,         \* due[c]: history, the rooms it would show had it seen every
               \* event delivered since it subscribed
  panicked     \* a channel was closed twice, or sent on after its close

vars == <<published, channel, feed, queue, clients, conn, view, due, panicked>>
upstream == <<published, channel, feed>>
page == <<view, due>>

Event == [type: {"room.held", "room.released"}, room: Room]

Conn == [socket: {"new", "open", "closed"},
         reader: {"off", "joining", "reading", "leaving", "done"},
         writer: {"off", "writing", "done"},
         inbox: Seq({"subscribe", "unsubscribe"}),  \* sent by the browser
         wire: Seq(Event),                          \* sent to the browser
         send: Seq(Event), sendClosed: BOOLEAN, subscribed: BOOLEAN]

NewConn == [socket |-> "new", reader |-> "off", writer |-> "off",
            inbox |-> <<>>, wire |-> <<>>, send |-> <<>>,
            sendClosed |-> FALSE, subscribed |-> FALSE]

TypeOK ==
  /\ published \in 0 .. MaxEvents
  /\ channel \in Seq(Event) /\ queue \in Seq(Event) /\ Len(queue) <= QueueLen
  /\ feed \in BOOLEAN /\ panicked \in BOOLEAN
  /\ clients \in SUBSET Client
  /\ conn \in [Client -> Conn]
  /\ \A c \in Client : Len(conn[c].send) <= SendLen
  /\ view \in [Client -> SUBSET Room] /\ due \in [Client -> SUBSET Room]

Init ==
  /\ published = 0 /\ channel = <<>> /\ feed = TRUE /\ queue = <<>>
  /\ clients = {} /\ conn = [c \in Client |-> NewConn]
  /\ view = [c \in Client |-> {}] /\ due = [c \in Client |-> {}]
  /\ panicked = FALSE

-----------------------------------------------------------------------------
(***************************************************************************)
(* The API and Redis.  A publish that fails is logged and forgotten.       *)
(***************************************************************************)
Publish(e) ==
  /\ published < MaxEvents
  /\ published' = published + 1
  /\ \/ channel' = Append(channel, e)
     \/ UNCHANGED channel
  /\ UNCHANGED <<feed, queue, clients, conn, page, panicked>>

\* The service does not subscribe again.
SubscriptionLost ==
  /\ feed
  /\ feed' = FALSE /\ channel' = <<>>
  /\ UNCHANGED <<published, queue, clients, conn, page, panicked>>

\* The subscriber loop hands an event to the hub, or drops it: it never
\* waits for the hub.
\* (First a mutant that does not mind a full queue.)
BroadcastUnbounded ==
  /\ feed /\ channel # <<>>
  /\ channel' = Tail(channel)
  /\ queue' = Append(queue, Head(channel))
  /\ UNCHANGED <<published, feed, clients, conn, page, panicked>>

BroadcastToProperty ==
  /\ feed /\ channel # <<>>
  /\ channel' = Tail(channel)
  /\ queue' = IF Len(queue) < QueueLen THEN Append(queue, Head(channel)) ELSE queue
  /\ UNCHANGED <<published, feed, clients, conn, page, panicked>>

-----------------------------------------------------------------------------
(***************************************************************************)
(* The page.                                                               *)
(***************************************************************************)
Fold(rooms, e) == IF e.type = "room.held" THEN rooms \cup {e.room}
                  ELSE rooms \ {e.room}

\* The handshake is done by serveWs, which then waits for the hub.
Connect(c) ==
  /\ conn[c].socket = "new"
  /\ conn' = [conn EXCEPT ![c].socket = "open", ![c].reader = "joining",
                          ![c].inbox = <<"subscribe">>]
  /\ UNCHANGED <<upstream, queue, clients, page, panicked>>

OnMessage(c) ==
  /\ conn[c].wire # <<>>
  /\ view' = [view EXCEPT ![c] = Fold(@, Head(conn[c].wire))]
  /\ conn' = [conn EXCEPT ![c].wire = Tail(@)]
  /\ UNCHANGED <<upstream, queue, clients, due, panicked>>

\* The visitor leaves: unsubscribe and close.
Leave(c) ==
  /\ conn[c].socket = "open"
  /\ conn' = [conn EXCEPT ![c].socket = "closed", ![c].wire = <<>>,
                          ![c].inbox = Append(@, "unsubscribe")]
  /\ UNCHANGED <<upstream, queue, clients, page, panicked>>

\* The network fails, or no pong comes back in time.
NetworkFails(c) ==
  /\ conn[c].socket = "open"
  /\ conn' = [conn EXCEPT ![c].socket = "closed", ![c].wire = <<>>, ![c].inbox = <<>>]
  /\ UNCHANGED <<upstream, queue, clients, page, panicked>>

-----------------------------------------------------------------------------
(***************************************************************************)
(* The hub: one case of its select at a time.  The first event a client    *)
(* can miss is the first one after its subscription.                       *)
(***************************************************************************)
Register(c) ==
  /\ conn[c].reader = "joining"
  /\ clients' = clients \cup {c}
  /\ conn' = [conn EXCEPT ![c].reader = "reading", ![c].writer = "writing"]
  /\ UNCHANGED <<upstream, queue, page, panicked>>

\* (First a mutant that closes the channel of a client already dropped.)
UnregisterTwice(c) ==
  /\ conn[c].reader = "leaving"
  /\ clients' = clients \ {c}
  /\ conn' = [conn EXCEPT ![c].reader = "done", ![c].socket = "closed",
                          ![c].sendClosed = TRUE]
  /\ panicked' = (panicked \/ conn[c].sendClosed)
  /\ UNCHANGED <<upstream, queue, page>>

Unregister(c) ==
  /\ conn[c].reader = "leaving"
  /\ clients' = clients \ {c}
  /\ LET close == c \in clients IN
       /\ conn' = [conn EXCEPT ![c].reader = "done", ![c].socket = "closed",
                               ![c].sendClosed = @ \/ close]
       /\ panicked' = (panicked \/ (close /\ conn[c].sendClosed))
  /\ UNCHANGED <<upstream, queue, page>>

\* What the hub does about a client whose send channel is full: it is dropped
\* from the clients and its channel closed.  (First a mutant that forgets to
\* close it.)
TooSlowLeftOpen(c) == conn[c]

TooSlow(c) == [conn[c] EXCEPT !.sendClosed = TRUE]

\* (First a mutant that skips the event instead of dropping the client.)
DeliverSkipping ==
  LET e == Head(queue)
      subscribers == {c \in clients : conn[c].subscribed}
      slow == {c \in subscribers : Len(conn[c].send) = SendLen}
  IN
    /\ queue # <<>>
    /\ queue' = Tail(queue)
    /\ conn' = [c \in Client |->
         IF c \in subscribers \ slow
         THEN [conn[c] EXCEPT !.send = Append(@, e)] ELSE conn[c]]
    /\ due' = [c \in Client |-> IF c \in subscribers THEN Fold(due[c], e) ELSE due[c]]
    /\ UNCHANGED <<upstream, view, clients, panicked>>

DeliverTargeted ==
  LET e == Head(queue)
      subscribers == {c \in clients : conn[c].subscribed}
      slow == {c \in subscribers : Len(conn[c].send) = SendLen}
  IN
    /\ queue # <<>>
    /\ queue' = Tail(queue)
    /\ clients' = clients \ slow
    /\ conn' = [c \in Client |->
         IF c \in slow THEN TooSlow(c)
         ELSE IF c \in subscribers THEN [conn[c] EXCEPT !.send = Append(@, e)]
         ELSE conn[c]]
    /\ panicked' = (panicked \/ \E c \in subscribers : conn[c].sendClosed)
    /\ due' = [c \in Client |-> IF c \in subscribers THEN Fold(due[c], e) ELSE due[c]]
    /\ UNCHANGED <<upstream, view>>

-----------------------------------------------------------------------------
(***************************************************************************)
(* The two goroutines of a socket.                                         *)
(***************************************************************************)
ReadPump(c) ==
  /\ conn[c].reader = "reading" /\ conn[c].inbox # <<>>
  /\ conn' = [conn EXCEPT ![c].subscribed = (Head(conn[c].inbox) = "subscribe"),
                          ![c].inbox = Tail(@)]
  /\ UNCHANGED <<upstream, queue, clients, page, panicked>>

ReadError(c) ==
  /\ conn[c].reader = "reading"
  /\ conn[c].socket = "closed" /\ conn[c].inbox = <<>>
  /\ conn' = [conn EXCEPT ![c].reader = "leaving"]
  /\ UNCHANGED <<upstream, queue, clients, page, panicked>>

\* A closed channel first yields what is buffered in it.
WritePump(c) ==
  /\ conn[c].writer = "writing" /\ conn[c].socket = "open" /\ conn[c].send # <<>>
  /\ conn' = [conn EXCEPT ![c].wire = Append(@, Head(conn[c].send)),
                          ![c].send = Tail(@)]
  /\ UNCHANGED <<upstream, queue, clients, page, panicked>>

\* The channel is closed and empty: say goodbye and close the socket.
WriteClose(c) ==
  /\ conn[c].writer = "writing" /\ conn[c].socket = "open"
  /\ conn[c].sendClosed /\ conn[c].send = <<>>
  /\ conn' = [conn EXCEPT ![c].writer = "done", ![c].socket = "closed"]
  /\ UNCHANGED <<upstream, queue, clients, page, panicked>>

\* Writing to a socket that is gone, a ping at the latest.
WriteError(c) ==
  /\ conn[c].writer = "writing" /\ conn[c].socket = "closed"
  /\ conn' = [conn EXCEPT ![c].writer = "done"]
  /\ UNCHANGED <<upstream, queue, clients, page, panicked>>

-----------------------------------------------------------------------------
Service(c) ==
  \/ Register(c) \/ Unregister(c)
  \/ ReadPump(c) \/ ReadError(c)
  \/ WritePump(c) \/ WriteClose(c) \/ WriteError(c)

Next ==
  \/ \E e \in Event : Publish(e)
  \/ SubscriptionLost \/ BroadcastToProperty \/ DeliverTargeted
  \/ \E c \in Client :
       Service(c) \/ Connect(c) \/ OnMessage(c) \/ Leave(c) \/ NetworkFails(c)

\* The Go runtime runs every goroutine that can run, and a select chooses
\* at random among its ready cases.  The browser hands over what it has
\* received.  Nothing makes a visitor come or go.
Fairness ==
  /\ WF_vars(BroadcastToProperty) /\ WF_vars(DeliverTargeted)
  /\ \A c \in Client :
       /\ WF_vars(Register(c)) /\ WF_vars(Unregister(c))
       /\ WF_vars(ReadPump(c)) /\ WF_vars(ReadError(c))
       /\ WF_vars(WritePump(c)) /\ WF_vars(WriteClose(c)) /\ WF_vars(WriteError(c))
       /\ WF_vars(OnMessage(c))

Spec == Init /\ [][Next]_vars /\ Fairness

-----------------------------------------------------------------------------
(***************************************************************************)
(* Properties.                                                             *)
(***************************************************************************)

\* The hub never closes a send channel twice and never sends on a closed
\* one, though it drops slow clients whose reader unregisters them later
\* (main.go, Hub.run): either would bring the whole service down.
HubNeverPanics == ~panicked

\* What a page that shows `rooms' shows after the events s: of every room,
\* the last event about it decides.
LastAbout(r, s) ==
  {i \in DOMAIN s : /\ s[i].room = r
                    /\ \A j \in DOMAIN s : s[j].room = r => j <= i}
After(rooms, s) ==
  {r \in Room : \/ \E i \in LastAbout(r, s) : s[i].type = "room.held"
                \/ r \in rooms /\ \A i \in DOMAIN s : s[i].room # r}

\* A page whose socket the hub still serves has missed nothing since it
\* subscribed: what it shows, what is on the wire to it and what its send
\* channel holds add up to every event delivered (main.go, Hub.run).
NothingSkipped ==
  \A c \in clients : conn[c].socket = "open" =>
    After(view[c], conn[c].wire \o conn[c].send) = due[c]

\* A socket that fails, is closed or is dropped as too slow is cleaned up
\* to the end: out of the hub, both goroutines gone, the connection closed.
SocketsEnd ==
  \A c \in Client :
    (conn[c].reader = "reading" /\ (c \notin clients \/ conn[c].socket = "closed"))
      ~> /\ c \notin clients
         /\ conn[c].reader = "done" /\ conn[c].writer = "done"
         /\ conn[c].socket = "closed"
=============================================================================

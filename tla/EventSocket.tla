------------------------------ MODULE EventSocket ------------------------------
(***************************************************************************)
(* The event hubs of the browser (src/services/events.ts) and the one web  *)
(* socket they share.  A hub registers one listener for its event while    *)
(* anybody subscribes to it; the socket is opened with the first           *)
(* registration and closed with the last, and one second after it was lost *)
(* it is opened again.                                                     *)
(*                                                                         *)
(* A socket has a number that is used again when its close event has been  *)
(* handled; every socket ever opened keeps its handlers, also one the page *)
(* no longer refers to.  Subscribing and unsubscribing are calls in some   *)
(* task of the page; the promise of a registration is settled before the   *)
(* next event or timer is handled.                                         *)
(***************************************************************************)
EXTENDS Naturals, Sequences

CONSTANTS
  Hubs,         \* event names
  Subscribers,  \* callbacks of the page
  HubOf,        \* the hub a callback subscribes to
  MaxSubs,      \* bound on the subscriptions
  MaxSockets,   \* bound on the sockets not yet closed
  MaxLosses     \* bound on the connections lost

ASSUME SocketAssumption ==
  /\ HubOf \in [Subscribers -> Hubs]
  /\ MaxSockets \in Nat \ {0}
  /\ MaxLosses \in Nat /\ MaxSubs \in Nat

VARIABLES
  subs,        \* subscriptions so far
  listeners,   \* listeners of a hub
  hub,         \* "off", "starting" while listenPromise is set, or "on" with unlisten
  registered,  \* number of listeners of a hub in webSocketListeners
  webSocket,   \* the socket the page refers to, 0 for null
  socket,      \* state of every socket
  wire,        \* what the server has sent on it and the page has not handled
  timer,       \* is webSocketReconnectTimer set?
  losses,      \* connections lost so far
  got,         \* history: the events a callback was called with
  stale        \* history: a close event has made the page forget another socket

hubVars == <<subs, listeners, hub, registered>>
socketVars == <<webSocket, socket, wire, timer, losses, got, stale>>

Sockets == 1..MaxSockets
SocketStates == {"free", "connecting", "open", "lost", "closing"}

EventSocketTypeOK ==
  /\ subs \in 0..MaxSubs
  /\ listeners \in [Hubs -> SUBSET Subscribers]
  /\ hub \in [Hubs -> {"off", "starting", "on"}]
  /\ registered \in [Hubs -> Nat]
  /\ webSocket \in 0..MaxSockets
  /\ socket \in [Sockets -> SocketStates]
  /\ timer \in BOOLEAN /\ stale \in BOOLEAN
  /\ losses \in 0..MaxLosses

EventSocketInit ==
  /\ subs = 0
  /\ listeners = [h \in Hubs |-> {}]
  /\ hub = [h \in Hubs |-> "off"]
  /\ registered = [h \in Hubs |-> 0]
  /\ webSocket = 0
  /\ socket = [s \in Sockets |-> "free"]
  /\ wire = [s \in Sockets |-> <<>>]
  /\ timer = FALSE /\ stale = FALSE
  /\ losses = 0
  /\ got = [l \in Subscribers |-> <<>>]

-------------------------------------------------------------------------------
\* No task is running: its promises are settled.
Idle == \A h \in Hubs : hub[h] # "starting"

Registered == \E h \in Hubs : registered[h] > 0

\* Mutant: a socket that is not open yet does not count.
connected_open == webSocket # 0 /\ socket[webSocket] = "open"

connected == webSocket # 0

\* connectWebSocket()
connectWebSocket ==
  IF connected THEN UNCHANGED <<webSocket, socket>>
  ELSE \E s \in Sockets :
         /\ socket[s] = "free" /\ \A p \in 1..(s - 1) : socket[p] # "free"
         /\ webSocket' = s
         /\ socket' = [socket EXCEPT ![s] = "connecting"]

\* start() has neither unlisten nor listenPromise.
notStarted(h) == hub[h] = "off"

\* subscribe() of a hub
subscribe(l) ==
  LET h == HubOf[l]
  IN
  /\ l \notin listeners[h]
  /\ subs < MaxSubs /\ subs' = subs + 1
  /\ listeners' = [listeners EXCEPT ![h] = @ \cup {l}]
  /\ IF notStarted(h)
     THEN /\ hub' = [hub EXCEPT ![h] = "starting"]
          /\ registered' = [registered EXCEPT ![h] = @ + 1]
          /\ connectWebSocket
     ELSE UNCHANGED <<hub, registered, webSocket, socket>>
  /\ UNCHANGED <<wire, timer, losses, got, stale>>

\* The function listenCompat() returns: it forgets the listener, and closes the
\* socket with the last one.
unlisten(h) ==
  /\ registered' = [registered EXCEPT ![h] = @ - 1]
  /\ IF webSocket # 0 /\ ~Registered'
     THEN /\ socket' = [socket EXCEPT ![webSocket] = "closing"]
          /\ webSocket' = 0
     ELSE UNCHANGED <<socket, webSocket>>

stop(h) ==
  IF hub[h] = "on" THEN hub' = [hub EXCEPT ![h] = "off"] /\ unlisten(h)
  ELSE UNCHANGED <<hub, registered, webSocket, socket>>

unsubscribe(l) ==
  LET h == HubOf[l]
  IN
  /\ l \in listeners[h]
  /\ listeners' = [listeners EXCEPT ![h] = @ \ {l}]
  /\ IF listeners[h] = {l} THEN stop(h)
     ELSE UNCHANGED <<hub, registered, webSocket, socket>>
  /\ UNCHANGED <<subs, wire, timer, losses, got, stale>>

\* Mutant: a subscriber that left meanwhile is not noticed.
nobodyLeft_ignored(h) == FALSE

nobodyLeft(h) == listeners[h] = {}

\* The promise of a registration is settled.
listening(h) ==
  /\ hub[h] = "starting"
  /\ IF nobodyLeft(h)
     THEN hub' = [hub EXCEPT ![h] = "off"] /\ unlisten(h)
     ELSE /\ hub' = [hub EXCEPT ![h] = "on"]
          /\ UNCHANGED <<registered, webSocket, socket>>
  /\ UNCHANGED <<subs, listeners, wire, timer, losses, got, stale>>

-------------------------------------------------------------------------------
\* The server accepts a connection, and from then on sends every event on it.
accept(s) ==
  /\ socket[s] = "connecting"
  /\ socket' = [socket EXCEPT ![s] = "open"]
  /\ UNCHANGED <<hubVars, webSocket, wire, timer, losses, got, stale>>

\* broadcastToOpenSockets(): wire after an event of hub h with number n.
sent(h, n) ==
  [s \in Sockets |-> IF socket[s] = "open" THEN Append(wire[s], [hub |-> h, id |-> n])
                     ELSE wire[s]]

\* Connections are refused or break; what had come over them is still handled.
lose(broken) ==
  /\ socket' = [s \in Sockets |-> IF s \in broken THEN "lost" ELSE socket[s]]
  /\ UNCHANGED <<hubVars, webSocket, wire, timer, got, stale>>

loseOne ==
  /\ losses < MaxLosses /\ losses' = losses + 1
  /\ \E s \in Sockets : socket[s] \in {"connecting", "open"} /\ lose({s})

\* The listener of "message": a hub calls all its listeners, once for every time
\* it is registered.
Times(x, n) == [i \in 1..n |-> x]

onMessage(s) ==
  /\ Idle /\ socket[s] \in {"open", "lost"} /\ wire[s] # <<>>
  /\ LET event == Head(wire[s])
     IN got' = [l \in Subscribers |->
                  IF l \in listeners[event.hub]
                  THEN got[l] \o Times(event.id, registered[event.hub])
                  ELSE got[l]]
  /\ wire' = [wire EXCEPT ![s] = Tail(@)]
  /\ UNCHANGED <<hubVars, webSocket, socket, timer, losses, stale>>

\* Mutants: no timer, or one only for the socket the page refers to.
timerAfter_none(s) == timer
timerAfter_own(s) == timer \/ webSocket = s

\* The listener of "close": whichever socket it was, the page has none now, and a
\* timer to connect again.
timerAfter(s) == TRUE

onClose(s) ==
  /\ Idle /\ socket[s] \in {"lost", "closing"}
  /\ socket' = [socket EXCEPT ![s] = "free"]
  /\ wire' = [wire EXCEPT ![s] = <<>>]
  /\ webSocket' = 0
  /\ timer' = timerAfter(s)
  /\ stale' = (stale \/ webSocket \notin {0, s})
  /\ UNCHANGED <<hubVars, losses, got>>

reconnectTimer ==
  /\ Idle /\ timer
  /\ timer' = FALSE
  /\ IF Registered THEN connectWebSocket ELSE UNCHANGED <<webSocket, socket>>
  /\ UNCHANGED <<hubVars, wire, losses, got, stale>>

Page ==
  \/ \E l \in Subscribers : subscribe(l) \/ unsubscribe(l)
  \/ \E h \in Hubs : listening(h)
  \/ \E s \in Sockets : onMessage(s) \/ onClose(s)
  \/ reconnectTimer

-------------------------------------------------------------------------------
\* A hub is registered once while anybody listens to it, and not otherwise: no
\* order of subscribing, leaving and settling promises leaves a registration
\* behind or makes two.
RegisteredOnce ==
  \A h \in Hubs :
    /\ registered[h] = IF hub[h] = "off" THEN 0 ELSE 1
    /\ hub[h] = "off" => listeners[h] = {}
    /\ hub[h] = "on" => listeners[h] # {}

\* There is a connection, or none left but the one the page refers to, unless the
\* late close event of an earlier socket made the page forget it.
OneSocket ==
  ~stale => \A s \in Sockets : socket[s] \in {"connecting", "open", "lost"} => s = webSocket

\* A page that listens is never without both a socket and a timer to open one.
WillConnect == Registered => webSocket # 0 \/ timer
===============================================================================

------------------------------- MODULE EventPath -------------------------------
(***************************************************************************)
(* The way of an event from the app-server to the callbacks of a page:     *)
(* NotificationDelivery in the companion server, the web sockets between   *)
(* them, EventSocket in the browser.  A broadcast is one step of both; so  *)
(* is the end of the server process, which breaks every connection.        *)
(***************************************************************************)
EXTENDS NotificationDelivery, EventSocket

CONSTANT AppServerEvent   \* the event name of notifications

ASSUME PathAssumption == AppServerEvent \in Hubs

vars == <<deliveryVars, hubVars, socketVars>>
pageVars == <<hubVars, webSocket, socket, timer, losses, got, stale>>

TypeOK == DeliveryTypeOK /\ EventSocketTypeOK

Init == DeliveryInit /\ EventSocketInit

\* broadcast() of what a step of the server shows, if it does
Broadcasts ==
  /\ wire' = IF shown' = shown THEN wire ELSE sent(AppServerEvent, shown'[Len(shown')])
  /\ UNCHANGED pageVars

Notification == (\E note \in Notes : arrive(note)) /\ Broadcasts
Saving == saveEnds /\ Broadcasts

ServerEnds ==
  /\ processEnds
  /\ lose({s \in Sockets : socket[s] \in {"connecting", "open"}})
  /\ UNCHANGED losses

ServerStarts == restart /\ UNCHANGED <<hubVars, socketVars>>

Connection ==
  /\ \/ up /\ \E s \in Sockets : accept(s)
     \/ loseOne
  /\ UNCHANGED deliveryVars

InPage == Page /\ UNCHANGED deliveryVars

Next ==
  \/ Notification \/ Saving \/ ServerEnds \/ ServerStarts
  \/ Connection \/ InPage

Spec == Init /\ [][Next]_vars

\* The process manager restarts the server, connections are accepted, and the page
\* settles its promises and handles its close events and timers.
Fairness ==
  /\ WF_vars(ServerStarts)
  /\ \A s \in Sockets :
       /\ WF_vars(up /\ accept(s) /\ UNCHANGED deliveryVars)
       /\ WF_vars(onClose(s) /\ UNCHANGED deliveryVars)
  /\ \A h \in Hubs : WF_vars(listening(h) /\ UNCHANGED deliveryVars)
  /\ WF_vars(reconnectTimer /\ UNCHANGED deliveryVars)

FairSpec == Spec /\ Fairness

-------------------------------------------------------------------------------
\* A callback gets no event twice, and gets the events in the order of the app-server,
\* over losses of the connection and restarts of the server, but for those that needed
\* no save and overtook one that did; unless a late close event left two sockets open.
GotInOrder ==
  ~stale => \A l \in Subscribers : \A x, y \in 1..Len(got[l]) :
              x < y => got[l][x] < got[l][y] \/ Overtakes(got[l][x], got[l][y])

\* A page that listens is connected again, however often the connection was lost.
Reconnects ==
  Registered ~> (~Registered \/ (webSocket # 0 /\ socket[webSocket] = "open"))
===============================================================================

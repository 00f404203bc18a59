---------------------------- MODULE LiveConnection ----------------------------
(***************************************************************************)
(* useRemoteThreadLiveConnection.ts: the page is subscribed, at the        *)
(* backend, to the live events of the thread in view.  Switching threads,  *)
(* losing and gaining the focus and events of the backend start attempts   *)
(* to subscribe; an attempt awaits a refresh of the thread, perhaps the    *)
(* end of its earlier subscription, and the new one.  Every attempt and    *)
(* every blur takes a sequence number, and an attempt that is not the      *)
(* latest when it continues gives up.                                      *)
(*                                                                         *)
(* The backend is external: it handles requests in any order, and sends an *)
(* event for each, as the daemon does (src-tauri); the companion server    *)
(* answers and sends none.  No unsubscription fails.  The workspace stays  *)
(* connected, and of the                                                   *)
(* connection state shown to the user nothing is kept.                     *)
(***************************************************************************)
EXTENDS Naturals, Sequences

CONSTANTS
  Threads,      \* threads of the workspace
  MaxAttempts,  \* bound on the attempts that run at once
  MaxMoves,     \* bound on what the user, and the connection of the workspace, do
  MaxEvents     \* bound on the events on their way at once

ASSUME LiveAssumption ==
  /\ "none" \notin Threads
  /\ MaxAttempts \in Nat \ {0} /\ MaxMoves \in Nat /\ MaxEvents \in Nat \ {0}

VARIABLES
  view,        \* activeThreadId
  window,      \* what the window is: focused, visible or hidden
  active,      \* activeSubscriptionKeyRef
  desired,     \* desiredSubscriptionKeyRef
  ignore,      \* threads in ignoreDetachedEventsUntilRef, the time not over
  latest,      \* the attempt that has the number in reconnectSequenceRef, 0 if none has
  inFlight,    \* inFlightReconnectRef: an attempt, 0 for null
  attempt,     \* the attempts
  leaving,     \* number of unsubscriptions on their way that nobody awaits
  subscribed,  \* external: threads the backend sends live events of
  events,      \* external: attached and detached events on their way
  moves,       \* what the user has done so far
  forgotten    \* history: threads whose subscription the page no longer knows of,
               \* though it has not ended it

refs == <<active, desired, ignore, latest, inFlight>>
backendVars == <<subscribed, events>>
vars == <<view, window, refs, attempt, leaving, backendVars, moves, forgotten>>

NoThread == "none"
Attempts == 1..MaxAttempts
Stages == {"idle", "refreshing", "ending", "ended", "joining", "joined", "undoing"}
Idle == [at |-> "idle", key |-> NoThread]

TypeOK ==
  /\ view \in Threads \cup {NoThread}
  /\ window \in {"focused", "visible", "hidden"}
  /\ active \in Threads \cup {NoThread}
  /\ desired \in Threads \cup {NoThread}
  /\ ignore \subseteq Threads
  /\ latest \in 0..MaxAttempts /\ inFlight \in 0..MaxAttempts
  /\ attempt \in [Attempts -> [at : Stages, key : Threads \cup {NoThread}]]
  /\ leaving \in [Threads -> Nat]
  /\ subscribed \subseteq Threads
  /\ events \in Seq([kind : {"attached", "detached"}, key : Threads])
  /\ moves \in 0..MaxMoves
  /\ forgotten \subseteq Threads

Init ==
  /\ view = NoThread /\ window = "focused"
  /\ active = NoThread /\ desired = NoThread
  /\ ignore = {}
  /\ latest = 0 /\ inFlight = 0
  /\ attempt = [a \in Attempts |-> Idle]
  /\ leaving = [k \in Threads |-> 0]
  /\ subscribed = {} /\ events = <<>>
  /\ moves = 0
  /\ forgotten = {}

-------------------------------------------------------------------------------
\* An attempt for thread k goes on to subscribe, after it has ended an earlier
\* subscription of the page to the same thread.
attach(a, k, act) ==
  /\ attempt' = [attempt EXCEPT ![a] =
       [at |-> IF act = k THEN "ending" ELSE "joining", key |-> k]]
  /\ ignore' = IF act = k THEN ignore \cup {k} ELSE ignore

settle(a) ==
  /\ attempt' = [attempt EXCEPT ![a] = Idle]
  /\ inFlight' = IF inFlight = a THEN 0 ELSE inFlight
  /\ latest' = IF latest = a THEN 0 ELSE latest

\* The attempt in flight is for the same thread, and nothing has overtaken it.
coalesces(k) ==
  inFlight # 0 /\ attempt[inFlight].key = k /\ inFlight = latest

\* reconnectLive(), with `act` for activeSubscriptionKeyRef
reconnectLive(k, runResume, act) ==
  /\ desired' = k
  /\ IF coalesces(k) THEN UNCHANGED <<latest, inFlight, attempt, ignore>>
     ELSE \E a \in Attempts :
            /\ attempt[a].at = "idle" /\ \A b \in 1..(a - 1) : attempt[b].at # "idle"
            /\ latest' = a /\ inFlight' = a
            /\ IF runResume
               THEN /\ attempt' = [attempt EXCEPT ![a] =
                         [at |-> "refreshing", key |-> k]]
                    /\ UNCHANGED ignore
               ELSE attach(a, k, act)

\* unsubscribeByKey(), not awaited
leave(k) ==
  leaving' = IF k = NoThread THEN leaving ELSE [leaving EXCEPT ![k] = @ + 1]

current(a) == latest = a

\* refreshThread() returns, or throws.
refreshed(a) ==
  /\ attempt[a].at = "refreshing"
  /\ \/ /\ current(a)
        /\ attach(a, attempt[a].key, active)
        /\ UNCHANGED <<inFlight, latest>>
     \/ settle(a) /\ UNCHANGED ignore
  /\ UNCHANGED <<view, window, active, desired, leaving, backendVars, moves, forgotten>>

\* The earlier subscription of the attempt's own thread has ended: the page is
\* subscribed to nothing, and the attempt subscribes.
ended(a) ==
  /\ attempt[a].at = "ended"
  /\ attempt' = [attempt EXCEPT ![a].at = "joining"]
  /\ active' = NoThread
  /\ forgotten' = forgotten \cup (subscribed \cap {active})
  /\ UNCHANGED <<view, window, desired, ignore, latest, inFlight, leaving,
                 backendVars, moves>>

\* Mutant: an overtaken attempt leaves its subscription to whoever overtook it.
undoes_never(a) == FALSE

\* The attempt is not the latest: what it subscribed to is undone, unless that is
\* what the page wants by now.
undoes(a) == desired # attempt[a].key

joined(a) ==
  /\ attempt[a].at = "joined"
  /\ \/ /\ current(a)
        /\ active' = attempt[a].key
        /\ forgotten' = forgotten \ {attempt[a].key}
        /\ settle(a)
     \/ /\ ~current(a) /\ undoes(a)
        /\ attempt' = [attempt EXCEPT ![a].at = "undoing"]
        /\ UNCHANGED <<active, inFlight, latest, forgotten>>
     \/ /\ ~current(a) /\ ~undoes(a)
        /\ settle(a)
        /\ forgotten' = forgotten \cup (({attempt[a].key} \cap {desired}) \ {active})
        /\ UNCHANGED active
  /\ UNCHANGED <<view, window, desired, ignore, leaving, backendVars, moves>>

\* threadLiveSubscribe() throws.
refused(a) ==
  /\ attempt[a].at = "joining"
  /\ settle(a)
  /\ UNCHANGED <<view, window, active, desired, ignore, leaving, backendVars, moves, forgotten>>

Attempt(a) == refreshed(a) \/ ended(a) \/ joined(a) \/ refused(a)

-------------------------------------------------------------------------------
\* The effect of a new thread in view, or of none.
switch(k, runResume) ==
  LET old == IF active # k THEN active ELSE NoThread
      act == IF active # k THEN NoThread ELSE active
  IN
  /\ k # view /\ view' = k
  /\ active' = act
  /\ leave(old)
  /\ IF k = NoThread \/ window = "hidden" \/ act = k
     THEN desired' = k /\ UNCHANGED <<ignore, latest, inFlight, attempt>>
     ELSE reconnectLive(k, runResume, act)
  /\ UNCHANGED window

\* handleBlur(), of a window that loses the focus or a page that is hidden
blur(w) ==
  /\ <<window, w>> \in {<<"focused", "visible">>, <<"focused", "hidden">>,
                        <<"visible", "hidden">>}
  /\ window' = w
  /\ latest' = 0
  /\ desired' = NoThread
  /\ active' = NoThread
  /\ leave(active)
  /\ UNCHANGED <<view, ignore, inFlight, attempt>>

\* handleFocus(), and handleVisibilityChange() of a page that is shown again
focus(w) ==
  /\ <<window, w>> \in {<<"visible", "focused">>, <<"hidden", "focused">>,
                        <<"hidden", "visible">>}
  /\ window' = w
  /\ IF view = NoThread THEN UNCHANGED <<desired, ignore, latest, inFlight, attempt>>
     ELSE reconnectLive(view, TRUE, active)
  /\ UNCHANGED <<view, active, leaving>>

\* The event codex/connected: the workspace was connected again.
onConnected ==
  /\ view # NoThread /\ window # "hidden"
  /\ reconnectLive(view, FALSE, active)
  /\ UNCHANGED <<view, window, active, leaving>>

Move ==
  /\ moves < MaxMoves /\ moves' = moves + 1
  /\ \/ \E k \in Threads \cup {NoThread}, runResume \in BOOLEAN : switch(k, runResume)
     \/ \E w \in {"focused", "visible", "hidden"} : blur(w) \/ focus(w)
     \/ onConnected
  /\ UNCHANGED <<backendVars, forgotten>>

\* Mutant: an event of any thread
attachedTo_any(k) == k

attachedTo(k) == IF k = view THEN view ELSE active

\* thread/live_attached
onAttached ==
  /\ events # <<>> /\ Head(events).kind = "attached"
  /\ events' = Tail(events)
  /\ active' = attachedTo(Head(events).key)
  /\ forgotten' = forgotten \ {active'}
  /\ UNCHANGED <<view, window, desired, ignore, latest, inFlight, attempt, leaving,
                 subscribed, moves>>

\* thread/live_detached: of another thread, or ignored because the page ended this
\* subscription itself within the last ten seconds, or the end of a subscription.
onDetached ==
  LET k == Head(events).key
      other == k # view
  IN
  /\ events # <<>> /\ Head(events).kind = "detached"
  /\ events' = Tail(events)
  /\ \/ /\ other \/ k \in ignore
        /\ ignore' = IF other THEN ignore ELSE ignore \ {k}
        /\ UNCHANGED <<active, desired, latest, inFlight, attempt, forgotten>>
     \/ /\ ~other /\ k \notin ignore
        /\ active' = NoThread
        /\ forgotten' = forgotten \cup (subscribed \cap {k})
        /\ IF window = "focused" THEN reconnectLive(k, TRUE, NoThread)
           ELSE UNCHANGED <<desired, ignore, latest, inFlight, attempt>>
  /\ UNCHANGED <<view, window, leaving, subscribed, moves>>

\* Ten seconds have passed.
ignoreEnds(k) ==
  /\ k \in ignore
  /\ ignore' = ignore \ {k}
  /\ UNCHANGED <<view, window, active, desired, latest, inFlight, attempt, leaving,
                 backendVars, moves, forgotten>>

-------------------------------------------------------------------------------
\* The backend handles a request, and sends an event.
Sends == Len(events) < MaxEvents

Unsubscribes(k) ==
  /\ Sends
  /\ subscribed' = subscribed \ {k}
  /\ events' = Append(events, [kind |-> "detached", key |-> k])
  /\ forgotten' = forgotten \ {k}

ServeAttempt(a) ==
  /\ \/ /\ attempt[a].at = "joining" /\ Sends
        /\ subscribed' = subscribed \cup {attempt[a].key}
        /\ events' = Append(events, [kind |-> "attached", key |-> attempt[a].key])
        /\ attempt' = [attempt EXCEPT ![a].at = "joined"]
        /\ UNCHANGED <<inFlight, latest, forgotten>>
     \/ /\ attempt[a].at = "ending"
        /\ Unsubscribes(attempt[a].key)
        /\ attempt' = [attempt EXCEPT ![a].at = "ended"]
        /\ UNCHANGED <<inFlight, latest>>
     \/ /\ attempt[a].at = "undoing"
        /\ Unsubscribes(attempt[a].key)
        /\ settle(a)
  /\ UNCHANGED <<view, window, active, desired, ignore, leaving, moves>>

asked(k) == leaving[k] > 0

ServeLeaving(k) ==
  /\ asked(k)
  /\ leaving' = [leaving EXCEPT ![k] = @ - 1]
  /\ Unsubscribes(k)
  /\ UNCHANGED <<view, window, refs, attempt, moves>>

Next ==
  \/ Move \/ onAttached \/ onDetached
  \/ \E a \in Attempts : Attempt(a) \/ ServeAttempt(a)
  \/ \E k \in Threads : ignoreEnds(k) \/ ServeLeaving(k)

Spec == Init /\ [][Next]_vars

-------------------------------------------------------------------------------
Quiet ==
  /\ events = <<>>
  /\ \A a \in Attempts : attempt[a].at = "idle"
  /\ \A k \in Threads : leaving[k] = 0

\* When everything is answered, the backend sends events of no thread but the one
\* the page knows it is subscribed to, and those it has forgotten: because an
\* overtaken attempt left its subscription to a later attempt for the same thread,
\* or cleared the reference to a newer subscription, or because the detached event
\* of an earlier subscription was taken for the end of the present one.
NoLeftover == Quiet => subscribed \subseteq {active} \cup forgotten

\* The page takes itself to be subscribed to no thread but the one in view, as
\* long as one is in view.
ViewOnly == view # NoThread => active \in {NoThread, view}
===============================================================================

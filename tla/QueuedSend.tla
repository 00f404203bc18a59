------------------------------ MODULE QueuedSend ------------------------------
(***************************************************************************)
(* useQueuedSend (src/features/threads/hooks/useQueuedSend.ts): messages   *)
(* typed while a turn runs wait in a queue of their thread, and an effect  *)
(* sends the first of the active thread when no turn is shown; together    *)
(* with the sending (useThreadMessaging.ts) and the events of turns        *)
(* (useThreadTurnEvents.ts) that set what is shown.                        *)
(*                                                                         *)
(* The companion server and the app-server are external: they accept a     *)
(* message as a turn of its own number, or into the running turn, or       *)
(* refuse it.  Answers come by HTTP, where a request may fail although the *)
(* message was accepted, and events by a web socket; neither waits for the *)
(* other.  Reviews and new threads are left out, and React is taken to     *)
(* render, and run the effects, between any two callbacks.                 *)
(***************************************************************************)
EXTENDS Naturals, Sequences

CONSTANTS
  Threads,    \* threads of the workspace
  MaxMsgs,    \* bound on the messages typed
  Commands,   \* those of them that start no turn: slash commands handled locally,
              \* and prompts that cannot be expanded
  Steer,      \* the setting steerEnabled
  MaxStops    \* bound on uses of the stop button

ASSUME QueuedSendAssumption ==
  /\ MaxMsgs \in Nat /\ MaxStops \in Nat
  /\ Commands \subseteq 1..MaxMsgs
  /\ Steer \in BOOLEAN

VARIABLES
  active,       \* activeThreadId
  paused,       \* queueFlushPaused
  queue,        \* queuedByThread
  inFlight,     \* inFlightByThread, 0 for null
  hasStarted,   \* threads with hasStartedByThread
  processing,   \* threads shown with isProcessing
  activeTurn,   \* activeTurnIdByThread, 0 for null
  stopNext,     \* pendingInterruptsRef
  typed,        \* number of messages typed; they are numbered from 1
  threadOf,     \* the thread a message was typed in
  target,       \* the turn a message is to steer, 0 to start one
  at,           \* how far a message is
  to,           \* the thread a message was sent to, as the request says
  flushed,      \* the messages the effect has taken from a queue
  running,      \* external: the turn that runs in a thread, 0 if none
  ran,          \* external: how many times a message was accepted
  events,       \* external: events on their way, per thread
  lost,         \* history: messages accepted into a turn, of which the page was told
                \* that the request failed
  stops         \* uses of the stop button

hookVars == <<queue, inFlight, hasStarted>>
shownVars == <<processing, activeTurn, stopNext>>
userVars == <<active, paused, typed, threadOf, stops>>
serverVars == <<running, ran, events, lost>>
sendVars == <<target, at, to, flushed>>
vars == <<hookVars, shownVars, userVars, serverVars, sendVars>>

Msgs == 1..MaxMsgs
Turns == 0..MaxMsgs
Ended == {"ran", "done", "refused", "removed"}
Sending == {"ensuring", "starting", "accepted", "rejected",
            "steering", "steered", "stale", "unsteered"}
Event == [kind : {"active", "started", "completed", "idle"}, turn : Turns]
event(k, turn) == [kind |-> k, turn |-> turn]

TypeOK ==
  /\ active \in Threads /\ paused \in BOOLEAN
  /\ queue \in [Threads -> Seq(Msgs)]
  /\ inFlight \in [Threads -> Turns]
  /\ hasStarted \subseteq Threads /\ processing \subseteq Threads
  /\ stopNext \subseteq Threads
  /\ activeTurn \in [Threads -> Turns]
  /\ typed \in Turns
  /\ threadOf \in [Msgs -> Threads]
  /\ target \in [Msgs -> Turns]
  /\ at \in [Msgs -> {"new", "queued", "command"} \cup Sending \cup Ended]
  /\ to \in [Msgs -> Threads \cup {0}]
  /\ flushed \subseteq Msgs
  /\ running \in [Threads -> Turns]
  /\ ran \in [Msgs -> Nat]
  /\ events \in [Threads -> Seq(Event)]
  /\ lost \subseteq Msgs
  /\ stops \in 0..MaxStops

Init ==
  /\ active \in Threads /\ paused = FALSE
  /\ queue = [t \in Threads |-> <<>>]
  /\ inFlight = [t \in Threads |-> 0]
  /\ hasStarted = {} /\ processing = {} /\ stopNext = {}
  /\ activeTurn = [t \in Threads |-> 0]
  /\ typed = 0
  /\ threadOf = [m \in Msgs |-> active]
  /\ target = [m \in Msgs |-> 0]
  /\ at = [m \in Msgs |-> "new"]
  /\ to = [m \in Msgs |-> 0]
  /\ flushed = {}
  /\ running = [t \in Threads |-> 0]
  /\ ran = [m \in Msgs |-> 0]
  /\ events = [t \in Threads |-> <<>>]
  /\ lost = {}
  /\ stops = 0

-------------------------------------------------------------------------------
\* The two effects, on the state that was just rendered.

\* The message in flight keeps its slot until a turn was shown and is over.
trackStarted ==
  /\ inFlight[active] # 0
  /\ active \in processing /\ active \notin hasStarted
  /\ hasStarted' = hasStarted \cup {active}
  /\ UNCHANGED <<queue, inFlight, shownVars, userVars, serverVars, sendVars>>

trackEnded ==
  /\ inFlight[active] # 0
  /\ active \notin processing /\ active \in hasStarted
  /\ inFlight' = [inFlight EXCEPT ![active] = 0]
  /\ hasStarted' = hasStarted \ {active}
  /\ UNCHANGED <<queue, shownVars, userVars, serverVars, sendVars>>

CanFlush ==
  /\ active \notin processing /\ ~paused
  /\ inFlight[active] = 0 /\ queue[active] # <<>>

\* runSlashCommand or sendUserMessage
startOf(m) == IF m \in Commands THEN "command" ELSE "ensuring"

flush ==
  /\ CanFlush
  /\ LET m == Head(queue[active]) IN
     /\ inFlight' = [inFlight EXCEPT ![active] = m]
     /\ hasStarted' = hasStarted \ {active}
     /\ queue' = [queue EXCEPT ![active] = Tail(@)]
     /\ at' = [at EXCEPT ![m] = startOf(m)]
     /\ target' = [target EXCEPT ![m] = 0]
     /\ flushed' = flushed \cup {m}
  /\ UNCHANGED <<shownVars, userVars, serverVars, to>>

Effect == trackStarted \/ trackEnded \/ flush

\* No effect has anything left to do: the next callback may run.
Rendered ==
  /\ ~CanFlush
  /\ inFlight[active] # 0 => (active \in processing <=> active \in hasStarted)

-------------------------------------------------------------------------------
\* The user.

enqueue(m, t) ==
  /\ queue' = [queue EXCEPT ![t] = Append(@, m)]
  /\ at' = [at EXCEPT ![m] = "queued"]
  /\ UNCHANGED <<inFlight, hasStarted>>

\* handleSend() while a turn is shown, and queueMessage() at any time.
queueMessage(m) == enqueue(m, active) /\ UNCHANGED target

\* handleSend() when no turn is shown, or to steer the turn that is.
sendUserMessage(m) ==
  /\ \/ active \notin processing /\ UNCHANGED target
     \/ /\ Steer /\ active \in processing /\ activeTurn[active] # 0
        /\ target' = [target EXCEPT ![m] = activeTurn[active]]
  /\ at' = [at EXCEPT ![m] = startOf(m)]
  /\ UNCHANGED hookVars

handleSend ==
  LET m == typed + 1 IN
  /\ Rendered
  /\ m \in Msgs
  /\ typed' = m
  /\ threadOf' = [threadOf EXCEPT ![m] = active]
  /\ queueMessage(m) \/ sendUserMessage(m)
  /\ UNCHANGED <<active, paused, stops, shownVars, serverVars, to, flushed>>

without(q, i) == SubSeq(q, 1, i - 1) \o SubSeq(q, i + 1, Len(q))

\* The numbers are unique: the message is at one place of the queue.
removeQueuedMessage(m) ==
  /\ Rendered
  /\ at[m] = "queued"
  /\ LET q == queue[threadOf[m]] IN
     \E i \in DOMAIN q :
       q[i] = m /\ queue' = [queue EXCEPT ![threadOf[m]] = without(q, i)]
  /\ at' = [at EXCEPT ![m] = "removed"]
  /\ UNCHANGED <<inFlight, hasStarted, shownVars, userVars, serverVars, target, to, flushed>>

setActiveThread(t) ==
  /\ Rendered
  /\ t # active
  /\ active' = t
  /\ paused' = FALSE
  /\ UNCHANGED <<hookVars, shownVars, typed, threadOf, stops, serverVars, sendVars>>

\* A question of the app-server is shown, or answered.
togglePaused ==
  /\ Rendered
  /\ paused' = ~paused
  /\ UNCHANGED <<active, typed, threadOf, stops, hookVars, shownVars, serverVars, sendVars>>

\* interruptTurn(): what is shown ends at once; the turn when it will.
interruptTurn ==
  /\ Rendered
  /\ stops < MaxStops
  /\ stops' = stops + 1
  /\ active \in processing
  /\ processing' = processing \ {active}
  /\ activeTurn' = [activeTurn EXCEPT ![active] = 0]
  /\ stopNext' = IF activeTurn[active] = 0 THEN stopNext \cup {active} ELSE stopNext
  /\ UNCHANGED <<active, paused, typed, threadOf, hookVars, serverVars, sendVars>>

-------------------------------------------------------------------------------
\* Sending.

showIdle(t) ==
  /\ processing' = processing \ {t}
  /\ activeTurn' = [activeTurn EXCEPT ![t] = 0]

\* mutant: the thread in view when the message goes out
sendMessageToThread_active(m) ==
  /\ Rendered /\ at[m] = "ensuring"
  /\ at' = [at EXCEPT ![m] = IF target[m] = 0 THEN "starting" ELSE "steering"]
  /\ to' = [to EXCEPT ![m] = active]
  /\ processing' = processing \cup {active}
  /\ UNCHANGED <<hookVars, activeTurn, stopNext, userVars, serverVars, target, flushed>>

\* The thread is loaded; markProcessing(true), and turn/start or turn/steer goes out.
sendMessageToThread(m) ==
  LET t == threadOf[m] IN
  /\ Rendered
  /\ at[m] = "ensuring"
  /\ at' = [at EXCEPT ![m] = IF target[m] = 0 THEN "starting" ELSE "steering"]
  /\ to' = [to EXCEPT ![m] = t]
  /\ processing' = processing \cup {t}
  /\ UNCHANGED <<hookVars, activeTurn, stopNext, userVars, serverVars, target, flushed>>

\* mutant: a refused message leaves the thread shown as processing
startAnswered_shown(m) ==
  /\ Rendered
  /\ \/ /\ at[m] = "accepted"
        /\ at' = [at EXCEPT ![m] = "ran"]
        /\ activeTurn' = [activeTurn EXCEPT ![to[m]] = m]
     \/ /\ at[m] = "rejected"
        /\ at' = [at EXCEPT ![m] = "refused"]
        /\ UNCHANGED activeTurn
  /\ UNCHANGED <<hookVars, processing, stopNext, userVars, serverVars, target, to, flushed>>

\* The answer of turn/start: status "sent", or "blocked", also when the request throws.
startAnswered(m) ==
  LET t == to[m] IN
  /\ Rendered
  /\ \/ /\ at[m] = "accepted"
        /\ at' = [at EXCEPT ![m] = "ran"]
        /\ activeTurn' = [activeTurn EXCEPT ![t] = m]
        /\ UNCHANGED processing
     \/ /\ at[m] = "rejected"
        /\ at' = [at EXCEPT ![m] = "refused"]
        /\ showIdle(t)
  /\ UNCHANGED <<hookVars, stopNext, userVars, serverVars, target, to, flushed>>

\* mutant: every answer sends the message to the queue
steerAnswered_always(m) ==
  /\ Rendered
  /\ at[m] \in {"steered", "stale", "unsteered"}
  /\ enqueue(m, to[m])
  /\ IF at[m] = "stale" THEN showIdle(to[m]) ELSE UNCHANGED <<processing, activeTurn>>
  /\ UNCHANGED <<stopNext, userVars, serverVars, target, to, flushed>>

\* The answer of turn/steer.  An error and any throw, a time-out or a lost connection
\* too, is steer_failed, and then the message goes to the queue.
steerAnswered(m) ==
  LET t == to[m] IN
  /\ Rendered
  /\ \/ /\ at[m] = "steered"
        /\ at' = [at EXCEPT ![m] = "ran"]
        /\ activeTurn' = [activeTurn EXCEPT ![t] = target[m]]
        /\ UNCHANGED <<hookVars, processing>>
     \/ /\ at[m] \in {"stale", "unsteered"}
        /\ enqueue(m, t)
        /\ IF at[m] = "stale" THEN showIdle(t) ELSE UNCHANGED <<processing, activeTurn>>
  /\ UNCHANGED <<stopNext, userVars, serverVars, target, to, flushed>>

\* A local command ends, or throws; one the effect has run then goes back to the
\* queue, and the slot is freed whoever has it by now.
commandEnds(m) ==
  LET t == threadOf[m] IN
  /\ Rendered
  /\ at[m] = "command"
  /\ \/ /\ at' = [at EXCEPT ![m] = "done"]
        /\ UNCHANGED hookVars
     \/ /\ m \in flushed
        /\ inFlight' = [inFlight EXCEPT ![t] = 0]
        /\ hasStarted' = hasStarted \ {t}
        /\ queue' = [queue EXCEPT ![t] = <<m>> \o @]
        /\ at' = [at EXCEPT ![m] = "queued"]
  /\ UNCHANGED <<shownVars, userVars, serverVars, target, to, flushed>>

-------------------------------------------------------------------------------
\* Events.

onTurnStarted(t, turn) ==
  IF t \in stopNext
  THEN stopNext' = stopNext \ {t} /\ UNCHANGED <<processing, activeTurn>>
  ELSE /\ processing' = processing \cup {t}
       /\ activeTurn' = [activeTurn EXCEPT ![t] = turn]
       /\ UNCHANGED stopNext

onTurnCompleted(t, turn) ==
  IF activeTurn[t] \notin {0, turn}
  THEN UNCHANGED shownVars
  ELSE showIdle(t) /\ stopNext' = stopNext \ {t}

onThreadStatusChanged(t, status) ==
  IF status = "active"
  THEN processing' = processing \cup {t} /\ UNCHANGED <<activeTurn, stopNext>>
  ELSE showIdle(t) /\ stopNext' = stopNext \ {t}

handleEvent(t) ==
  /\ Rendered
  /\ events[t] # <<>>
  /\ LET e == Head(events[t]) IN
     CASE e.kind = "started" -> onTurnStarted(t, e.turn)
       [] e.kind = "completed" -> onTurnCompleted(t, e.turn)
       [] e.kind \in {"active", "idle"} -> onThreadStatusChanged(t, e.kind)
  /\ events' = [events EXCEPT ![t] = Tail(@)]
  /\ UNCHANGED <<hookVars, userVars, running, ran, lost, sendVars>>

-------------------------------------------------------------------------------
\* External: the companion server, the app-server and the connections to them.

\* A turn begins, or the message is refused; the request may fail in either case.
ServeStart(m) ==
  LET t == to[m] IN
  /\ at[m] = "starting"
  /\ \/ /\ running[t] = 0
        /\ running' = [running EXCEPT ![t] = m]
        /\ ran' = [ran EXCEPT ![m] = @ + 1]
        /\ events' = [events EXCEPT ![t] = @ \o <<event("active", 0), event("started", m)>>]
        /\ \E answer \in {"accepted", "rejected"} : at' = [at EXCEPT ![m] = answer]
        /\ UNCHANGED lost
     \/ /\ at' = [at EXCEPT ![m] = "rejected"]
        /\ UNCHANGED serverVars
  /\ UNCHANGED <<hookVars, shownVars, userVars, target, to, flushed>>

\* The message joins the turn, or not; the request may fail in either case.
ServeSteer(m) ==
  LET t == to[m] IN
  /\ at[m] = "steering"
  /\ \/ /\ running[t] = target[m]
        /\ ran' = [ran EXCEPT ![m] = @ + 1]
        /\ \/ at' = [at EXCEPT ![m] = "steered"] /\ UNCHANGED lost
           \/ at' = [at EXCEPT ![m] = "unsteered"] /\ lost' = lost \cup {m}
     \/ /\ \/ running[t] # target[m] /\ at' = [at EXCEPT ![m] = "stale"]
           \/ at' = [at EXCEPT ![m] = "unsteered"]
        /\ UNCHANGED <<ran, lost>>
  /\ UNCHANGED <<hookVars, shownVars, userVars, running, events, target, to, flushed>>

\* A turn ends, by itself or because it was interrupted.
TurnEnds(t) ==
  /\ running[t] # 0
  /\ running' = [running EXCEPT ![t] = 0]
  /\ LET completed == event("completed", running[t])
         idle == event("idle", 0)
     IN \E order \in {<<completed, idle>>, <<idle, completed>>} :
          events' = [events EXCEPT ![t] = @ \o order]
  /\ UNCHANGED <<hookVars, shownVars, userVars, ran, lost, sendVars>>

-------------------------------------------------------------------------------
User ==
  \/ handleSend
  \/ \E m \in Msgs : removeQueuedMessage(m)
  \/ \E t \in Threads : setActiveThread(t)
  \/ togglePaused \/ interruptTurn

Message(m) ==
  \/ sendMessageToThread(m) \/ startAnswered(m) \/ steerAnswered(m) \/ commandEnds(m)
  \/ ServeStart(m) \/ ServeSteer(m)

Next ==
  \/ Effect \/ User
  \/ \E m \in Msgs : Message(m)
  \/ \E t \in Threads : handleEvent(t) \/ TurnEnds(t)

Spec == Init /\ [][Next]_vars

\* React renders; calls of fetch return; turns end and their events arrive.  The
\* user need do nothing.
FairSpec ==
  /\ Spec
  /\ WF_vars(Effect)
  /\ \A m \in Msgs : WF_vars(Message(m))
  /\ \A t \in Threads : WF_vars(handleEvent(t)) /\ WF_vars(TurnEnds(t))

-------------------------------------------------------------------------------
\* A message is in the queue of its own thread, once, exactly when it is neither
\* being sent nor at an end: a flush, a failed steer, a command that throws and the
\* remove button neither lose a message nor leave a second copy.
Conserved ==
  \A m \in Msgs :
    LET copies == {p \in Threads \X Msgs : p[2] \in DOMAIN queue[p[1]] /\ queue[p[1]][p[2]] = m}
    IN IF at[m] = "queued"
       THEN \E i \in Msgs : copies = {<<threadOf[m], i>>}
       ELSE copies = {}

\* A message is accepted twice, as a turn and into one, only if the request that
\* steered it failed after it was accepted: the page then takes it for refused and
\* queues it again.  It is never accepted three times: what was queued again starts
\* a turn, and a turn/start is not tried again.
NeverTwice == \A m \in Msgs : ran[m] <= IF m \in lost THEN 2 ELSE 1

\* A message goes to the thread it was typed in, whatever thread the user looks at
\* when its turn has come.
OwnThread == \A m \in Msgs : to[m] \in {0, threadOf[m]}

\* While the thread stays in view and no answer is required, every queued message
\* leaves the queue (useQueuedSend.test.tsx:43 "sends queued messages one at a time
\* after processing completes").
QueueMovesOn ==
  \A m \in Msgs :
    (at[m] = "queued" /\ [](active = threadOf[m] /\ ~paused)) ~> at[m] # "queued"

\* A queued message that was refused is tried again
\* (useQueuedSend.test.tsx:204 "retries queued send after failure").
FailedSendIsRetried == \A m \in flushed : at[m] = "refused" => ran[m] > 0
===============================================================================

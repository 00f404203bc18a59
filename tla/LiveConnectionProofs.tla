-------------------------- MODULE LiveConnectionProofs --------------------------
(***************************************************************************)
(* Theorems about LiveConnection, for any set of threads and any bounds.   *)
(*                                                                         *)
(* The strengthening: the latest attempt, which alone may say what the     *)
(* page is subscribed to, is for the thread in view; and the backend sends *)
(* events of no thread that is not accounted for, by the page, by a        *)
(* request on its way or by an attempt that will look at it (NoneLost).    *)
(***************************************************************************)
EXTENDS LiveConnection, TLAPS

USE DEF NoThread, Attempts

Keys == Threads \cup {NoThread}
AttemptOf == [at : Stages, key : Keys]
Holds == {"joined", "undoing"}

AttemptsInv == \A a \in Attempts : attempt[a].at = "idle" <=> attempt[a].key = NoThread

LatestInv ==
  /\ latest # 0 => window # "hidden" /\ attempt[latest].at \notin {"idle", "undoing"}
  /\ latest # 0 /\ view # NoThread => attempt[latest].key = view
  /\ view = NoThread /\ active # NoThread => latest = 0

\* Who will see to it that the subscription to thread k ends, unless it is wanted.
Accounted(k) ==
  \/ k = active \/ k \in forgotten \/ leaving[k] > 0
  \/ \E a \in Attempts : attempt[a].key = k /\ attempt[a].at \in Holds

NoneLost == \A k \in subscribed : Accounted(k)

Known == TypeOK /\ AttemptsInv /\ LatestInv /\ ViewOnly
LiveInv == Known /\ NoneLost

-------------------------------------------------------------------------------
\* What the parts of the actions do.

\* An attempt that settles leaves the others alone, and is nobody's latest.
LEMMA SettleFacts ==
  ASSUME Known, NEW a \in Attempts, settle(a)
  PROVE  /\ attempt' \in [Attempts -> AttemptOf] /\ AttemptsInv'
         /\ latest' \in 0..MaxAttempts /\ inFlight' \in 0..MaxAttempts
         /\ latest' # 0 => latest' = latest /\ attempt'[latest] = attempt[latest]
         /\ \A b \in Attempts \ {a} : attempt'[b] = attempt[b]
         /\ attempt'[a].key = NoThread
BY LiveAssumption DEF Known, TypeOK, settle, Idle, AttemptsInv, LatestInv, AttemptOf, Keys, Stages

\* An attempt moves on to another stage of the same thread.
LEMMA StageFacts ==
  ASSUME Known, NEW a \in Attempts, NEW s \in Stages \ {"idle"}, attempt[a].at # "idle",
         attempt' = [attempt EXCEPT ![a].at = s]
  PROVE  /\ attempt' \in [Attempts -> AttemptOf] /\ AttemptsInv'
         /\ \A b \in Attempts : attempt'[b].key = attempt[b].key
         /\ \A b \in Attempts \ {a} : attempt'[b] = attempt[b]
         /\ attempt'[a].at = s
BY DEF Known, TypeOK, AttemptsInv, AttemptOf, Keys, Stages

LEMMA AttachFacts ==
  ASSUME Known, NEW a \in Attempts, NEW k \in Threads, NEW act \in Keys, attach(a, k, act)
  PROVE  /\ attempt' \in [Attempts -> AttemptOf] /\ AttemptsInv'
         /\ ignore' \subseteq Threads
         /\ \A b \in Attempts \ {a} : attempt'[b] = attempt[b]
         /\ attempt'[a].key = k /\ attempt'[a].at \in {"ending", "joining"}
BY LiveAssumption DEF Known, TypeOK, attach, AttemptsInv, AttemptOf, Keys, Stages

\* After reconnectLive() the latest attempt is for the thread asked for, whether it is
\* new or was there; no subscription that an attempt holds changes hands.
LEMMA ReconnectFacts ==
  ASSUME Known, NEW k \in Threads, NEW runResume \in BOOLEAN, NEW act \in Keys,
         reconnectLive(k, runResume, act)
  PROVE  /\ attempt' \in [Attempts -> AttemptOf] /\ AttemptsInv'
         /\ ignore' \subseteq Threads /\ desired' = k
         /\ latest' \in Attempts /\ inFlight' \in 0..MaxAttempts
         /\ attempt'[latest'].key = k /\ attempt'[latest'].at \notin {"idle", "undoing"}
         /\ \A b \in Attempts : attempt[b].at \in Holds => attempt'[b] = attempt[b]
<1>1. CASE coalesces(k)
  BY <1>1 DEF reconnectLive, coalesces, Known, TypeOK, AttemptOf, Keys, AttemptsInv, LatestInv
<1>2. CASE ~coalesces(k)
  <2>1. PICK a \in Attempts :
          /\ attempt[a].at = "idle" /\ latest' = a /\ inFlight' = a
          /\ IF runResume
             THEN /\ attempt' = [attempt EXCEPT ![a] = [at |-> "refreshing", key |-> k]]
                  /\ UNCHANGED ignore
             ELSE attach(a, k, act)
    BY <1>2 DEF reconnectLive
  <2>2. desired' = k
    BY DEF reconnectLive
  <2>3. CASE runResume
    <3>1. attempt' = [attempt EXCEPT ![a] = [at |-> "refreshing", key |-> k]]
      BY <2>1, <2>3
    <3>2. attempt' \in [Attempts -> AttemptOf] /\ AttemptsInv'
      BY <3>1, LiveAssumption DEF Known, TypeOK, AttemptOf, Keys, Stages, AttemptsInv
    <3>. QED BY <2>1, <2>2, <2>3, <3>1, <3>2 DEF Known, TypeOK, Holds
  <2>4. CASE ~runResume
    BY <2>1, <2>2, <2>4, AttachFacts DEF Holds
  <2>. QED BY <2>3, <2>4
<1>. QED BY <1>1, <1>2

\* One more unsubscription that nobody awaits
LEMMA LeaveFacts ==
  ASSUME TypeOK, NEW k \in Keys, leave(k)
  PROVE  /\ leaving' \in [Threads -> Nat]
         /\ \A j \in Threads : leaving[j] > 0 => leaving'[j] > 0
         /\ k # NoThread => leaving'[k] > 0
BY DEF TypeOK, Keys, leave

-------------------------------------------------------------------------------
\* An attempt goes on.

LEMMA RefreshedKeeps ==
  ASSUME LiveInv, NEW a \in Attempts, refreshed(a)
  PROVE  LiveInv'
<1>1. attempt[a].at = "refreshing" /\ attempt[a].key \in Threads
  BY DEF refreshed, LiveInv, Known, TypeOK, AttemptsInv
<1>2. UNCHANGED <<view, window, active, desired, leaving, subscribed, events, moves, forgotten>>
  BY DEF refreshed, backendVars
<1>3. CASE current(a) /\ attach(a, attempt[a].key, active) /\ UNCHANGED <<inFlight, latest>>
  <2>1. /\ attempt' \in [Attempts -> AttemptOf] /\ AttemptsInv' /\ ignore' \subseteq Threads
        /\ \A b \in Attempts \ {a} : attempt'[b] = attempt[b]
        /\ attempt'[a].key = attempt[a].key /\ attempt'[a].at \in {"ending", "joining"}
    BY <1>1, <1>3, AttachFacts DEF LiveInv, Known, TypeOK, Keys
  <2>2. Known'
    BY <1>2, <1>3, <2>1 DEF LiveInv, Known, TypeOK, LatestInv, ViewOnly, current, AttemptOf, Keys
  <2>3. NoneLost'
    BY <1>1, <1>2, <2>1 DEF LiveInv, NoneLost, Accounted, Holds
  <2>. QED BY <2>2, <2>3 DEF LiveInv
<1>4. CASE settle(a) /\ UNCHANGED ignore
  <2>1. /\ attempt' \in [Attempts -> AttemptOf] /\ AttemptsInv'
        /\ latest' \in 0..MaxAttempts /\ inFlight' \in 0..MaxAttempts
        /\ latest' # 0 => latest' = latest /\ attempt'[latest] = attempt[latest]
        /\ \A b \in Attempts \ {a} : attempt'[b] = attempt[b]
    BY <1>4, SettleFacts DEF LiveInv
  <2>2. latest = 0 => latest' = 0
    BY <1>4 DEF settle
  <2>3. Known'
    BY <1>2, <1>4, <2>1, <2>2 DEF LiveInv, Known, TypeOK, LatestInv, ViewOnly, AttemptOf, Keys
  <2>4. NoneLost'
    BY <1>1, <1>2, <2>1 DEF LiveInv, NoneLost, Accounted, Holds
  <2>. QED BY <2>3, <2>4 DEF LiveInv
<1>. QED BY <1>3, <1>4 DEF refreshed

LEMMA EndedKeeps ==
  ASSUME LiveInv, NEW a \in Attempts, ended(a)
  PROVE  LiveInv'
<1>1. /\ attempt[a].at = "ended"
      /\ UNCHANGED <<view, window, desired, ignore, latest, inFlight, leaving, subscribed, events,
                     moves>>
      /\ active' = NoThread /\ forgotten' = forgotten \cup (subscribed \cap {active})
  BY DEF ended, backendVars
<1>2. /\ attempt' \in [Attempts -> AttemptOf] /\ AttemptsInv'
      /\ \A b \in Attempts : attempt'[b].key = attempt[b].key
      /\ \A b \in Attempts \ {a} : attempt'[b] = attempt[b]
      /\ attempt'[a].at = "joining"
  BY <1>1, StageFacts DEF ended, LiveInv, Stages
<1>3. Known'
  BY <1>1, <1>2 DEF LiveInv, Known, TypeOK, LatestInv, ViewOnly, AttemptOf, Keys
<1>4. NoneLost'
  BY <1>1, <1>2 DEF LiveInv, NoneLost, Accounted, Holds
<1>. QED BY <1>3, <1>4 DEF LiveInv

\* The latest attempt is for the thread in view; the page was subscribed to no other,
\* and to none at all when no thread is in view.
LEMMA JoinedKeeps ==
  ASSUME LiveInv, NEW a \in Attempts, joined(a)
  PROVE  LiveInv'
<1>1. /\ attempt[a].at = "joined" /\ attempt[a].key \in Threads
      /\ UNCHANGED <<view, window, desired, ignore, leaving, subscribed, events, moves>>
  BY DEF joined, backendVars, LiveInv, Known, TypeOK, AttemptsInv
<1>2. CASE /\ current(a) /\ active' = attempt[a].key
           /\ forgotten' = forgotten \ {attempt[a].key} /\ settle(a)
  <2>1. /\ attempt' \in [Attempts -> AttemptOf] /\ AttemptsInv'
        /\ inFlight' \in 0..MaxAttempts
        /\ \A b \in Attempts \ {a} : attempt'[b] = attempt[b]
    BY <1>2, SettleFacts DEF LiveInv
  <2>2. latest' = 0 /\ latest = a /\ a # 0
    BY <1>2, LiveAssumption DEF settle, current
  <2>3. active \in {NoThread, attempt[a].key} /\ (view # NoThread => attempt[a].key = view)
    BY <2>2 DEF LiveInv, Known, LatestInv, ViewOnly
  <2>4. TypeOK'
    BY <1>1, <1>2, <2>1, <2>2, LiveAssumption DEF LiveInv, Known, TypeOK, AttemptOf, Keys
  <2>5. LatestInv' /\ ViewOnly'
    BY <1>1, <1>2, <2>2, <2>3 DEF LiveInv, Known, LatestInv, ViewOnly
  <2>6. ASSUME NEW k \in subscribed, k # attempt[a].key
        PROVE  Accounted(k)'
    <3>1. k # active
      BY <2>3, <2>6, LiveAssumption DEF LiveInv, Known, TypeOK
    <3>2. Accounted(k)
      BY DEF LiveInv, NoneLost
    <3>. QED BY <1>1, <1>2, <2>1, <2>6, <3>1, <3>2 DEF Accounted
  <2>7. NoneLost'
    BY <1>1, <1>2, <2>6 DEF NoneLost, Accounted
  <2>. QED BY <2>1, <2>4, <2>5, <2>7 DEF LiveInv, Known
<1>3. CASE /\ ~current(a) /\ undoes(a)
           /\ attempt' = [attempt EXCEPT ![a].at = "undoing"]
           /\ UNCHANGED <<active, inFlight, latest, forgotten>>
  <2>1. /\ attempt' \in [Attempts -> AttemptOf] /\ AttemptsInv'
        /\ \A b \in Attempts : attempt'[b].key = attempt[b].key
        /\ \A b \in Attempts \ {a} : attempt'[b] = attempt[b]
        /\ attempt'[a].at = "undoing"
    BY <1>1, <1>3, StageFacts DEF LiveInv, Stages
  <2>2. Known'
    BY <1>1, <1>3, <2>1
    DEF LiveInv, Known, TypeOK, LatestInv, ViewOnly, AttemptOf, Keys, current
  <2>3. NoneLost'
    BY <1>1, <1>3, <2>1 DEF LiveInv, NoneLost, Accounted, Holds
  <2>. QED BY <2>2, <2>3 DEF LiveInv
<1>4. CASE /\ ~current(a) /\ ~undoes(a) /\ settle(a) /\ UNCHANGED active
           /\ forgotten' = forgotten \cup (({attempt[a].key} \cap {desired}) \ {active})
  <2>1. /\ attempt' \in [Attempts -> AttemptOf] /\ AttemptsInv'
        /\ latest' \in 0..MaxAttempts /\ inFlight' \in 0..MaxAttempts
        /\ latest' # 0 => latest' = latest /\ attempt'[latest] = attempt[latest]
        /\ \A b \in Attempts \ {a} : attempt'[b] = attempt[b]
    BY <1>4, SettleFacts DEF LiveInv
  <2>2. latest = 0 => latest' = 0
    BY <1>4 DEF settle
  <2>3. Known'
    BY <1>1, <1>4, <2>1, <2>2 DEF LiveInv, Known, TypeOK, LatestInv, ViewOnly, AttemptOf, Keys
  <2>4. attempt[a].key = active' \/ attempt[a].key \in forgotten'
    BY <1>4 DEF undoes
  <2>5. NoneLost'
    BY <1>1, <1>4, <2>1, <2>4 DEF LiveInv, NoneLost, Accounted, Holds
  <2>. QED BY <2>3, <2>5 DEF LiveInv
<1>. QED BY <1>2, <1>3, <1>4 DEF joined

LEMMA RefusedKeeps ==
  ASSUME LiveInv, NEW a \in Attempts, refused(a)
  PROVE  LiveInv'
<1>1. /\ attempt[a].at = "joining" /\ settle(a)
      /\ UNCHANGED <<view, window, active, desired, ignore, leaving, subscribed, events, moves,
                     forgotten>>
  BY DEF refused, backendVars
<1>2. /\ attempt' \in [Attempts -> AttemptOf] /\ AttemptsInv'
      /\ latest' \in 0..MaxAttempts /\ inFlight' \in 0..MaxAttempts
      /\ latest' # 0 => latest' = latest /\ attempt'[latest] = attempt[latest]
      /\ \A b \in Attempts \ {a} : attempt'[b] = attempt[b]
  BY <1>1, SettleFacts DEF LiveInv
<1>3. latest = 0 => latest' = 0
  BY <1>1 DEF settle
<1>4. Known'
  BY <1>1, <1>2, <1>3 DEF LiveInv, Known, TypeOK, LatestInv, ViewOnly, AttemptOf, Keys
<1>5. NoneLost'
  BY <1>1, <1>2 DEF LiveInv, NoneLost, Accounted, Holds
<1>. QED BY <1>4, <1>5 DEF LiveInv

-------------------------------------------------------------------------------
\* The user, and the connection of the workspace.

\* The part of Known' that is about the latest attempt, after reconnectLive()
LEMMA ReconnectKeeps ==
  ASSUME Known, NEW k \in Threads, NEW runResume \in BOOLEAN, NEW act \in Keys,
         reconnectLive(k, runResume, act),
         view' = k, window' \in {"focused", "visible"}, active' \in {NoThread, k}
  PROVE  LatestInv' /\ ViewOnly' /\ AttemptsInv'
BY ReconnectFacts, LiveAssumption DEF LatestInv, ViewOnly

LEMMA SwitchKeeps ==
  ASSUME LiveInv, NEW k \in Keys, NEW runResume \in BOOLEAN, switch(k, runResume),
         UNCHANGED <<backendVars, forgotten>>, moves' \in 0..MaxMoves
  PROVE  LiveInv'
<1> DEFINE old == IF active # k THEN active ELSE NoThread
           act == IF active # k THEN NoThread ELSE active
<1>1. /\ k # view /\ view' = k /\ active' = act /\ leave(old) /\ window' = window
      /\ UNCHANGED <<subscribed, events, forgotten>>
  BY DEF switch, backendVars
<1>2. old \in Keys /\ act \in Keys
  BY DEF LiveInv, Known, TypeOK, Keys
<1>3. /\ leaving' \in [Threads -> Nat]
      /\ \A j \in Threads : leaving[j] > 0 => leaving'[j] > 0
      /\ old # NoThread => leaving'[old] > 0
  BY <1>1, <1>2, LeaveFacts DEF LiveInv, Known
<1>4. CASE /\ k = NoThread \/ window = "hidden" \/ act = k
           /\ desired' = k /\ UNCHANGED <<ignore, latest, inFlight, attempt>>
  <2>1. TypeOK'
    BY <1>1, <1>2, <1>3, <1>4 DEF LiveInv, Known, TypeOK, Keys
  <2>2. AttemptsInv' /\ ViewOnly'
    BY <1>1, <1>4 DEF LiveInv, Known, AttemptsInv, ViewOnly
  <2>3. LatestInv'
    BY <1>1, <1>4 DEF LiveInv, Known, LatestInv, ViewOnly
  <2>4. UNCHANGED attempt
    BY <1>4
  <2>. QED BY <1>1, <1>3, <2>1, <2>2, <2>3, <2>4
           DEF LiveInv, Known, TypeOK, NoneLost, Accounted
<1>5. CASE /\ k # NoThread /\ window # "hidden" /\ act # k
           /\ reconnectLive(k, runResume, act)
  <2>1. k \in Threads
    BY <1>5 DEF Keys
  <2>2. /\ attempt' \in [Attempts -> AttemptOf]
        /\ ignore' \subseteq Threads /\ desired' = k
        /\ latest' \in Attempts /\ inFlight' \in 0..MaxAttempts
        /\ \A b \in Attempts : attempt[b].at \in Holds => attempt'[b] = attempt[b]
    BY <1>2, <1>5, <2>1, ReconnectFacts DEF LiveInv
  <2>3. TypeOK'
    <3>1. /\ latest' \in 0..MaxAttempts /\ view' \in Keys /\ active' \in Keys /\ desired' \in Keys
          /\ attempt' \in [Attempts -> AttemptOf]
      BY <1>1, <1>2, <2>1, <2>2, LiveAssumption DEF Keys
    <3>. QED BY <1>1, <1>3, <2>2, <3>1 DEF LiveInv, Known, TypeOK, Keys, AttemptOf
  <2>4. window' \in {"focused", "visible"} /\ active' \in {NoThread, k}
    BY <1>1, <1>5 DEF LiveInv, Known, TypeOK
  <2>5. LatestInv' /\ ViewOnly' /\ AttemptsInv'
    BY <1>1, <1>2, <1>5, <2>1, <2>4, ReconnectKeeps DEF LiveInv
  <2>6. ASSUME NEW j \in subscribed
        PROVE  Accounted(j)'
    <3>1. j \in Threads /\ Accounted(j)
      BY DEF LiveInv, Known, TypeOK, NoneLost
    <3>2. CASE \E b \in Attempts : attempt[b].key = j /\ attempt[b].at \in Holds
      BY <2>2, <3>2 DEF Accounted
    <3>3. CASE j = active
      BY <1>1, <1>3, <3>1, <3>3, LiveAssumption DEF Accounted, LiveInv, Known, TypeOK
    <3>4. CASE j \in forgotten \/ leaving[j] > 0
      BY <1>1, <1>3, <3>1, <3>4 DEF Accounted
    <3>. QED BY <3>1, <3>2, <3>3, <3>4 DEF Accounted
  <2>. QED BY <1>1, <2>3, <2>5, <2>6 DEF LiveInv, Known, NoneLost
<1>. QED BY <1>4, <1>5 DEF switch

LEMMA BlurKeeps ==
  ASSUME LiveInv, NEW w \in {"focused", "visible", "hidden"}, blur(w),
         UNCHANGED <<backendVars, forgotten>>, moves' \in 0..MaxMoves
  PROVE  LiveInv'
<1>1. /\ window' = w /\ latest' = 0 /\ desired' = NoThread /\ active' = NoThread
      /\ leave(active)
      /\ UNCHANGED <<view, ignore, inFlight, attempt, subscribed, events, forgotten>>
  BY DEF blur, backendVars
<1>2. /\ leaving' \in [Threads -> Nat]
      /\ \A j \in Threads : leaving[j] > 0 => leaving'[j] > 0
      /\ active # NoThread => leaving'[active] > 0
  BY <1>1, LeaveFacts DEF LiveInv, Known, TypeOK, Keys
<1>3. Known'
  BY <1>1, <1>2, LiveAssumption DEF LiveInv, Known, TypeOK, AttemptsInv, LatestInv, ViewOnly
<1>4. NoneLost'
  BY <1>1, <1>2, LiveAssumption DEF LiveInv, Known, TypeOK, NoneLost, Accounted
<1>. QED BY <1>3, <1>4 DEF LiveInv

\* handleFocus() and codex/connected subscribe to the thread in view.
LEMMA ReviewKeeps ==
  ASSUME LiveInv, NEW runResume \in BOOLEAN, view # NoThread,
         reconnectLive(view, runResume, active), window' \in {"focused", "visible"},
         UNCHANGED <<view, active, leaving, subscribed, events, forgotten>>,
         moves' \in 0..MaxMoves
  PROVE  LiveInv'
<1>1. view \in Threads /\ active \in Keys /\ active \in {NoThread, view}
  BY DEF LiveInv, Known, TypeOK, Keys, ViewOnly
<1>2. /\ attempt' \in [Attempts -> AttemptOf]
      /\ ignore' \subseteq Threads /\ desired' = view
      /\ latest' \in Attempts /\ inFlight' \in 0..MaxAttempts
      /\ \A b \in Attempts : attempt[b].at \in Holds => attempt'[b] = attempt[b]
  BY <1>1, ReconnectFacts DEF LiveInv
<1>3. LatestInv' /\ ViewOnly' /\ AttemptsInv'
  BY <1>1, ReconnectKeeps DEF LiveInv
<1>4. TypeOK'
  BY <1>1, <1>2, LiveAssumption DEF LiveInv, Known, TypeOK, Keys, AttemptOf
<1>5. NoneLost'
  BY <1>2 DEF LiveInv, NoneLost, Accounted
<1>. QED BY <1>3, <1>4, <1>5 DEF LiveInv, Known

LEMMA FocusKeeps ==
  ASSUME LiveInv, NEW w \in {"focused", "visible", "hidden"}, focus(w),
         UNCHANGED <<backendVars, forgotten>>, moves' \in 0..MaxMoves
  PROVE  LiveInv'
<1>1. /\ window' = w /\ w \in {"focused", "visible"}
      /\ UNCHANGED <<view, active, leaving, subscribed, events, forgotten>>
  BY DEF focus, backendVars
<1>2. CASE view = NoThread /\ UNCHANGED <<desired, ignore, latest, inFlight, attempt>>
  BY <1>1, <1>2
  DEF LiveInv, Known, TypeOK, AttemptsInv, LatestInv, ViewOnly, NoneLost, Accounted
<1>3. CASE view # NoThread /\ reconnectLive(view, TRUE, active)
  BY <1>1, <1>3, ReviewKeeps
<1>. QED BY <1>2, <1>3 DEF focus

LEMMA MoveKeeps ==
  ASSUME LiveInv, Move
  PROVE  LiveInv'
<1>1. moves' \in 0..MaxMoves /\ UNCHANGED <<backendVars, forgotten>>
  BY LiveAssumption DEF Move, LiveInv, Known, TypeOK
<1>2. CASE onConnected
  <2>1. /\ view # NoThread /\ reconnectLive(view, FALSE, active)
        /\ UNCHANGED <<view, window, active, leaving, subscribed, events, forgotten>>
    BY <1>1, <1>2 DEF onConnected, backendVars
  <2>2. window' \in {"focused", "visible"}
    BY <1>2 DEF onConnected, LiveInv, Known, TypeOK
  <2>. QED BY <1>1, <2>1, <2>2, ReviewKeeps
<1>. QED BY <1>1, <1>2, SwitchKeeps, BlurKeeps, FocusKeeps DEF Move, Keys

-------------------------------------------------------------------------------
\* Events, the clock and the backend.

EventOf == [kind : {"attached", "detached"}, key : Threads]

LEMMA EventFacts ==
  ASSUME TypeOK
  PROVE  /\ events # <<>> => /\ Head(events) \in EventOf /\ Tail(events) \in Seq(EventOf)
         /\ \A e \in EventOf : Append(events, e) \in Seq(EventOf)
<1>1. events \in Seq(EventOf)
  BY DEF TypeOK, EventOf
<1>. QED BY <1>1

LEMMA AttachedKeeps ==
  ASSUME LiveInv, onAttached
  PROVE  LiveInv'
<1> DEFINE k == Head(events).key
<1>1. /\ k \in Threads /\ events' \in Seq(EventOf)
      /\ active' = attachedTo(k) /\ forgotten' = forgotten \ {active'}
      /\ UNCHANGED <<view, window, desired, ignore, latest, inFlight, attempt, leaving,
                     subscribed, moves>>
  BY EventFacts DEF onAttached, LiveInv, Known, EventOf
<1>2. active' = active \/ (active' = view /\ view # NoThread /\ active \in {NoThread, view})
  BY <1>1, LiveAssumption DEF attachedTo, LiveInv, Known, ViewOnly
<1>3. Known'
  BY <1>1, <1>2 DEF LiveInv, Known, TypeOK, AttemptsInv, LatestInv, ViewOnly, EventOf
<1>4. NoneLost'
  BY <1>1, <1>2, LiveAssumption DEF LiveInv, Known, TypeOK, NoneLost, Accounted
<1>. QED BY <1>3, <1>4 DEF LiveInv

LEMMA DetachedKeeps ==
  ASSUME LiveInv, onDetached
  PROVE  LiveInv'
<1> DEFINE k == Head(events).key
<1>1. /\ k \in Threads /\ events' \in Seq(EventOf)
      /\ UNCHANGED <<view, window, leaving, subscribed, moves>>
  BY EventFacts DEF onDetached, LiveInv, Known, EventOf
<1>2. CASE /\ ignore' = (IF k # view THEN ignore ELSE ignore \ {k})
           /\ UNCHANGED <<active, desired, latest, inFlight, attempt, forgotten>>
  BY <1>1, <1>2
  DEF LiveInv, Known, TypeOK, AttemptsInv, LatestInv, ViewOnly, NoneLost, Accounted, EventOf
<1>3. CASE /\ k = view /\ active' = NoThread
           /\ forgotten' = forgotten \cup (subscribed \cap {k})
           /\ IF window = "focused" THEN reconnectLive(k, TRUE, NoThread)
              ELSE UNCHANGED <<desired, ignore, latest, inFlight, attempt>>
  <2>1. active \in {NoThread, k}
    BY <1>1, <1>3, LiveAssumption DEF LiveInv, Known, ViewOnly
  <2>2. CASE window = "focused"
    <3>1. reconnectLive(k, TRUE, NoThread) /\ NoThread \in Keys
      BY <1>3, <2>2 DEF Keys
    <3>2. /\ attempt' \in [Attempts -> AttemptOf]
          /\ ignore' \subseteq Threads /\ desired' = k
          /\ latest' \in Attempts /\ inFlight' \in 0..MaxAttempts
          /\ \A b \in Attempts : attempt[b].at \in Holds => attempt'[b] = attempt[b]
      BY <1>1, <3>1, ReconnectFacts DEF LiveInv
    <3>3. LatestInv' /\ ViewOnly' /\ AttemptsInv'
      BY <1>1, <1>3, <2>2, <3>1, ReconnectKeeps DEF LiveInv
    <3>4. TypeOK'
      BY <1>1, <1>3, <3>2, LiveAssumption DEF LiveInv, Known, TypeOK, Keys, AttemptOf, EventOf
    <3>5. NoneLost'
      BY <1>1, <1>3, <2>1, <3>2, LiveAssumption DEF LiveInv, Known, TypeOK, NoneLost, Accounted
    <3>. QED BY <3>3, <3>4, <3>5 DEF LiveInv, Known
  <2>3. CASE window # "focused"
    <3>1. UNCHANGED <<desired, ignore, latest, inFlight, attempt>>
      BY <1>3, <2>3
    <3>2. Known'
      BY <1>1, <1>3, <3>1
      DEF LiveInv, Known, TypeOK, AttemptsInv, LatestInv, ViewOnly, EventOf
    <3>3. NoneLost'
      BY <1>1, <1>3, <2>1, <3>1, LiveAssumption DEF LiveInv, Known, TypeOK, NoneLost, Accounted
    <3>. QED BY <3>2, <3>3 DEF LiveInv
  <2>. QED BY <2>2, <2>3
<1>. QED BY <1>2, <1>3 DEF onDetached

LEMMA IgnoreKeeps ==
  ASSUME LiveInv, NEW k \in Threads, ignoreEnds(k)
  PROVE  LiveInv'
BY DEF ignoreEnds, backendVars, LiveInv, Known, TypeOK, AttemptsInv, LatestInv, ViewOnly, NoneLost,
       Accounted

LEMMA UnsubscribesFacts ==
  ASSUME TypeOK, NEW k \in Threads, Unsubscribes(k)
  PROVE  /\ subscribed' = subscribed \ {k} /\ forgotten' = forgotten \ {k}
         /\ events' \in Seq(EventOf)
BY EventFacts DEF Unsubscribes, EventOf

LEMMA ServeAttemptKeeps ==
  ASSUME LiveInv, NEW a \in Attempts, ServeAttempt(a)
  PROVE  LiveInv'
<1>1. UNCHANGED <<view, window, active, desired, ignore, leaving, moves>>
  BY DEF ServeAttempt
<1>2. CASE /\ attempt[a].at = "joining"
           /\ subscribed' = subscribed \cup {attempt[a].key}
           /\ events' = Append(events, [kind |-> "attached", key |-> attempt[a].key])
           /\ attempt' = [attempt EXCEPT ![a].at = "joined"]
           /\ UNCHANGED <<inFlight, latest, forgotten>>
  <2>1. attempt[a].key \in Threads
    BY <1>2 DEF LiveInv, Known, TypeOK, AttemptsInv
  <2>2. events' \in Seq(EventOf)
    BY <1>2, <2>1, EventFacts DEF LiveInv, Known, EventOf
  <2>3. /\ attempt' \in [Attempts -> AttemptOf] /\ AttemptsInv'
        /\ \A b \in Attempts : attempt'[b].key = attempt[b].key
        /\ \A b \in Attempts \ {a} : attempt'[b] = attempt[b]
        /\ attempt'[a].at = "joined"
    BY <1>2, StageFacts DEF LiveInv, Stages
  <2>4. Known'
    BY <1>1, <1>2, <2>1, <2>2, <2>3
    DEF LiveInv, Known, TypeOK, LatestInv, ViewOnly, AttemptOf, Keys, EventOf
  <2>5. NoneLost'
    BY <1>1, <1>2, <2>3 DEF LiveInv, NoneLost, Accounted, Holds
  <2>. QED BY <2>4, <2>5 DEF LiveInv
<1>3. CASE /\ attempt[a].at = "ending" /\ Unsubscribes(attempt[a].key)
           /\ attempt' = [attempt EXCEPT ![a].at = "ended"]
           /\ UNCHANGED <<inFlight, latest>>
  <2>1. attempt[a].key \in Threads
    BY <1>3 DEF LiveInv, Known, TypeOK, AttemptsInv
  <2>2. /\ subscribed' = subscribed \ {attempt[a].key}
        /\ forgotten' = forgotten \ {attempt[a].key} /\ events' \in Seq(EventOf)
    BY <1>3, <2>1, UnsubscribesFacts DEF LiveInv, Known
  <2>3. /\ attempt' \in [Attempts -> AttemptOf] /\ AttemptsInv'
        /\ \A b \in Attempts : attempt'[b].key = attempt[b].key
        /\ \A b \in Attempts \ {a} : attempt'[b] = attempt[b]
        /\ attempt'[a].at = "ended"
    BY <1>3, StageFacts DEF LiveInv, Stages
  <2>4. Known'
    BY <1>1, <1>3, <2>2, <2>3
    DEF LiveInv, Known, TypeOK, LatestInv, ViewOnly, AttemptOf, Keys, EventOf
  <2>5. NoneLost'
    BY <1>1, <1>3, <2>2, <2>3 DEF LiveInv, NoneLost, Accounted, Holds
  <2>. QED BY <2>4, <2>5 DEF LiveInv
<1>4. CASE attempt[a].at = "undoing" /\ Unsubscribes(attempt[a].key) /\ settle(a)
  <2>1. attempt[a].key \in Threads
    BY <1>4 DEF LiveInv, Known, TypeOK, AttemptsInv
  <2>2. /\ subscribed' = subscribed \ {attempt[a].key}
        /\ forgotten' = forgotten \ {attempt[a].key} /\ events' \in Seq(EventOf)
    BY <1>4, <2>1, UnsubscribesFacts DEF LiveInv, Known
  <2>3. /\ attempt' \in [Attempts -> AttemptOf] /\ AttemptsInv'
        /\ latest' \in 0..MaxAttempts /\ inFlight' \in 0..MaxAttempts
        /\ latest' # 0 => latest' = latest /\ attempt'[latest] = attempt[latest]
        /\ \A b \in Attempts \ {a} : attempt'[b] = attempt[b]
    BY <1>4, SettleFacts DEF LiveInv
  <2>4. latest = 0 => latest' = 0
    BY <1>4 DEF settle
  <2>5. Known'
    BY <1>1, <2>2, <2>3, <2>4
    DEF LiveInv, Known, TypeOK, LatestInv, ViewOnly, AttemptOf, Keys, EventOf
  <2>6. NoneLost'
    BY <1>1, <2>2, <2>3 DEF LiveInv, NoneLost, Accounted, Holds
  <2>. QED BY <2>5, <2>6 DEF LiveInv
<1>. QED BY <1>2, <1>3, <1>4 DEF ServeAttempt

LEMMA ServeLeavingKeeps ==
  ASSUME LiveInv, NEW k \in Threads, ServeLeaving(k)
  PROVE  LiveInv'
<1>1. /\ leaving[k] > 0 /\ leaving' = [leaving EXCEPT ![k] = @ - 1]
      /\ UNCHANGED <<view, window, active, desired, ignore, latest, inFlight, attempt, moves>>
  BY DEF ServeLeaving, refs, asked
<1>2. /\ subscribed' = subscribed \ {k} /\ forgotten' = forgotten \ {k}
      /\ events' \in Seq(EventOf)
  BY UnsubscribesFacts DEF ServeLeaving, LiveInv, Known
<1>3. /\ leaving' \in [Threads -> Nat]
      /\ \A j \in Threads \ {k} : leaving'[j] = leaving[j]
  BY <1>1 DEF LiveInv, Known, TypeOK
<1>4. Known'
  BY <1>1, <1>2, <1>3 DEF LiveInv, Known, TypeOK, AttemptsInv, LatestInv, ViewOnly, EventOf
<1>5. NoneLost'
  BY <1>1, <1>2, <1>3 DEF LiveInv, Known, TypeOK, NoneLost, Accounted
<1>. QED BY <1>4, <1>5 DEF LiveInv

-------------------------------------------------------------------------------
LEMMA LiveInvInit == Init => LiveInv
BY LiveAssumption
DEF Init, LiveInv, Known, TypeOK, AttemptsInv, LatestInv, ViewOnly, NoneLost, Idle, Stages

LEMMA LiveInvNext == LiveInv /\ [Next]_vars => LiveInv'
<1> SUFFICES ASSUME LiveInv, [Next]_vars PROVE LiveInv'
  OBVIOUS
<1>1. CASE Move
  BY <1>1, MoveKeeps
<1>2. CASE onAttached \/ onDetached
  BY <1>2, AttachedKeeps, DetachedKeeps
<1>3. CASE \E a \in Attempts : Attempt(a) \/ ServeAttempt(a)
  BY <1>3, RefreshedKeeps, EndedKeeps, JoinedKeeps, RefusedKeeps, ServeAttemptKeeps DEF Attempt
<1>4. CASE \E k \in Threads : ignoreEnds(k) \/ ServeLeaving(k)
  BY <1>4, IgnoreKeeps, ServeLeavingKeeps
<1>5. CASE UNCHANGED vars
  BY <1>5 DEF vars, refs, backendVars, LiveInv, Known, TypeOK, AttemptsInv, LatestInv, ViewOnly,
              NoneLost, Accounted
<1>. QED BY <1>1, <1>2, <1>3, <1>4, <1>5 DEF Next

\* The inductive invariant of the live connection holds for any threads and bounds.
THEOREM LiveInvariant == Spec => []LiveInv
BY LiveInvInit, LiveInvNext, PTL DEF Spec

\* The references, the attempts and what is on its way keep their types
\* (useRemoteThreadLiveConnection.ts).
THEOREM TypesOK == Spec => []TypeOK
<1>1. LiveInv => TypeOK
  BY DEF LiveInv, Known
<1>. QED BY <1>1, LiveInvariant, PTL

\* Whatever the order of answers and events, activeSubscriptionKeyRef names no thread
\* but the one in view: an attempt that was overtaken never sets it.
THEOREM SubscribedToTheView == Spec => []ViewOnly
<1>1. LiveInv => ViewOnly
  BY DEF LiveInv, Known
<1>. QED BY <1>1, LiveInvariant, PTL

\* When everything is answered the backend sends events of no thread but the one the
\* page knows of, and those it has forgotten: attempts that were overtaken, blurs and
\* switches leave no other subscription behind.
THEOREM NothingLeftOver == Spec => []NoLeftover
<1>1. LiveInv => NoLeftover
  BY DEF LiveInv, Known, TypeOK, NoneLost, Accounted, NoLeftover, Quiet, Holds
<1>. QED BY <1>1, LiveInvariant, PTL

===============================================================================

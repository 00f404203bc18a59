----------------------------- MODULE ThreadState -----------------------------
(***************************************************************************)
(* ThreadStateService (server/codex/codexThreadStateService.ts): the       *)
(* companion server's own record of every thread, kept up to date from two *)
(* sides at once: RPC handlers that ask the codex app-server and write     *)
(* what it answers, and the notifications it sends on its own.             *)
(*                                                                         *)
(* A handler looks its thread up once and keeps the object it found across *)
(* its awaits; resume, rollback, refresh and thread/started put a NEW      *)
(* object in the map.  So objects have an identity here: `heap` holds the   *)
(* objects, `store` is the map, `held` what a running handler holds; an    *)
(* object neither refers to is garbage and its number is used again.       *)
(*                                                                         *)
(* A chunk of the app-server's stdout may hold several lines.  All are     *)
(* handled in one callback, and the handlers whose answers were among them *)
(* continue when it has returned.                                          *)
(*                                                                         *)
(* Of a thread's data the module keeps activeTurnId, the turns and their   *)
(* status, the review parent, and `meta`: the calls whose edit (pin, name, *)
(* backlog, codex params) the object contains.                             *)
(***************************************************************************)
EXTENDS Naturals, Sequences, FiniteSets

CONSTANTS
  Threads,    \* thread ids; the companion's id of a thread is the app-server's
  First,      \* the thread that threads.json holds at start
  Calls,      \* RPC calls of browsers, each made at most once
  Methods,    \* the methods they call
  MaxTurns    \* bound on the turns of all threads

ASSUME ThreadAssumption ==
  /\ IsFiniteSet(Threads) /\ IsFiniteSet(Calls)
  /\ First \in Threads
  /\ MaxTurns \in Nat \ {0}
  /\ Methods \subseteq {"start_thread", "send_user_message", "resume_thread",
                        "rollback", "set_thread_name", "edit", "start_review"}

VARIABLES
  heap,     \* the StoredThread objects
  store,    \* threadsById: the object of a thread, 0 if it has none
  stage,    \* how far a call is
  frame,    \* the local variables of its handler
  chunk,    \* is a chunk of stdout being handled?
  stdout,   \* lines of the app-server not yet handled
  known,    \* threads the app-server has
  srv,      \* the app-server's own state of a thread
  turns,    \* turns started so far
  busy,     \* history: messages during whose call the thread had an active turn
  untold,   \* history: messages whose call asked for it and was not told
  unmet,    \* history: calls with a request that failed or timed out
  ended,    \* history: turns whose turn/completed has been handled
  dropped   \* history: turns a new object left out that the old one had, and those
            \* that began while their thread was not in the map

serverVars == <<known, srv, turns>>
told == <<busy, untold, unmet>>
vars == <<heap, store, stage, frame, chunk, stdout, serverVars, told, ended, dropped>>

Turns == 1..MaxTurns
Refs == 1..(Cardinality(Threads) + Cardinality(Calls) + 1)
Statuses == {"none", "active", "completed"}
Stages == {"new", "settings", "reading", "read", "refreshed", "asked",
           "answered", "syncing", "synced", "imported",
           "done", "refused", "failed", "degraded"}
Running == Stages \ {"new", "done", "refused", "failed", "degraded"}
Snapshots == [status : {"idle", "active", "missing"}, active : 0..MaxTurns,
              turns : [Turns -> Statuses]]
Objects == [active : 0..MaxTurns, turns : [Turns -> Statuses],
            meta : SUBSET Calls, parent : SUBSET Threads]
LineKinds == {"answer", "error", "empty", "turn/started", "turn/completed",
              "status/idle", "thread/closed", "thread/started", "name/updated"}
Replies == {"answer", "error", "empty"}
Lines == [kind : LineKinds, call : SUBSET Calls, thread : Threads,
          turn : 0..MaxTurns, snap : Snapshots]
Frames == [method : Methods \cup {"none"}, thread : Threads,
           held : Refs \cup {0}, numTurns : 0..MaxTurns, answer : Lines]

NoTurns == [u \in Turns |-> "none"]
NoSnap == [status |-> "idle", active |-> 0, turns |-> NoTurns]
Garbage == [active |-> 0, turns |-> NoTurns, meta |-> {}, parent |-> {}]
NoAnswer == [kind |-> "error", call |-> {}, thread |-> First, turn |-> 0,
             snap |-> NoSnap]
NoFrame == [method |-> "none", thread |-> First, held |-> 0, numTurns |-> 0,
            answer |-> NoAnswer]

StateOK ==
  /\ heap \in [Refs -> Objects]
  /\ store \in [Threads -> Refs \cup {0}]
  /\ stage \in [Calls -> Stages]
  /\ frame \in [Calls -> Frames]
  /\ chunk \in BOOLEAN
  /\ stdout \in Seq(Lines)
  /\ known \subseteq Threads
  /\ srv \in [Threads -> [active : 0..MaxTurns, turns : SUBSET Turns]]
  /\ turns \in 0..MaxTurns

HistoriesOK ==
  /\ busy \subseteq Calls /\ untold \subseteq Calls /\ unmet \subseteq Calls
  /\ ended \subseteq Turns /\ dropped \subseteq Turns

TypeOK == StateOK /\ HistoriesOK

\* The companion starts with what it had written: perhaps an activeTurnId that
\* the app-server, which it starts afresh, no longer knows to be active.
Init ==
  /\ \E stale \in 0..1 :
       heap = [o \in Refs |->
                 IF o # 1 THEN Garbage
                 ELSE [Garbage EXCEPT !.active = stale, !.turns[1] = "active"]]
  /\ store = [t \in Threads |-> IF t = First THEN 1 ELSE 0]
  /\ stage = [k \in Calls |-> "new"]
  /\ frame = [k \in Calls |-> NoFrame]
  /\ chunk = FALSE
  /\ stdout = <<>>
  /\ known = {First}
  /\ srv = [t \in Threads |->
              [active |-> 0, turns |-> IF t = First THEN {1} ELSE {}]]
  /\ turns = 1
  /\ busy = {} /\ untold = {} /\ unmet = {}
  /\ ended = {} /\ dropped = {}

-------------------------------------------------------------------------------
\* buildStoredThreadFromAppServer(): what the app-server says, and for the rest
\* what the existing object `o` says, 0 for none.  A payload that names no active
\* turn keeps the existing activeTurnId unless its status says that there is none.
Built(snap, o) ==
  [active |-> IF snap.active # 0 THEN snap.active
              ELSE IF snap.status # "idle" /\ o # 0 THEN heap[o].active ELSE 0,
   turns  |-> snap.turns,
   meta   |-> IF o = 0 THEN {} ELSE heap[o].meta,
   parent |-> IF o = 0 THEN {} ELSE heap[o].parent]

Referenced(o) == \/ \E t \in Threads : store[t] = o
                 \/ \E k \in Calls : frame[k].held = o

\* threadsById.set() of a new object for thread t.  The calls in `by`, one or
\* none, go on to hold it (stage "refreshed" or "imported") or return ("done").
ReplaceWith(new, t, by, next) ==
  LET n == CHOOSE o \in Refs : ~Referenced(o) IN
  /\ store' = [store EXCEPT ![t] = n]
  /\ stage' = [k \in Calls |-> IF k \in by THEN next ELSE stage[k]]
  /\ frame' = [k \in Calls |->
                 CASE k \notin by   -> frame[k]
                   [] k \in by /\ next = "done" -> NoFrame
                   [] OTHER -> [frame[k] EXCEPT !.held = n, !.answer = NoAnswer]]
  /\ heap' = [o \in Refs |-> IF o = n THEN new
                             ELSE IF Referenced(o)' THEN heap[o] ELSE Garbage]
  /\ dropped' = dropped \cup {u \in Turns : /\ store[t] # 0 /\ new.turns[u] = "none"
                                            /\ heap[store[t]].turns[u] # "none"}

\* Mutant: the local metadata of the existing object is dropped.
Replace_fresh(snap, o, t, by, next) ==
  ReplaceWith([Built(snap, o) EXCEPT !.meta = {}], t, by, next)

Replace(snap, o, t, by, next) == ReplaceWith(Built(snap, o), t, by, next)

\* upsertStoredTurn() and the assignment of activeTurnId that follows it.
setActiveTurn(o, u) ==
  heap' = [heap EXCEPT ![o].turns[u] = "active", ![o].active = u]

\* clearStoredActiveTurn(thread, u): activeTurnId is cleared whatever it was.
clearStoredActiveTurn(o, u) ==
  heap' = [heap EXCEPT ![o].active = 0,
                       ![o].turns = IF u = 0 THEN @
                                    ELSE [@ EXCEPT ![u] = "completed"]]

Continuing(k) == stage[k] \in {"read", "answered", "synced"}

\* The event loop takes its next event.
Quiet == ~chunk /\ \A k \in Calls : ~Continuing(k)

Goto(k, s) ==
  /\ stage' = [stage EXCEPT ![k] = s]
  /\ frame' = IF s \in Running THEN frame ELSE [frame EXCEPT ![k] = NoFrame]

elsewhere == <<chunk, stdout, serverVars, told, ended>>

-------------------------------------------------------------------------------
\* A handler is called: it looks its thread up and then awaits readSettings().
\* "edit" stands for pin_thread, patch_thread_codex_params and the backlog
\* methods, which change the thread they find before they await anything.
call_rpc(k, m, t) ==
  /\ Quiet
  /\ stage[k] = "new"
  /\ m \notin {"start_thread", "resume_thread"} => store[t] # 0
  /\ busy' = IF m = "send_user_message" /\ srv[t].active # 0 THEN busy \cup {k} ELSE busy
  /\ \/ /\ m = "edit"
        /\ heap' = [heap EXCEPT ![store[t]].meta = @ \cup {k}]
        /\ Goto(k, "done")
     \/ /\ m # "edit"
        /\ stage' = [stage EXCEPT ![k] = "settings"]
        /\ \E n \in 0..MaxTurns :
             /\ IF m # "rollback" THEN n = 0
                ELSE \E target \in Turns :
                       /\ heap[store[t]].turns[target] # "none"
                       /\ n = Cardinality({u \in target..MaxTurns :
                                             heap[store[t]].turns[u] # "none"})
             /\ frame' = [frame EXCEPT ![k] =
                            [method |-> m, thread |-> t, numTurns |-> n,
                             held |-> IF m = "start_thread" THEN 0 ELSE store[t],
                             answer |-> NoAnswer]]
        /\ UNCHANGED heap
  /\ UNCHANGED <<store, chunk, stdout, serverVars, untold, unmet, ended, dropped>>

afterSettings(k, ifActive) ==
  /\ Quiet
  /\ stage[k] = "settings"
  /\ Goto(k, IF frame[k].method = "send_user_message"
                /\ heap[frame[k].held].active # 0 THEN ifActive ELSE "asked")
  /\ UNCHANGED <<heap, store, dropped, elsewhere>>

\* Mutant: the stored activeTurnId is believed.
readSettings_believes(k) == afterSettings(k, "refused")

\* After readSettings() the request is written.  A message to a thread whose
\* object has an active turn first asks the app-server (thread/read).
readSettings(k) == afterSettings(k, "reading")

\* refreshThreadStateFromAppServer(), up to its await of persistThreads().  An
\* answer without a thread leaves the handler the object it has.
refresh(k) ==
  /\ ~chunk
  /\ stage[k] = "read"
  /\ LET f == frame[k] IN
     \/ /\ f.answer.kind = "error"
        /\ Goto(k, "failed") /\ UNCHANGED <<heap, store, dropped>>
     \/ /\ f.answer.kind = "empty"
        /\ Goto(k, "refreshed") /\ UNCHANGED <<heap, store, dropped>>
     \/ /\ f.answer.kind = "answer"
        /\ Replace(f.answer.snap, f.held, f.thread, {k}, "refreshed")
  /\ UNCHANGED elsewhere

\* "A turn is already active for this thread.", or turn/start is written.
checkActiveTurn(k) ==
  /\ Quiet
  /\ stage[k] = "refreshed"
  /\ Goto(k, IF heap[frame[k].held].active # 0 THEN "refused" ELSE "asked")
  /\ UNCHANGED <<heap, store, dropped, elsewhere>>

\* What a handler does with the result of its request.
onResult(k) ==
  LET f == frame[k]
      a == f.answer
  IN
  \/ /\ f.method = "start_review"
     /\ Goto(k, "syncing")
     /\ UNCHANGED <<heap, store, dropped>>
  \/ /\ f.method = "send_user_message"
     /\ setActiveTurn(f.held, a.turn)
     /\ Goto(k, "done")
     /\ UNCHANGED <<store, dropped>>
  \/ /\ f.method = "set_thread_name"
     /\ heap' = [heap EXCEPT ![f.held].meta = @ \cup {k}]
     /\ Goto(k, "done")
     /\ UNCHANGED <<store, dropped>>
  \/ /\ f.method \in {"resume_thread", "rollback", "start_thread"}
     /\ Replace(a.snap, f.held, a.thread, {k}, "done")

\* The handler continues with the answer to its request.  What it throws becomes
\* the answer of the call; resume_thread answers with the object it has, if any,
\* and says so ("degraded").
handleAnswer(k) ==
  LET f == frame[k] IN
  /\ ~chunk
  /\ stage[k] = "answered"
  /\ IF f.answer.kind = "error"
     THEN /\ Goto(k, IF f.method = "resume_thread" /\ f.held # 0 THEN "degraded"
                                                                ELSE "failed")
          /\ UNCHANGED <<heap, store, dropped>>
     ELSE onResult(k)
  /\ UNCHANGED elsewhere

Synced(k, ifError) ==
  /\ ~chunk
  /\ stage[k] = "synced"
  /\ LET a == frame[k].answer IN
     IF a.kind = "error"
     THEN Goto(k, ifError) /\ UNCHANGED <<heap, store, dropped>>
     ELSE Replace(a.snap, 0, a.thread, {k}, "imported")
  /\ UNCHANGED elsewhere

\* Mutant: the review is answered as started, though its thread was not imported.
syncStoredThread_lenient(k) == Synced(k, "done")

\* start_review imports the thread the review runs in, as one it has not seen.
syncStoredThread(k) == Synced(k, "failed")

\* After persistThreads() it links the imported thread to the one it reviews.
linkReview(k) ==
  /\ Quiet
  /\ stage[k] = "imported"
  /\ heap' = [heap EXCEPT ![frame[k].held].parent = {frame[k].thread}]
  /\ Goto(k, "done")
  /\ UNCHANGED <<store, dropped, elsewhere>>

-------------------------------------------------------------------------------
changesObject(line, o, turnStarted) ==
  \/ line.kind = "turn/started" /\ turnStarted
  \/ line.kind = "turn/completed" /\ clearStoredActiveTurn(o, line.turn)
  \/ line.kind = "status/idle" /\ clearStoredActiveTurn(o, heap[o].active)
  \/ line.kind = "thread/closed" /\ heap' = [heap EXCEPT ![o].active = 0]
  \/ line.kind = "name/updated" /\ heap' = [heap EXCEPT ![o].meta = @ \cup line.call]

notified(line, turnStarted) ==
  LET o == store[line.thread] IN
  \/ /\ line.kind = "thread/started"
     /\ Replace(line.snap, o, line.thread, {}, "done")
  \/ /\ line.kind # "thread/started"
     /\ UNCHANGED <<store, stage, frame>>
     /\ IF o = 0 THEN UNCHANGED heap ELSE changesObject(line, o, turnStarted)
     /\ dropped' = IF o = 0 /\ line.kind = "turn/started" THEN dropped \cup {line.turn}
                                                          ELSE dropped

\* Mutant: turn/started leaves the turn to the answer of the call that started it.
applyNotification_leavesTurn(line) ==
  notified(line, heap' = [heap EXCEPT ![store[line.thread]].active = line.turn])

\* applyAppServerNotificationToState(): a notification changes the object that
\* is in the map now; one about a thread that is not there changes nothing.
applyNotification(line) ==
  notified(line, setActiveTurn(store[line.thread], line.turn))

\* One line of a chunk of stdout.
handleLine ==
  /\ stdout # <<>>
  /\ chunk \/ Quiet
  /\ stdout' = Tail(stdout)
  /\ \/ chunk' = FALSE
     \/ chunk' = TRUE /\ Len(stdout) > 1
  /\ LET line == Head(stdout) IN
     \/ /\ line.kind \in Replies
        /\ \E k \in line.call :
             /\ frame' = [frame EXCEPT ![k].answer = line]
             /\ stage' = [stage EXCEPT ![k] = CASE @ = "reading" -> "read"
                                                [] @ = "asked"   -> "answered"
                                                [] @ = "syncing" -> "synced"]
        /\ UNCHANGED <<heap, store, ended, dropped>>
     \/ /\ line.kind \notin Replies
        /\ applyNotification(line)
        /\ ended' = IF line.kind = "turn/completed" THEN ended \cup {line.turn}
                                                    ELSE ended
  /\ UNCHANGED <<serverVars, told>>

-------------------------------------------------------------------------------
\* The app-server, which is external.  It answers a request once, with an error
\* if it likes, and tells of every change of a thread.  The client may give up
\* waiting for an answer, which for the handler is an error too, though what it
\* asked for may be done.
Snapshot(s, said) ==
  [status |-> CASE said = "nothing"  -> "missing"
                [] s.active = 0      -> "idle"
                [] OTHER             -> "active",
   active |-> IF said = "turn" THEN s.active ELSE 0,
   turns  |-> [u \in Turns |-> CASE u \notin s.turns -> "none"
                                 [] u = s.active     -> "active"
                                 [] OTHER            -> "completed"]]

Line(kind, by, t, u) ==
  [kind |-> kind, call |-> by, thread |-> t, turn |-> u, snap |-> NoSnap]

Thread(by, t, snap) == [Line("answer", by, t, 0) EXCEPT !.snap = snap]

Waiting(k) ==
  /\ stage[k] \in {"reading", "asked", "syncing"}
  /\ \A n \in 1..Len(stdout) : ~(stdout[n].kind \in Replies /\ stdout[n].call = {k})

Send(lines) == stdout' = stdout \o lines
InAnyOrder(a, b) == Send(<<a, b>>) \/ Send(<<b, a>>)

\* The answer to call k, or the client's time-out; and what the app-server tells.
AnswerAnd(k, t, u, other) ==
  \/ InAnyOrder(Line("answer", {k}, t, u), other) /\ UNCHANGED unmet
  \/ InAnyOrder(Line("error", {k}, First, 0), other) /\ unmet' = unmet \cup {k}

companionVars == <<heap, store, stage, frame, chunk, ended, dropped>>

ServeError(k) ==
  /\ Waiting(k)
  /\ Send(<<Line("error", {k}, First, 0)>>)
  /\ unmet' = unmet \cup {k}
  /\ UNCHANGED <<companionVars, serverVars, busy, untold>>

\* thread/read and thread/resume.
ServeThread(k) ==
  /\ Waiting(k)
  /\ stage[k] \in {"reading", "syncing"} \/ frame[k].method = "resume_thread"
  /\ LET t == IF stage[k] = "syncing" THEN frame[k].answer.thread
                                      ELSE frame[k].thread
     IN /\ t \in known
        /\ \E said \in {"turn", "status", "nothing"} :
             /\ Send(<<Thread({k}, t, Snapshot(srv[t], said))>>)
             /\ untold' = IF said = "nothing" THEN untold \cup {k} ELSE untold
  /\ UNCHANGED <<companionVars, serverVars, busy, unmet>>

\* An answer to thread/read that holds no thread.
ServeEmpty(k) ==
  /\ Waiting(k) /\ stage[k] = "reading"
  /\ Send(<<Line("empty", {k}, First, 0)>>)
  /\ untold' = untold \cup {k}
  /\ UNCHANGED <<companionVars, serverVars, busy, unmet>>

\* thread/name/set and thread/archive.
ServeName(k) ==
  /\ Waiting(k) /\ frame[k].method = "set_thread_name"
  /\ LET t == frame[k].thread IN AnswerAnd(k, t, 0, Line("name/updated", {k}, t, 0))
  /\ UNCHANGED <<companionVars, serverVars, busy, untold>>

\* thread/rollback drops the last turns of a thread that is idle.
ServeRollback(k) ==
  LET t == frame[k].thread
      cut == {u \in srv[t].turns :
                Cardinality({v \in srv[t].turns : v >= u}) <= frame[k].numTurns}
      s == [srv[t] EXCEPT !.turns = @ \ cut]
  IN
  /\ Waiting(k) /\ frame[k].method = "rollback"
  /\ srv[t].active = 0
  /\ srv' = [srv EXCEPT ![t] = s]
  /\ \/ Send(<<Thread({k}, t, Snapshot(s, "status"))>>) /\ UNCHANGED unmet
     \/ Send(<<Line("error", {k}, First, 0)>>) /\ unmet' = unmet \cup {k}
  /\ UNCHANGED <<companionVars, known, turns, busy, untold>>

BeginTurn(t, u) ==
  /\ u = turns + 1 /\ u \in Turns
  /\ srv[t].active = 0
  /\ turns' = u
  /\ srv' = [srv EXCEPT ![t] = [active |-> u, turns |-> @.turns \cup {u}]]
  /\ busy' = busy \cup {k \in Calls : /\ frame[k].thread = t /\ stage[k] \in Running
                                      /\ frame[k].method = "send_user_message"}
  /\ UNCHANGED <<companionVars, untold>>

\* turn/start and review/start; a detached review runs in a thread of its own.
ServeTurn(k) ==
  /\ Waiting(k) /\ stage[k] = "asked"
  /\ frame[k].method \in {"send_user_message", "start_review"}
  /\ \E t \in Threads, u \in Turns :
       /\ \/ t = frame[k].thread /\ t \in known /\ UNCHANGED known
          \/ /\ frame[k].method = "start_review" /\ t \notin known
             /\ known' = known \cup {t}
       /\ BeginTurn(t, u)
       /\ AnswerAnd(k, t, u, Line("turn/started", {}, t, u))

\* A turn nobody here asked for: compaction, or another client.
ServerTurn(t) ==
  /\ t \in known
  /\ \E u \in Turns : BeginTurn(t, u) /\ Send(<<Line("turn/started", {}, t, u)>>)
  /\ UNCHANGED <<known, unmet>>

ServerTurnEnds(t) ==
  LET line(kind) == Line(kind, {}, t, srv[t].active) IN
  /\ srv[t].active # 0
  /\ srv' = [srv EXCEPT ![t].active = 0]
  /\ \/ Send(<<line("turn/completed")>>)
     \/ Send(<<line("status/idle"), line("turn/completed")>>)
     \/ Send(<<line("turn/completed"), line("thread/closed")>>)
  /\ UNCHANGED <<companionVars, known, turns, told>>

\* thread/start.
ServeStart(k) ==
  /\ Waiting(k) /\ frame[k].method = "start_thread"
  /\ \E t \in Threads \ known :
       /\ known' = known \cup {t}
       /\ AnswerAnd(k, t, 0, Line("thread/started", {}, t, 0))
  /\ UNCHANGED <<companionVars, srv, turns, busy, untold>>

Handler(k) ==
  \/ readSettings(k) \/ refresh(k) \/ checkActiveTurn(k) \/ handleAnswer(k)
  \/ syncStoredThread(k) \/ linkReview(k)

Companion ==
  \/ \E k \in Calls, m \in Methods, t \in Threads : call_rpc(k, m, t)
  \/ \E k \in Calls : Handler(k)
  \/ handleLine

Serve(k) ==
  \/ ServeError(k) \/ ServeThread(k) \/ ServeEmpty(k) \/ ServeName(k)
  \/ ServeRollback(k) \/ ServeTurn(k) \/ ServeStart(k)

AppServer ==
  \/ \E k \in Calls : Serve(k)
  \/ \E t \in Threads : ServerTurn(t) \/ ServerTurnEnds(t)

Next == Companion \/ AppServer

Spec == Init /\ [][Next]_vars

-------------------------------------------------------------------------------
Current(t) == heap[store[t]]

\* A message is refused because "a turn is already active" only if the
\* app-server had an active turn in that thread at some time while the call
\* ran, or was asked and did not say: a stale activeTurnId never locks a thread.
Excused == busy \cup untold

RefusedOnlyIfBusy == \A k \in Calls : stage[k] = "refused" => k \in Excused

\* An edit that a thread in the map contains is only ever lost to a handler that
\* began before the thread's object was last replaced: one refresh, resume or
\* rollback at a time, and any number of notifications, lose nothing.  But for a
\* review that runs in the thread itself: start_review imports the thread it runs
\* in as one it has not seen, whose name, pin, parameters and backlog are gone.
EditsLostOnlyByOverlap ==
  [][\A t \in Threads :
       store[t] # 0 => \/ Current(t).meta \subseteq Current(t)'.meta
                       \/ \E k \in Calls : /\ Continuing(k)
                                           /\ stage'[k] # stage[k]
                                           /\ \/ frame[k].held # store[t]
                                              \/ stage[k] = "synced"]_vars

\* A call tells its browser what became of its requests: it succeeds only if each
\* of them, the second of two included, was answered in time and without an error,
\* and it fails or falls back on the local copy only if one was not.
OutcomeIsTrue ==
  \A k \in Calls : /\ stage[k] = "done" => k \notin unmet
                   /\ stage[k] \in {"failed", "degraded"} => k \in unmet

\* With nothing on its way, the active turn of a thread in the map is on the
\* thread's record, whatever became of the call that started it; but for a turn
\* that a handler, replacing the object by what it had read before, took off it,
\* and for one that began while a handler was about to put the thread in the map.
ActiveTurnOnRecord ==
  Quiet /\ stdout = <<>> =>
    \A t \in Threads : LET u == srv[t].active IN
      store[t] # 0 /\ u \notin {0} \cup dropped => Current(t).turns[u] # "none"

\* What codex.test.ts says of turn/completed: it clears the active turn, and so
\* a turn that has completed is not the active one.
CompletedTurnIsCleared ==
  \A t \in Threads : store[t] # 0 => Current(t).active \notin ended
===============================================================================

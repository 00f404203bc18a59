--------------------------- MODULE AppServerClient ---------------------------
(***************************************************************************)
(* CodexAppServerClient (server/vendor/codexSdk.ts): one client object     *)
(* that talks JSON lines with a `codex app-server` child process, starts   *)
(* it on demand, matches answers to requests by id, and throws everything  *)
(* away when the child ends, misbehaves or is closed.                      *)
(*                                                                         *)
(* One event-loop turn is one step.  Promise continuations ("ready" calls) *)
(* run when the callback that made them ready has returned, and before the *)
(* next event; a chunk of stdout may hold several lines, all handled in    *)
(* the same callback, which is what `chunk` records.                       *)
(*                                                                         *)
(* Children are numbered in the order they are spawned; 0 is null.  The    *)
(* text of messages is left out: a line is the id it answers.              *)
(***************************************************************************)
EXTENDS Naturals, Sequences

CONSTANTS
  Requests,     \* calls of request(), each made at most once
  Replies,      \* calls of sendResponse()
  MaxChildren   \* bound on spawned children

ASSUME ClientAssumption ==
  /\ Requests \cap Replies = {}
  /\ MaxChildren \in Nat

VARIABLES
  child,          \* this.child
  startPromise,   \* this.startPromise: the child whose initialize it awaits, or 0
  nextRequestId,  \* this.nextRequestId
  pending,        \* keys of this.pending
  chunk,          \* child whose stdout chunk is being handled, or 0
  call,           \* progress of each call
  awaited,        \* the start promise a "starting" call awaits
  idOf,           \* request id of a call, 0 before it has one
  sentTo,         \* child a call was written to, 0 if none
  result,         \* the child whose line fulfilled the call, 0 if none
  spawned,        \* number of children spawned
  proc,           \* operating-system state of each child
  initId,         \* request id of the child's initialize, 0 before
  stdin,          \* what was written to each child
  answered,       \* ids each child has answered
  stdout          \* answers not yet read from each child

clientVars == <<child, startPromise, nextRequestId, pending>>
callVars == <<call, awaited, idOf, sentTo, result>>
procVars == <<spawned, proc, initId, stdin, answered, stdout>>
vars == <<clientVars, chunk, callVars, procVars>>

Calls == Requests \cup Replies
Children == 1..MaxChildren
CallStates ==
  {"idle", "starting", "ready", "waiting", "resolved", "rejected"}
ProcStates == {"unborn", "running", "killed", "exited", "gone"}
Outcomes == {"result", "error"}
Message == [kind : {"initialize", "initialized", "request", "reply"}, id : Nat]
Line == [id : Nat, outcome : Outcomes]

TypeOK ==
  /\ child \in 0..MaxChildren
  /\ startPromise \in 0..MaxChildren
  /\ nextRequestId \in Nat \ {0}
  /\ pending \subseteq Nat \ {0}
  /\ chunk \in 0..MaxChildren
  /\ call \in [Calls -> CallStates]
  /\ awaited \in [Calls -> 0..MaxChildren]
  /\ idOf \in [Calls -> Nat]
  /\ sentTo \in [Calls -> 0..MaxChildren]
  /\ result \in [Calls -> 0..MaxChildren]
  /\ spawned \in 0..MaxChildren
  /\ proc \in [Children -> ProcStates]
  /\ initId \in [Children -> Nat]
  /\ stdin \in [Children -> Seq(Message)]
  /\ answered \in [Children -> SUBSET Nat]
  /\ stdout \in [Children -> Seq(Line)]

Init ==
  /\ child = 0 /\ startPromise = 0 /\ nextRequestId = 1 /\ pending = {}
  /\ chunk = 0
  /\ call = [k \in Calls |-> "idle"]
  /\ awaited = [k \in Calls |-> 0]
  /\ idOf = [k \in Calls |-> 0]
  /\ sentTo = [k \in Calls |-> 0]
  /\ result = [k \in Calls |-> 0]
  /\ spawned = 0
  /\ proc = [c \in Children |-> "unborn"]
  /\ initId = [c \in Children |-> 0]
  /\ stdin = [c \in Children |-> <<>>]
  /\ answered = [c \in Children |-> {}]
  /\ stdout = [c \in Children |-> <<>>]

-------------------------------------------------------------------------------
\* No callback is on the stack and no continuation is due: the event loop
\* takes its next event.
Quiet == chunk = 0 /\ \A k \in Calls : call[k] # "ready"

\* send() throws when there is no child or its stdin is destroyed, which a child
\* that has ended may or may not be when its exit event is still to come.
CanThrow == child # 0 => proc[child] = "exited"
CanWrite == child # 0

Write(kind, i) ==
  stdin' = [stdin EXCEPT ![child] = Append(@, [kind |-> kind, id |-> i])]

\* child.kill(); on a process that has already ended it does nothing.
Kill(p) == IF p = "running" THEN "killed" ELSE p

\* The calls rejectAllPending() settles: those in the pending map, and those
\* that await a start promise whose initialize is in the pending map.
Rejected(k) ==
  \/ call[k] = "waiting" /\ idOf[k] \in pending
  \/ call[k] = "starting" /\ initId[awaited[k]] \in pending

\* Mutant: the map is cleared without rejecting what is in it.
rejectAllPending_clearsOnly == pending' = {} /\ UNCHANGED call

rejectAllPending ==
  /\ pending' = {}
  /\ call' = [k \in Calls |-> IF Rejected(k) THEN "rejected" ELSE call[k]]

\* Mutant: the process is dropped but not killed.
resetProcess_leaks ==
  /\ child' = 0 /\ startPromise' = 0
  /\ UNCHANGED proc
  /\ rejectAllPending

\* resetProcess() acts on whatever child is current, not on the child whose
\* event called it.
resetProcess ==
  /\ child' = 0
  /\ startPromise' = 0
  /\ proc' = [c \in Children |-> IF c = child THEN Kill(proc[c]) ELSE proc[c]]
  /\ rejectAllPending

\* The spawn in ensureStarted(): the child is current and has been sent its
\* first messages before the caller starts to await it.  Its branches for a child
\* without pipes and for a send of initialize that throws are left out: node
\* makes the pipes in the same step, or else raises an error event that nobody
\* listens for, which ends the server.
spawnWith(k, i, messages) ==
  LET c == spawned + 1 IN
  /\ c \in Children
  /\ spawned' = c
  /\ child' = c
  /\ startPromise' = c
  /\ proc' = [proc EXCEPT ![c] = "running"]
  /\ initId' = [initId EXCEPT ![c] = i]
  /\ nextRequestId' = i + 1
  /\ pending' = pending \cup {i}
  /\ stdin' = [stdin EXCEPT ![c] = messages]
  /\ call' = [call EXCEPT ![k] = "starting"]
  /\ awaited' = [awaited EXCEPT ![k] = c]

\* Mutant: the ids of a new process are counted from 1 again.
spawnChild_restartsIds(k) ==
  spawnWith(k, 1, <<[kind |-> "initialize", id |-> 1]>>)

\* Mutant: "initialized" is sent along with initialize.
spawnChild_eager(k) ==
  spawnWith(k, nextRequestId, <<[kind |-> "initialize", id |-> nextRequestId],
                                [kind |-> "initialized", id |-> 0]>>)

spawnChild(k) ==
  spawnWith(k, nextRequestId, <<[kind |-> "initialize", id |-> nextRequestId]>>)

\* request() or sendResponse() is called and runs up to its first await, in
\* ensureStarted(): a current child, initialised or not, is good enough.
ensureStarted(k) ==
  /\ chunk = 0
  /\ call[k] = "idle"
  /\ \/ /\ child # 0
        /\ call' = [call EXCEPT ![k] = "ready"]
        /\ UNCHANGED <<clientVars, awaited, spawned, proc, initId, stdin>>
     \/ /\ child = 0
        /\ IF startPromise # 0
           THEN /\ call' = [call EXCEPT ![k] = "starting"]
                /\ awaited' = [awaited EXCEPT ![k] = startPromise]
                /\ UNCHANGED <<clientVars, spawned, proc, initId, stdin>>
           ELSE spawnChild(k)
  /\ UNCHANGED <<chunk, idOf, sentTo, result, answered, stdout>>

\* request() after ensureStarted(): the id is used up even when send() throws.
request(k) ==
  /\ chunk = 0
  /\ k \in Requests /\ call[k] = "ready"
  /\ nextRequestId' = nextRequestId + 1
  /\ idOf' = [idOf EXCEPT ![k] = nextRequestId]
  /\ \/ /\ CanThrow
        /\ call' = [call EXCEPT ![k] = "rejected"]
        /\ UNCHANGED <<pending, sentTo, stdin>>
     \/ /\ CanWrite
        /\ call' = [call EXCEPT ![k] = "waiting"]
        /\ pending' = pending \cup {nextRequestId}
        /\ sentTo' = [sentTo EXCEPT ![k] = child]
        /\ Write("request", nextRequestId)
  /\ UNCHANGED <<child, startPromise, chunk, awaited, result, spawned, proc,
                 initId, answered, stdout>>

\* sendResponse() after ensureStarted().
sendResponse(k) ==
  /\ chunk = 0
  /\ k \in Replies /\ call[k] = "ready"
  /\ \/ /\ CanThrow
        /\ call' = [call EXCEPT ![k] = "rejected"]
        /\ UNCHANGED <<sentTo, stdin>>
     \/ /\ CanWrite
        /\ call' = [call EXCEPT ![k] = "resolved"]
        /\ sentTo' = [sentTo EXCEPT ![k] = child]
        /\ Write("reply", 0)
  /\ UNCHANGED <<clientVars, chunk, awaited, idOf, result, spawned, proc,
                 initId, answered, stdout>>

-------------------------------------------------------------------------------
\* handleEnvelope() for an answer to a call of request().
settleRequest(c, k, outcome) ==
  /\ call' = [call EXCEPT ![k] = IF outcome = "result" THEN "resolved"
                                                       ELSE "rejected"]
  /\ result' = [result EXCEPT ![k] = IF outcome = "result" THEN c ELSE @]
  /\ UNCHANGED <<startPromise, stdin>>

\* handleEnvelope() for an answer to initialize: an error rejects the start
\* promise and leaves the child current; so does a failing send of
\* "initialized".  Otherwise the calls that await the start become ready.
settleStart(c, outcome) ==
  LET settleWaiters(settled) ==
        call' = [k \in Calls |-> IF call[k] = "starting" /\ awaited[k] = c
                                 THEN settled ELSE call[k]]
  IN
  /\ startPromise' = 0
  /\ \/ /\ outcome = "result" /\ CanWrite
        /\ Write("initialized", 0)
        /\ settleWaiters("ready")
     \/ /\ outcome = "error" \/ CanThrow
        /\ settleWaiters("rejected")
        /\ UNCHANGED stdin
  /\ UNCHANGED result

\* One line of a stdout chunk of child c, which may be any child that was ever
\* spawned: a killed child's output is still read.  An unknown id is ignored.
handleEnvelope(c) ==
  /\ stdout[c] # <<>>
  /\ IF chunk = 0 THEN Quiet ELSE chunk = c
  /\ \/ chunk' = 0
     \/ chunk' = c /\ Len(stdout[c]) > 1
  /\ stdout' = [stdout EXCEPT ![c] = Tail(@)]
  /\ LET line == Head(stdout[c]) IN
     /\ pending' = pending \ {line.id}
     /\ \/ /\ line.id \notin pending
           /\ UNCHANGED <<startPromise, call, result, stdin>>
        \/ /\ line.id \in pending
           /\ \/ \E k \in Requests : idOf[k] = line.id
                                     /\ settleRequest(c, k, line.outcome)
              \/ \E d \in Children : initId[d] = line.id
                                     /\ settleStart(d, line.outcome)
  /\ UNCHANGED <<child, nextRequestId, awaited, idOf, sentTo, spawned, proc,
                 initId, answered>>

\* A line that is not a JSON object: output that is not a message, or a message
\* whose first half was dropped when the shared stdoutBuffer was cleared.  The
\* lines after it in the chunk are dropped with the buffer.
InvalidLine(c) ==
  /\ proc[c] # "unborn"
  /\ IF chunk = 0 THEN Quiet ELSE chunk = c
  /\ resetProcess
  /\ chunk' = 0
  /\ \E n \in 0..Len(stdout[c]) :
       stdout' = [stdout EXCEPT ![c] = SubSeq(@, n + 1, Len(@))]
  /\ UNCHANGED <<nextRequestId, awaited, idOf, sentTo, result, spawned,
                 initId, stdin, answered>>

\* The "exit" or "error" event of child c, current or not.
exitEvent(c) ==
  /\ Quiet
  /\ proc[c] = "exited"
  /\ child' = 0
  /\ startPromise' = 0
  /\ proc' = [d \in Children |->
                IF d = c THEN "gone"
                ELSE IF d = child THEN Kill(proc[d]) ELSE proc[d]]
  /\ rejectAllPending
  /\ UNCHANGED <<nextRequestId, chunk, awaited, idOf, sentTo, result, spawned,
                 initId, stdin, answered, stdout>>

\* The timer of initialize.  It runs as long as the id is pending.
initializeTimeout ==
  /\ Quiet
  /\ \E c \in Children : initId[c] \in pending
  /\ resetProcess
  /\ UNCHANGED <<nextRequestId, chunk, awaited, idOf, sentTo, result, spawned,
                 initId, stdin, answered, stdout>>

\* Mutant: the entry is deleted and nobody is told.
requestTimeout_silent(k) ==
  /\ Quiet
  /\ call[k] = "waiting" /\ idOf[k] \in pending
  /\ pending' = pending \ {idOf[k]}
  /\ UNCHANGED <<child, startPromise, nextRequestId, chunk, callVars, procVars>>

\* Mutant: the timer of a settled request is not cleared.
requestTimeout_notCleared(k) ==
  /\ Quiet
  /\ call[k] \in {"waiting", "resolved"} /\ idOf[k] # 0
  /\ pending' = pending \ {idOf[k]}
  /\ call' = [call EXCEPT ![k] = "rejected"]
  /\ UNCHANGED <<child, startPromise, nextRequestId, chunk, awaited, idOf,
                 sentTo, result, procVars>>

\* The timer of request(): the answer, should it still come, is ignored.
requestTimeout(k) ==
  /\ Quiet
  /\ call[k] = "waiting" /\ idOf[k] \in pending
  /\ pending' = pending \ {idOf[k]}
  /\ call' = [call EXCEPT ![k] = "rejected"]
  /\ UNCHANGED <<child, startPromise, nextRequestId, chunk, awaited, idOf,
                 sentTo, result, procVars>>

\* close(): resetAppServerClients() and shutdown call it at any time.
close ==
  /\ chunk = 0
  /\ child # 0
  /\ resetProcess
  /\ UNCHANGED <<nextRequestId, chunk, awaited, idOf, sentTo, result, spawned,
                 initId, stdin, answered, stdout>>

-------------------------------------------------------------------------------
\* The app-server process, which is external: it answers what it was sent, once
\* and in any order, or never; it ends when killed and may end by itself.
Answer(c, i, outcome) ==
  /\ proc[c] \in {"running", "killed"}
  /\ \E n \in 1..Len(stdin[c]) :
       stdin[c][n].kind \in {"initialize", "request"} /\ stdin[c][n].id = i
  /\ i \notin answered[c]
  /\ answered' = [answered EXCEPT ![c] = @ \cup {i}]
  /\ stdout' = [stdout EXCEPT ![c] = Append(@, [id |-> i, outcome |-> outcome])]
  /\ UNCHANGED <<clientVars, chunk, callVars, spawned, proc, initId, stdin>>

Exit(c) ==
  /\ proc[c] \in {"running", "killed"}
  /\ proc' = [proc EXCEPT ![c] = "exited"]
  /\ UNCHANGED <<clientVars, chunk, callVars, spawned, initId, stdin, answered,
                 stdout>>

Client ==
  \/ \E k \in Calls :
       ensureStarted(k) \/ request(k) \/ sendResponse(k) \/ requestTimeout(k)
  \/ \E c \in Children : handleEnvelope(c) \/ InvalidLine(c) \/ exitEvent(c)
  \/ initializeTimeout
  \/ close

Process ==
  \/ \E c \in Children, i \in 1..(nextRequestId - 1),
        outcome \in Outcomes : Answer(c, i, outcome)
  \/ \E c \in Children : Exit(c)

Next == Client \/ Process

Spec == Init /\ [][Next]_vars

\* Continuations and the rest of a chunk always run; both timers expire when
\* nothing clears them.  The process owes nothing.
Fairness ==
  /\ \A k \in Requests : WF_vars(request(k))
  /\ \A k \in Replies : WF_vars(sendResponse(k))
  /\ \A c \in Children :
       WF_vars(chunk = c /\ (InvalidLine(c) \/ handleEnvelope(c)))
  /\ WF_vars(initializeTimeout)
  /\ \A k \in Requests : WF_vars(requestTimeout(k))

FairSpec == Spec /\ Fairness

-------------------------------------------------------------------------------
\* A child that is no longer current has been killed or has ended: restarts,
\* time-outs and closes never leave an app-server process running unowned.
NoLeakedProcess == \A c \in Children : proc[c] = "running" => c = child

\* Every id in the pending map is of a message written to the current child, so
\* a request never waits on a process that has been replaced.
PendingIsOnCurrentChild ==
  \A i \in pending :
    /\ child # 0
    /\ \/ initId[child] = i
       \/ \E k \in Requests : idOf[k] = i /\ sentTo[k] = child

\* A call that waits, for an answer or for a start, can still be settled by the
\* pending map: no reset, close, time-out or late answer abandons it.
NoAbandonedCall ==
  \A k \in Calls :
    /\ call[k] = "waiting" => idOf[k] \in pending
    /\ call[k] = "starting" => initId[awaited[k]] \in pending

\* A request is fulfilled only by a line of the very process it was written to,
\* never by a stale line of an earlier or a later one.
AnswerFromOwnProcess ==
  \A k \in Requests : result[k] # 0 => result[k] = sentTo[k]

\* Each process is sent initialize first and once, and "initialized" at most
\* once and only after it has answered initialize.
Handshake ==
  \A c \in Children :
    LET sent(kind) == {n \in 1..Len(stdin[c]) : stdin[c][n].kind = kind} IN
    /\ proc[c] # "unborn" => sent("initialize") = {1}
    /\ \A n, m \in sent("initialized") : n = m
    /\ sent("initialized") # {} => initId[c] \in answered[c]

\* Every call of request() and sendResponse() settles, whatever the process
\* does, because some timer or event always reaches it.
EveryCallSettles ==
  \A k \in Calls : (call[k] \in {"starting", "ready", "waiting"})
                      ~> (call[k] \in {"resolved", "rejected"})

\* The client seen from its callers.
callerState ==
  [k \in Requests |-> CASE call[k] = "idle" -> "idle"
                        [] call[k] = "resolved" -> "ok"
                        [] call[k] = "rejected" -> "failed"
                        [] OTHER -> "open"]
callerAnswered ==
  {k \in Requests : \E c \in Children : idOf[k] # 0 /\ idOf[k] \in answered[c]}

Caller == INSTANCE RpcCalls
  WITH Calls <- Requests, state <- callerState, answered <- callerAnswered

\* The client implements what RpcCalls promises to the callers of request().
ImplementsRpcCalls == Caller!Spec
===============================================================================

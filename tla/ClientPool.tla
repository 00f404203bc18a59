------------------------------ MODULE ClientPool ------------------------------
(***************************************************************************)
(* The app-server clients the companion server keeps                       *)
(* (codexAppServerRuntimeService.ts), one for each value of the command    *)
(* and its arguments.  A call reads the settings, takes the client for its *)
(* workspace and makes requests of it one after another; a change of the   *)
(* arguments of a workspace closes all clients and forgets them.  A client *)
(* starts a process when a request finds none (codexSdk.ts; the exchange   *)
(* with one process is AppServerClient).  The processes ask for approvals, *)
(* and the user's answer is sent to the client the workspace has by then.  *)
(*                                                                         *)
(* The command is always the same, so that the arguments alone tell        *)
(* clients apart.  Which workspaces the server knows is the business of    *)
(* another module: operators take them as a parameter, `served`.           *)
(***************************************************************************)
EXTENDS Naturals

CONSTANTS
  Projects,    \* workspaces
  Args,        \* values of codexArgs
  Calls,       \* calls that can be in progress at once
  MaxClients,  \* bound on the clients the server makes
  MaxStarts    \* bound on the processes a client starts

ASSUME ClientPoolAssumption ==
  /\ "none" \notin Args /\ 0 \notin Projects
  /\ MaxClients \in Nat \ {0} /\ MaxStarts \in Nat \ {0}

VARIABLES
  codexArgs,    \* settings.json
  runtimeArgs,  \* workspaceRuntimeCodexArgs, "none" for no override
  pool,         \* appServerClients: a client or 0 for each key
  users,        \* appServerClientWorkspaceIds
  connected,    \* connectedWorkspaceIds
  client,       \* the clients: their arguments, whether their process runs, and how
                \* many they have started
  call,         \* the calls
  asking,       \* approvals that were shown to the user of a workspace
  appClosed,    \* app.close() has run
  stray,        \* history: clients that started a process after they were forgotten
  wrongAnswers  \* history: approvals whose answer went elsewhere (misses)

settingsVars == <<codexArgs, runtimeArgs>>
clientVars == <<pool, users, client>>
poolVars == <<settingsVars, clientVars, connected, call, asking, appClosed, stray, wrongAnswers>>

NoArgs == "none"
Clients == 1..MaxClients
Approval == [client : Clients, start : 1..MaxStarts, project : Projects]
NoApproval == [client |-> 0]
NoProject == 0
NoCall == [at |-> "idle", project |-> NoProject, args |-> NoArgs, client |-> 0,
              answers |-> NoApproval, seen |-> {}, changed |-> {}]

PoolTypeOK ==
  /\ codexArgs \in Args /\ runtimeArgs \in [Projects -> Args \cup {NoArgs}]
  /\ pool \in [Args -> 0..MaxClients] /\ users \in [Args -> SUBSET Projects]
  /\ client \in [Clients -> [args : Args \cup {NoArgs}, runs : BOOLEAN, starts : 0..MaxStarts]]
  /\ call \in [Calls ->
       [at : {"idle", "reading", "read", "holding", "waiting"},
        project : Projects \cup {NoProject},
        args : Args \cup {NoArgs}, client : 0..MaxClients,
        answers : Approval \cup {NoApproval}, seen : SUBSET Args,
        changed : SUBSET {"settings", "override"}]]
  /\ connected \subseteq Projects /\ asking \subseteq Approval
  /\ appClosed \in BOOLEAN
  /\ stray \subseteq Clients
  /\ wrongAnswers \subseteq Approval

PoolInit(served) ==
  /\ codexArgs \in Args /\ runtimeArgs = [p \in Projects |-> NoArgs]
  /\ pool = [a \in Args |-> 0] /\ users = [a \in Args |-> {}]
  /\ client = [k \in Clients |-> [args |-> NoArgs, runs |-> FALSE, starts |-> 0]]
  /\ call = [c \in Calls |-> NoCall]
  /\ connected = served
  /\ asking = {} /\ appClosed = FALSE /\ stray = {} /\ wrongAnswers = {}

-------------------------------------------------------------------------------
\* The arguments a workspace is to be served with
inForce(settings, overrides, p) ==
  IF overrides[p] # NoArgs THEN overrides[p] ELSE settings

\* resolveRuntimeCodexArgs(), with the settings as the caller has read them
resolveRuntimeCodexArgs(settings, p) == inForce(settings, runtimeArgs, p)

\* The calls in progress see the arguments of their workspace change (history).
seeing(what, settings, overrides) ==
  call' = [c \in Calls |-> IF call[c].at = "idle" THEN call[c]
             ELSE [call[c] EXCEPT !.changed = @ \cup {what},
                     !.seen = @ \cup {inForce(settings, overrides, call[c].project)}]]

begins(c, p, approval) ==
  /\ call[c].at = "idle"
  /\ call' = [call EXCEPT ![c] =
       [NoCall EXCEPT !.at = "reading", !.project = p, !.answers = approval,
                         !.seen = {inForce(codexArgs, runtimeArgs, p)}]]

\* A call that makes requests for a workspace
startCall(c, p) ==
  /\ begins(c, p, NoApproval)
  /\ UNCHANGED <<settingsVars, clientVars, connected, asking, appClosed, stray, wrongAnswers>>

\* respond_to_server_request
respond(c, r) ==
  /\ r \in asking
  /\ asking' = asking \ {r}
  /\ begins(c, r.project, r)
  /\ UNCHANGED <<settingsVars, clientVars, connected, appClosed, stray, wrongAnswers>>

settingsRead(c) ==
  /\ call[c].at = "reading"
  /\ call' = [call EXCEPT ![c].at = "read", ![c].args = codexArgs]
  /\ UNCHANGED <<settingsVars, clientVars, connected, asking, appClosed, stray, wrongAnswers>>

\* Mutant: the workspace is not told, so that its override is not seen.
appServerClientKeyShared(c) == call[c].args

\* appServerClientKey()
appServerClientKey(c) == resolveRuntimeCodexArgs(call[c].args, call[c].project)

\* Mutant: each call makes a client.
existingNone(key) == 0

\* The client that a key has, or 0
existing(key) == pool[key]

buildAppServerClient(c) ==
  LET key == appServerClientKey(c) IN
  /\ call[c].at = "read"
  /\ IF existing(key) # 0
     THEN /\ users' = [users EXCEPT ![key] = @ \cup {call[c].project}]
          /\ UNCHANGED <<pool, client>>
     ELSE \E k \in Clients :
            /\ client[k].args = NoArgs /\ \A j \in 1..(k - 1) : client[j].args # NoArgs
            /\ pool' = [pool EXCEPT ![key] = k]
            /\ users' = [users EXCEPT ![key] = {call[c].project}]
            /\ client' = [client EXCEPT ![k].args = key]
  /\ call' = [call EXCEPT ![c].at = "holding", ![c].client = pool'[key]]
  /\ UNCHANGED <<settingsVars, connected, asking, appClosed, stray, wrongAnswers>>

inPool(k) == client[k].args # NoArgs /\ pool[client[k].args] = k

\* The server has the client and will close it.
kept(k) == inPool(k) /\ ~appClosed

\* ensureStarted()
ensureStarted(k) ==
  IF client[k].runs THEN UNCHANGED <<client, stray>>
  ELSE /\ client[k].starts < MaxStarts
       /\ client' = [client EXCEPT ![k].runs = TRUE, ![k].starts = @ + 1]
       /\ stray' = IF kept(k) THEN stray ELSE stray \cup {k}

\* A call answers another client than the one that asked, although the process that
\* asked is there, is that of a client the server has, and was started with the
\* arguments the workspace had all the time the call ran.
misses(c) ==
  LET r == call[c].answers IN
  /\ client[r.client].runs /\ client[r.client].starts = r.start
  /\ client[r.client].args = inForce(codexArgs, runtimeArgs, r.project)
  /\ call[c].changed = {} /\ r.client \notin stray
  /\ call[c].client # r.client

\* A call makes a request, or sends the user's answer.
request(c) ==
  LET k == call[c].client
      r == call[c].answers
  IN
  /\ call[c].at = "holding"
  /\ ensureStarted(k)
  /\ IF r = NoApproval
     THEN call' = [call EXCEPT ![c].at = "waiting"] /\ UNCHANGED wrongAnswers
     ELSE /\ call' = [call EXCEPT ![c] = NoCall]
          /\ wrongAnswers' = IF misses(c) THEN wrongAnswers \cup {r} ELSE wrongAnswers
  /\ UNCHANGED <<settingsVars, pool, users, connected, asking, appClosed>>

\* A request is answered, or fails, and the call makes another one of the same client
\* or ends.
answered(c) ==
  /\ call[c].at = "waiting"
  /\ \/ client[call[c].client].runs /\ call' = [call EXCEPT ![c].at = "holding"]
     \/ call' = [call EXCEPT ![c] = NoCall]
  /\ UNCHANGED <<settingsVars, clientVars, connected, asking, appClosed, stray, wrongAnswers>>

processExits(k) ==
  /\ client[k].runs
  /\ client' = [client EXCEPT ![k].runs = FALSE]
  /\ UNCHANGED <<settingsVars, pool, users, connected, call, asking, appClosed, stray, wrongAnswers>>

\* workspaceIdsForClient()
workspaceIdsForClient(k) ==
  IF users[client[k].args] # {} THEN users[client[k].args] ELSE connected

\* A process asks for an approval, and the user of a workspace is shown it.
processAsks(k, p) ==
  /\ client[k].runs /\ p \in workspaceIdsForClient(k)
  /\ asking = {} /\ \A c \in Calls : call[c].answers = NoApproval
  /\ asking' = {[client |-> k, start |-> client[k].starts, project |-> p]}
  /\ UNCHANGED <<settingsVars, clientVars, connected, call, appClosed, stray, wrongAnswers>>

\* Mutant: only the client without an override is closed.
closesOne(k) == inPool(k) /\ client[k].args = codexArgs

\* The clients that are closed when the map is cleared
closes(k) == inPool(k)

\* The closes do not wait for anything, so that between them and the clearing of the map
\* only continuations run that a close has rejected: they are taken to run after it.
closeClients ==
  /\ client' = [k \in Clients |-> IF closes(k) THEN [client[k] EXCEPT !.runs = FALSE]
                                  ELSE client[k]]
  /\ pool' = [a \in Args |-> 0]
  /\ users' = [a \in Args |-> {}]

\* update_app_settings: the clients stay.
updateSettings(a) ==
  /\ a # codexArgs /\ codexArgs' = a
  /\ seeing("settings", a, runtimeArgs)
  /\ UNCHANGED <<runtimeArgs, clientVars, connected, asking, appClosed, stray, wrongAnswers>>

\* setWorkspaceRuntimeCodexArgs(), from the answer to its reading of the settings on
setWorkspaceRuntimeCodexArgs(p, a) ==
  LET previous == resolveRuntimeCodexArgs(codexArgs, p)
      next == IF a = NoArgs THEN codexArgs ELSE a
      active == \E k \in Args : pool[k] # 0
  IN
  /\ runtimeArgs' = [runtimeArgs EXCEPT ![p] = a]
  /\ seeing("override", codexArgs, runtimeArgs')
  /\ IF p \in connected /\ active /\ previous # next THEN closeClients ELSE UNCHANGED clientVars
  /\ UNCHANGED <<codexArgs, connected, asking, appClosed, stray, wrongAnswers>>

\* appServerRuntime.close()
PoolClose ==
  /\ closeClients
  /\ appClosed' = TRUE
  /\ UNCHANGED <<settingsVars, connected, call, asking, stray, wrongAnswers>>

PoolRestart ==
  /\ runtimeArgs' = [p \in Projects |-> NoArgs]
  /\ pool' = [a \in Args |-> 0] /\ users' = [a \in Args |-> {}]
  /\ client' = [k \in Clients |-> [client[k] EXCEPT !.runs = FALSE]]
  /\ call' = [c \in Calls |-> NoCall]
  /\ asking' = {} /\ appClosed' = FALSE /\ connected' = {}
  /\ UNCHANGED <<codexArgs, stray, wrongAnswers>>

connectWorkspace(p) ==
  /\ p \notin connected /\ connected' = connected \cup {p}
  /\ UNCHANGED <<settingsVars, clientVars, call, asking, appClosed, stray, wrongAnswers>>

\* What removeWorkspaceCascade() does here
disconnectWorkspace(p) ==
  /\ connected' = connected \ {p}
  /\ UNCHANGED <<settingsVars, clientVars, call, asking, appClosed, stray, wrongAnswers>>

PoolStart(served) ==
  \/ \E c \in Calls : \/ \E p \in served : startCall(c, p)
                      \/ \E r \in asking : r.project \in served /\ respond(c, r)
  \/ \E k \in Clients : processExits(k) \/ \E p \in Projects : processAsks(k, p)
  \/ \E a \in Args : updateSettings(a)
  \/ \E p \in served : \/ \E a \in Args \cup {NoArgs} : setWorkspaceRuntimeCodexArgs(p, a)
                        \/ connectWorkspace(p)

PoolStep ==
  \E c \in Calls : settingsRead(c) \/ buildAppServerClient(c) \/ request(c) \/ answered(c)

-------------------------------------------------------------------------------
\* A process that runs is that of a client the server has and will close, unless a call
\* used a client after it was forgotten, or took one after the server had closed.
ProcessesKnown == \A k \in Clients : client[k].runs => kept(k) \/ k \in stray

\* A call is served with arguments that its workspace had at some time since the call
\* began; unless both the settings and an override changed meanwhile, when the code may
\* put together an old value of the one and a new value of the other.
ServedWithOwnArgs ==
  \A c \in Calls : call[c].client # 0 =>
    client[call[c].client].args \in call[c].seen \/ call[c].changed = {"settings", "override"}

\* The answer to an approval goes to the process that asked, if that one is still there
\* and the arguments of the workspace, which did not change while the answer was on its
\* way, are its arguments.
AnswerReachesAsker == wrongAnswers = {}
===============================================================================

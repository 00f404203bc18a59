# A TLA+ model of the Codex Monitor web companion

Codex Monitor shows, in a browser, the agents that a `codex app-server` process
runs in the workspaces of one machine. Between the two stands the companion
server (`server/`), a single Node process. This directory models its stateful
parts and those of the browser that talk to it, checks them with TLC and proves
part of it with TLAPS. `PROJECT.json` maps every definition to the lines it
models and lists the runs, the mutants, the hazards and the theorems.

    tlc -workers 2 -config JsonStorage.cfg MCJsonStorage
    tlapm JsonStorageProofs.tla

## The system

    browser  --HTTP /api/rpc/*-->  companion server  --JSON lines-->  codex app-server
    browser  <--web socket------   companion server  <--stdout------  codex app-server
                                         |
                                   JSON files in the data directory

The server is one event loop: a callback, or the part of an async function
between two awaits, runs to its end undisturbed; what can go wrong goes wrong
across an `await`. The same is true of a browser tab, where React adds renders
and effects between callbacks. The app-server, the file system, git, the
network and the user run concurrently with both.

| component | source | state | operations | what must hold |
|---|---|---|---|---|
| app-server client | `server/vendor/codexSdk.ts` | child process, start promise, next id, pending map, stdout buffer | `request`, `sendResponse`, `close`, lines, exit, time-outs | no process leaks, every call settles once and by its own process, handshake order |
| thread state | `server/codex/codexThreadStateService.ts` | map of `StoredThread` objects | about twenty RPC methods, notifications | a thread is not locked by a stale turn, local edits survive what the app-server says |
| notification delivery | `server/codex/codexAppServerRuntimeService.ts` | handlers that wait for a save | apply, persist, broadcast | saved before shown, shown in order |
| client pool | the same, `server/codex.ts` | clients by key, their workspaces, overrides | build, reset, request, approve, close | no process forgotten, the right client for a call and for an answer |
| storage | `server/storage.ts` | chain of promises per file, the files | `writeJsonFile`, recovery at start | an acknowledged write survives, a file is never torn or goes back |
| workspaces, worktrees | `server/codex.ts`, `server/codex/codexWorkspaceGitRpc.ts` | workspaces, their file, git's branches | add, clone, worktree, rename, remove | a removed workspace stays removed, branches agree with git |
| terminals | `server/terminal.ts`, `src/features/terminal` | sessions by key; tabs, the tab in view | open, write, close, exit, restore | shells are tracked, sessions have tabs |
| background prompts | `server/codex/codexGenerationRuntimeService.ts` | a detached client, a wait | run prompt | no process is left |
| HTTP and sockets | `server/http/index.ts` | sockets, shutdown promise | dispatch, broadcast, shutdown | what is closed stays closed |
| login | `server/codex/codexAccountRuntimeService.ts` | login state per workspace | start, cancel | a cancelled login stays cancelled |
| event sockets | `src/services/events.ts` | one web socket, hubs, reconnect timer | subscribe, unsubscribe, close | each event once per listener, reconnection |
| queue of messages | `useQueuedSend.ts`, `useThreadMessaging.ts`, `useThreadTurnEvents.ts` | queue, message in flight, what is shown as running | send, queue, steer, stop, effects, events | no message lost or doubled, the queue moves on |
| live connection | `useRemoteThreadLiveConnection.ts` | subscription keys, sequence number, attempt in flight | switch, blur, focus, detach | the thread in view is the one subscribed |
| thread list | `useThreadActions.ts`, `threadReducer` | threads, items, hidden and active ids | list, resume, fork, archive, events | list, resume and events agree |

Hard parts, in the order of their weight: promise continuations that run after
notifications of the same chunk of stdout; handlers that keep an object across an
await while another replaces it; a child process that ends, hangs or writes
garbage at any moment; writes of one file that overlap, and crashes between
their steps; answers by HTTP and events by web socket that overtake each other.
The `components` of `PROJECT.json` say of each part whether it is modelled.

## The modules

| module | models | refines | proofs |
|---|---|---|---|
| `AppServerClient` | the client of the app-server | `RpcCalls` | `AppServerClientProofs` |
| `ThreadState` | the server's record of threads | | `ThreadStateProofs` |
| `JsonStorage` | writing and recovering a JSON file | `DurableRecord` | `JsonStorageProofs` |
| `NotificationDelivery` | applying, saving and broadcasting notifications | | `EventPathProofs` |
| `EventSocket` | hubs and web socket of a page | | `EventPathProofs` |
| `EventPath` | the two together, app-server to callback | | `EventPathProofs` |
| `QueuedSend` | queue, sending and turn events of the browser | | `QueuedSendProofs` |
| `LiveConnection` | the subscription of the thread in view | | `LiveConnectionProofs` |
| `Workspaces` | workspaces, worktrees, their file, git | | `CompanionServerProofs` |
| `ClientPool` | the clients and which one serves whom | | `CompanionServerProofs` |
| `Terminals` | shells, sessions and tabs of a workspace | | `CompanionServerProofs` |
| `BackgroundPrompt` | a prompt with its detached client | | `CompanionServerProofs` |
| `CompanionServer` | the last four in one server | | `CompanionServerProofs` |
| `ThreadList` | threads, items and running turns as the browser shows them | | `ThreadListProofs` |

The modules of a part can be composed: `EventPath` and `CompanionServer` EXTEND
their parts, whose actions leave the others' variables to them. The remaining
boundaries are promises: `NotificationDelivery` and `Workspaces` take of
`JsonStorage` that the writes of a file end in the order they were asked for;
`ClientPool` takes of `AppServerClient` that a request finds or starts a
process and settles.

Each `MC...` module only defines values for the constants of its model. An
operator whose comment says "mutant" is no part of a model: it is a plausible
mistake in the code, and a property of a run finds it when it replaces the
operator it is named after.

### AppServerClient

`child`, `startPromise`, `nextRequestId` and `pending` are the fields of
`CodexAppServerClient`. A process has an operating-system state, what was written
to it, and the lines it has put on its stdout. One event-loop callback is one
step, except that a chunk of stdout is a step per line: `chunk` names the child
whose chunk is being handled, and nothing else of the client runs meanwhile. A
call of `request()` or `sendResponse()` starts (`ensureStarted`), may wait for
the start promise, goes on as a continuation ("ready") and, for a request, waits
for its answer. The actions have the names of the methods and events:
`handleEnvelope` (a line), `InvalidLine` (output that is not JSON), `exitEvent`,
`initializeTimeout`, `requestTimeout`, `close`. `Answer` and `Exit` are the
process: it answers what it was sent once, in any order, or never.

`RpcCalls` says what a caller may rely on: a call is made, then settles once.

### ThreadState

A handler looks its thread up once and keeps the object; `resume_thread`,
`rollback_thread_to_message`, refreshes and `thread/started` put new objects in
the map. So objects have an identity: `heap` is the objects, `store` the map,
`frame[k].held` what the handler of call `k` holds. `stage` is the await a
handler has reached. Lines of stdout are handled one by one in a chunk
(`handleLine`), and a handler whose answer was among them continues after it.
Of a thread the module keeps `activeTurnId`, the turns with their status, the
review parent, and which calls' edits the object contains.

A request may be answered, refused, or given up by the client's time-out although
the app-server has done what it asks, or does it later. What a call tells its
browser is its last stage: "done", "failed", "refused" because of a running turn,
or "degraded", which is `resume_thread` falling back on the local copy. History
variables say what that is compared with: `busy` (the thread had an active turn
during the call), `untold` (the call asked for the active turn and the answer did
not say), `unmet` (a request of the call failed) and `dropped` (turns that a
replaced object had and the new one has not, and turns that began while their
thread was not in the map: the companion ignores their `turn/started`, and may
then import the thread as it was before).

### JsonStorage

`tail` is the entry of the file in `pendingJsonWrites`, `prev[w]` the promise a
write is chained to. A write passes through its turn (`makeText`), `syncFile`,
`renameFile` and `syncDirectory`; `fail` and `settle` are its other ends. The
text is made when the turn comes, from an array made when the write was called;
`live` and `doc` tell the objects of that array that are still in the map from
those that were replaced. `faulty` are the writes of which an operation on the
file failed. `owner` is the write whose file has the name, `kept`
the one whose file has it after a power failure. `crash`, `powerLoss` and
`restart` happen at any moment.

`DurableRecord` is the promise to the rest of the server: a copy of the record
that may be late, never goes back, and contains what was in memory when a
successful save was called. `unsynced` (the directory could not be synced, which
the code reports as success) maps to "unsure".

### NotificationDelivery, EventSocket, EventPath

A notification is routed to a workspace by its thread, applied, saved if its
method saves, and then broadcast; `saving` holds the handlers whose save is in
the chain. A save that fails rejects a promise nobody handles, which ends the
process: `processEnds` stands for that and for any other end. `known` loses in
a restart what the file does not have.

In the browser `hub` is where the promise of a registration is, `registered`
how often the hub is among the listeners of the socket, `webSocket` the socket
the page refers to. Sockets that the page no longer refers to keep their
handlers and their messages, as in the browser; a number is free again after its
close event. `accept` and `loseOne` are the network. `stale` remembers that a
close event made the page forget another socket than the one it was about: it
happens when a page stops and starts to listen before the old socket's close
event comes, and then every event comes twice. `OneSocket` and `GotInOrder` say
that this is the only way.

`EventPath` joins the two: a broadcast puts the event on every open socket in
the same step, and the end of the server breaks them. `GotInOrder` is the
end-to-end promise: no callback gets an event twice, and saved events come in
the order of the app-server.

### QueuedSend

`queue`, `inFlight` and `hasStarted` are the states of `useQueuedSend`;
`processing` and `activeTurn` what the reducer shows, set by answers
(`startAnswered`, `steerAnswered`) and events (`onTurnStarted`,
`onTurnCompleted`, `onThreadStatusChanged`), which do not wait for each other.
The two effects are `trackStarted`/`trackEnded` and `flush`. A message is a
number with its progress `at`, the thread it was typed in and the one it was sent
to. The companion and the app-server are external: they accept a message as a
turn or into the running turn, or refuse it, and send an event when a turn
starts and, in either order, that it completed and that the thread is idle. A
request may fail although its message was accepted, when its answer is lost or
late. A steer of that kind is queued again and then starts a turn, so that its
message runs twice; `lost` names these messages, and `NeverTwice` says that no
other is accepted twice, and none three times.
Assumed: React renders and runs effects between any two callbacks (`Rendered`).

### LiveConnection

`active`, `desired`, `ignore`, `latest` and `inFlight` are the refs of the hook;
an attempt is the async function that a switch, a focus or an event starts, and
its stage the await it has reached ("refreshing", "ending" its own earlier
subscription, "joining", "undoing" what was overtaken). An attempt whose number
is not `latest` gives up. `ServeAttempt` and `ServeLeaving` are the backend,
which handles requests in any order and sends an event for each; the companion
server sends none, the daemon of `src-tauri` does. `forgotten` names the threads
whose subscription the page has lost sight of, and how: an overtaken attempt
that leaves its subscription to a later one, which then fails; a reference
cleared because an earlier subscription ended; a detached event of an earlier
subscription. `NoLeftover` says that there is no other way.

### Workspaces

Directories and branches are numbers, and "the next free name" the next number.
`known` and `object` are `workspacesById`, `writes` the chain of writes of
`workspaces.json` with their contents, made when they are asked for, `saved` the
file. A call (`op`) stops at every command of git and every access to the disk.
`dirs`, `head` and `branches` are git's. `cut` names the worktrees whose branch
was renamed behind the back of the server: git had renamed it when the server
ended, or two renamings of it overlapped. A write may fail (`notWritten`): its
call answers an error, and the change stays in memory until a later write saves
it with all the rest, or a restart loses it. `unsaved` says that the last write
failed; a worktree whose renaming is lost in that way is in `cut` too.

### ClientPool

`pool` is `appServerClients`, `users` its workspaces. A call reads the settings
(an await), takes the client its workspace's arguments lead to, and makes
requests of it, each of which starts a process if there is none. `seen` and
`changed` remember the arguments that were in force while a call ran. Two
behaviours of the code are named by history variables: `stray`, a client that a
call used after the map was cleared, whose process nobody closes; and
`changed`, because a change of settings, unlike one of the override, leaves the
clients as they are while it changes the key under which one is looked for. The
answer to an approval can then go to another process than the one that asked.

### Terminals

Sessions and shells of the server, tabs and what the page knows of them, and the
calls between, which overtake each other. `late` names the shells that were
started for a terminal without a tab: the open call reached the server after the
close call. `runSetupScript` is the setup terminal of a new worktree, which
closes and opens its session itself. When its workspace is removed, a terminal
keeps its shell and can not be closed (`refused`), which `TerminalHasTab`
excludes.

### BackgroundPrompt and CompanionServer

A prompt passes through its requests; the wait for the end of its turn begins
before the turn. When the start of the turn fails, nobody awaits the wait, whose
time-out is then an unhandled rejection that ends the server
(`unhandledRejection`), and that end is a `Restart` of all parts.

`CompanionServer` lets the four parts take steps in one server: `Remove` takes a
workspace from `Workspaces` and from the connected ones of `ClientPool`, and
refuses the calls of its terminals; `Close` closes clients, then terminals;
`Restart` clears what was in memory. What people, processes and the world begin
costs a unit of `Budget`, and `SwitchCost` more when it is about another part
than the last one: all short runs that mix the parts and longer ones of one part
are explored, while what has begun goes on freely.

### ThreadList

`page` is the part of the reducer's state that the list and the conversation
show: the listed and the hidden ids, the thread in view, which threads are shown
as running and with which turn, the items, the known parents, and whether there
are older threads. The operators above the calls are the reducer's actions, with
their names. `loaded`, `replace` and `skip` are refs of `useThreads.ts`, `paging`
disables "Load older".

A call is a record of what its callback had captured: the list, the threads to
keep, the links, the items of its thread. It is sent, served, answered in any
order, and its answer is applied to the page of that later moment: `started`,
`forked` (which goes on with a resume), `resumed`, `listed`, `listedOlder`,
`archived`. The events of a thread (`thread`, external) come in their order and
overtake answers. A subagent's thread is archived with its parent's, by a series
of calls that the archived event starts.

The page is loaded, or loaded again, at any moment: some of the threads run then
and some are archived. Of the items a page shows the latest, `Scrollback` of them
(`prepareThreadItems`). Items are numbers and `MaxEvents` is at most `Scrollback`:
with fewer events on their way than items shown, no item comes so late that it
would be added again at the end after it was left off, and a set is exact. In the
code the limit is 50 at the least.

History variables name what the code does not get right. `overtaken` are threads
of which an event was handled before the answer of a resume that is older: it
takes the latest items away and shows an ended turn as running. `dropped` are
threads that an answer to "Load older" took off the list, because it puts back
the list that was there when it was asked for. `unseen` are threads that ran when
the page was loaded and that it has only listed since: a list marks no thread as
running, only an event of its turn or the answer to a resume does. `unarchived`
are the threads of which the page was told that they are not archived any more.
One of those that the page saw being archived stays hidden until a reload,
because nothing takes an id off the hidden ones; `threadlist_unarchived` shows it.
`told` is what the page was told of a thread's items.

Names, times, unread marks, reviews, deltas, the items a turn event carries, the
merging of commands that explore and the order of the list are left out; the pages of a list are one answer, of any
length.

## What the runs show

| run | instance | shows |
|---|---|---|
| `client` | 2 requests, 1 reply, 2 processes, with fairness | `NoLeakedProcess`, `NoAbandonedCall`, `AnswerFromOwnProcess`, `Handshake`, `EveryCallSettles`, and the refinement of `RpcCalls` |
| `threads` | 2 threads, 2 calls of any method, 2 turns | `RefusedOnlyIfBusy`: a stale `activeTurnId` locks no thread; `OutcomeIsTrue`: a call succeeds exactly if its requests did; `ActiveTurnOnRecord`: a turn is in the record whatever became of the call that started it; `EditsLostOnlyByOverlap`: an acknowledged edit is lost only to a replacement that overlaps it, or to a review in the thread itself |
| `threads_completed` | 1 thread, 1 message | violation: see below |
| `storage` | 1 file with one record, 3 writes, 2 versions, with fairness | `AckedIsSaved`, `NeverTorn`, `FileGrows`, `EveryWriteIsMade` (unless a file operation of its own fails), and the refinement of `DurableRecord` |
| `queued` | 2 threads, 3 messages, one a local command, steering on | `NeverTwice`, `OwnThread` |
| `queued_live` | 1 thread in view, 2 messages, the stop button once, no steering, no local commands, with fairness | `QueueMovesOn` |
| `queued_retry` | 1 thread, 2 messages, no stop | violation: see below |
| `events` | 2 notifications, 1 end of the server, 2 hubs with a subscriber each, 3 subscriptions, 2 sockets, 1 lost connection, with fairness | `SavedBeforeShown`, `ShownInOrder`, `RegisteredOnce`, `OneSocket`, `WillConnect`, `GotInOrder`, `Reconnects` |
| `live` | 2 threads, 3 attempts, 5 moves of the user, 2 events | `NoLeftover`, `ViewOnly` |
| `server` | 3 workspace ids, 2 calls that change workspaces, 2 projects, 2 sets of arguments, 2 calls to clients, 3 clients of 2 starts, 1 tab and the setup tab, 3 shells, one prompt, one approval | `BranchRecorded`, `RemovedStays`, `ProcessesKnown`, `ServedWithOwnArgs`, `AnswerReachesAsker`, `ShellsTracked`, `TerminalHasTab`, `PromptLeavesNoProcess`, `RestoredOnlyIfAlive` |
| `threadlist` | 3 threads, one the thread of a subagent of another, two there when the page is loaded with 2 items each, any of them running or archived; the latest 2 items of a thread are shown; 2 calls, 2 events, 2 things that the user begins and 2 that happen to threads | `ArchivedStaysAway`, `AnchorsListed`, `ShownAsRunning`, `ItemsShown` |
| `threadlist_unarchived` | the same | violation: see below |

The bounds. Two processes are the least with which a restart can confuse the old
and the new, and three calls let two wait while a third starts. Two calls on a
thread are an edit and the replacement that holds the old object; two turns are
a stale one and a real one; `TurnsOnRecord` covers the third, with which a
turn that was ignored can meet an older snapshot. Three writes are
one that runs, one that waits and one that comes when the first ends, which is
when the map entry is deleted; two versions make an older text differ from a
newer one. Three messages are one in flight, one queued and one sent past them.
Two notifications are one that is saved and one that overtakes it; two sockets
the old one and its successor, and the third subscription is the one that comes
back after its hub was left. Three attempts are an overtaken one, the one that
overtakes it, and one that comes after both. In `server` two calls overlap, the
third id is that of the new worktree or clone, and three clients let the map be
cleared twice; a unit of `Budget` is spent on what people and processes begin,
so that a run can, for instance, add a workspace, start a terminal in it and
remove it, all of which may overlap. In `threadlist` one call and one event can
overtake another; the target of one listed thread makes every second thread an
older one, so that anchors matter; and a third item is one more than are shown.

Symmetry is on calls in `threads`, on threads in `queued` and `live`, on
operations, calls and arguments in `server`; no run with a liveness property
uses it. `CHECK_DEADLOCK FALSE` is everywhere, because calls, writes, messages
and budgets are bounded and a finished instance stops.

Fairness. All of it is weak. `AppServerClient`: timers fire and continuations
run; nothing is assumed of the process. `JsonStorage`: a step of a file write ends, perhaps in
an error. `QueuedSend`: React runs its effects, `fetch` returns, a turn that runs
ends and its events arrive; of the user nothing is assumed. `EventPath`: the
server is started again by its supervisor, connections are accepted, close
events are told, registrations settle and the reconnect timer fires; of
notifications, subscribers and the network's losses nothing is assumed.

### Where the code does not do what the repository says

Three runs expect a violation; `findings` quotes the line that disagrees.

- `threads_completed`: the answer to `turn/start` and the `turn/completed` of a
  short turn arrive in one chunk; the continuation makes the finished turn active.
- `queued_retry`: a queued message that the server refuses is lost, because a
  refusal is returned and not thrown.
- `threadlist_unarchived`: a thread that the page has seen being archived is not
  listed when it is unarchived, though a test of the event's handler says that it
  is: the handler dispatches `ensureThread`, which ignores hidden ids.

### Races the properties name

In other places the code has a race that no document rules out. A property then
excludes exactly the states that race leads to, by name, and says that there is
no other way to them.

| race | where it is named |
|---|---|
| a resume, rollback or refresh overlaps an edit of the same thread, which is lost | `EditsLostOnlyByOverlap` |
| a review in the thread itself imports it as an unseen one; name, pin, params and backlog go | the same |
| a replacement leaves out a turn that began after its answer was made; a turn begins while its thread is about to be put in the map | `dropped` in `ThreadState` |
| a steer is accepted and its request fails: its message is queued again and runs twice | `lost` in `QueuedSend` |
| two renamings of a worktree overlap, or the server ends between git and the file, or the write fails and the server ends later | `cut` and `unsaved` in `Workspaces` |
| a call goes on with a client after the map was cleared, and starts a process nobody closes | `stray` in `ClientPool` |
| settings change and the clients do not; calls and approvals go elsewhere | `changed` in `ClientPool` |
| the call that opens a terminal reaches the server after the one that closes it | `late` in `Terminals` |
| the terminals of a removed workspace can not be closed | `refused` in `Terminals` |
| nobody awaits the wait of a prompt whose start failed, and its time-out ends the server | `unhandledRejection` in `BackgroundPrompt` |
| a notification whose save fails ends the server | `processEnds` in `NotificationDelivery` |
| a late close event makes the page forget its new socket, and every event comes twice | `stale` in `EventSocket` |
| an overtaken subscription stays when the attempt that should have undone it fails | `forgotten` in `LiveConnection` |
| events overtake the answer of a resume | `overtaken` in `ThreadList` |
| "Load older" puts an older list back | `dropped` in `ThreadList` |
| a page that is loaded during a turn lists the thread and does not show that it runs | `unseen` in `ThreadList` |

## What is proved

For every value of the constants that the modules' assumptions admit (bounds are
naturals, different kinds of calls are different):

- `AppServerClientProofs`: `TypeCorrect`, `NoLeak`, `PendingCurrent`,
  `NotAbandoned`, `OwnAnswers`, `HandshakeInOrder` and `ClientRefines`. The
  invariants are not inductive alone: a stale exit event resets the current child,
  whose pending entries must all be known to be its own. `IInv` adds to the types
  that ids are unique and below `nextRequestId` (`IdsUnique`), that children are
  spawned in order and only the latest is current (`SpawnOrder`), that a call waits
  on the current child (`CallsOnCurrentChild`) and that every pending id has an
  owner (`PendingOwned`). Where an answer comes from, and that `initialize` is
  first and `initialized` comes only after its answer, rests on the provenance of what is written to a process and of the
  lines it has put out. `ClientRefines` maps each action to a step of `RpcCalls`
  or to none.
- `JsonStorageProofs`: `TypeCorrect`, `Serial`, `Acked`, `Whole`, `Grows` and
  `Refinement`. `QueueInv` describes the chain: writes are numbered as they are
  called (`Numbered`), the map entry is the last one unless all have ended
  (`TailIsLast`), a write that has begun has only ended ones before it
  (`Ordered`, `Chained`), text does not change (`TextIsFixed`) and a file that has
  a name was synced (`Flushes`). With it, `RecordInv` compares contents: a text
  lies between what was in memory when its write was called and now
  (`TextBounds`), texts and named files grow in the order of the chain
  (`TextsGrow`, `FilesGrow`). `Refinement` maps each action to a step of
  `DurableRecord` or to none (`Simulation`).
- `EventPathProofs`: `TypeCorrect`, `SavedFirst`, `InOrder`, `OneRegistration`,
  `OneConnection`, `Connects`, and end to end `EventsInOrder`: what a callback got
  and what is on its way to it, in this order, is a part of what was broadcast.
- `ThreadStateProofs`: `TypesOK`, `RefusedOnlyWhenBusy`, `EditsAreKept`,
  `OutcomesAreTrue` and `TurnsOnRecord`, from `ThreadInvariant`. The shape of the state comes first: a request is answered once
  and while its call waits (`OneReply`, `LinesInv`), threads share no object
  (`StoreInv`), and the object a handler holds is that of its thread, or was
  (`HeldInv`), but for a review that imported its thread; an object that nothing
  refers to is always left, because there are more of them than threads and
  handlers (`FreeRef`). That a refused message met an active turn is then a chain
  of custody (`BusyInv`): the turn that the handler will see is the one that runs,
  or is in the answer on its way, or in a `turn/started` behind that answer, or in
  the object, or in the answer to another message that holds the same object; or
  the answer did not say which turn runs (`untold`). The order of the lines on
  stdout is what excludes an older `turn/started`. For
  `EditsAreKept` each handler's last step is compared with the object that the map
  had, and each step of a notification with the object it changes. Two more
  invariants follow a fact to where it ends: a failed request is an error on its
  way to its call, or the one it has, or what it has told (`OutcomeInv`); the
  active turn is in the object of the map, in `dropped`, or in a `turn/started` on
  its way (`RecordInv`). The sets of threads and of calls are finite.
- `QueuedSendProofs`: `TypesOK`, `MessagesConserved`, `AcceptedOnce` and
  `SentToOwnThread`, from `QueuedSendInvariant`: the queue of a thread holds, once
  each, exactly its messages that wait (`QueuesInv`); what is being sent goes to
  the thread of its message, so that an answer which queues the message again finds
  the right queue (`SentTo`); and a message that was accepted gets back to a stage
  from which it is sent only if its steer was accepted and the request failed, and
  then once, to start a turn (`RanInv`).
- `LiveConnectionProofs`: `TypesOK`, `SubscribedToTheView` and `NothingLeftOver`,
  from `LiveInvariant`: the latest attempt is for the thread in view (`LatestInv`),
  and the backend sends events of no thread that nobody accounts for, where the
  page, a request on its way, and an attempt that will look at it do (`NoneLost`).
- `CompanionServerProofs` has an inductive invariant for each part: workspaces and
  their branches (`WInv`, `BInv`), clients (`PInv`), terminals (`TInv`) and prompts
  (`PrInv`), with the lemmas that each action of the part keeps it. It adds what
  ties the parts together (`HomeInv`), shows that a step of one part leaves the
  invariants of the others alone, and concludes `ServerInvariant`, from which
  `ServerTypes`, `RemovalIsFinal`, `BranchesRecorded` (over writes that fail), `NoLostProcess`,
  `OwnArguments`, `AnswersReachAsker`, `NoLostShell`, `SessionsHaveTabs`,
  `RestoresOnlyAlive` and `PromptsEndClean` follow.
- `ThreadListProofs`: `TypeCorrect`, `StaysAway`, `Anchors`, `RunningIsShown` and
  `ItemsAreShown`. `Good` says of a state of the reducer that the hidden and the
  listed ids are apart, and that the thread in view and the running ones are listed,
  hidden or dropped; there is a lemma for each action of the reducer, under the
  condition under which it is dispatched. `LInv` adds the types, and that a call
  about a thread has one. The last two theorems rest on `ShownInvariant`: what the
  page does not show yet of a thread is in an event on its way (`RunsInv`,
  `ShownInv`), the end of the last turn is the last that is said of turns
  (`EventsInv`), and the answer to a resume knows all that is not behind it, unless
  an event of its thread overtook it (`ResumesInv`). The thread may run from before
  the page was loaded, and of the items the latest are what is compared: that what is
  among the latest of a set is among the latest of a part of it that contains it is
  `PrepareKeeps`. An event is sent (`SendKeeps`)
  in one of four ways (`Moves`), and handled (`HandleKeeps`) by taking it off the
  queue, where it counts for its own thread only.

The type invariants of all the specifications that are checked are theorems, and not in
a run. So are `Serial`
(the writes of a file run one at a time) and `PendingCurrent` (a pending call
waits on the current process). The inductive invariants were checked with TLC on
small instances before they were proved.

Only checked: the liveness properties, as a proof would need fairness and `ENABLED`,
and the three runs that are expected to find a violation. That a waiting message is in the queue of its thread, once
(`MessagesConserved`), is only proved. What a recursive definition
computes for every input (the ancestors of a thread, in `ThreadList`) is not proved
either; the proofs need nothing of it, as what is taken is always a part of a known set.

## What is not modelled

- Of the modelled components: `waitForNotification`; `fork_thread`, the import of
  legacy metadata and the items inside a turn (`ThreadState`); the scanner that
  recovers a JSON document followed by garbage, and more than one file at once
  (`JsonStorage`); reviews, new threads and late renders in the queue
  (`QueuedSend`); a failing unsubscription and the unmount of the hook
  (`LiveConnection`); names and settings of workspaces, the upstream branch of a
  renaming, deleting a worktree's directory (`Workspaces`); what shells print,
  several windows (`Terminals`); the parsing of HTTP requests and static files. With steering on, with local commands
  in the queue, or with the user leaving the thread, `QueueMovesOn` does not hold
  (the hazards say so), and its run excludes all three.
- The dispatch of RPC calls, the small handlers for git, GitHub, files, prompts
  and agents, and the thread backlog keep no state over an await: one command or
  one file per call.
- The usage cache holds read-only snapshots; a stale one is harmless.
- Login: one record of the login in progress. A login that is cancelled while its
  answer is awaited still stores its id, and a late answer to a cancellation
  clears a newer one; the app-server decides what either means.
- Approvals and questions: the server's side is in `ClientPool`; the dialogs of the
  browser only pause the queue.
- Browser views, which are most of the lines of the repository: rendering, forms,
  settings, and hooks that fetch what they show.
- The legacy desktop backend in Rust, which the web companion replaces. `LiveConnection`
  takes the events of its daemon into account.

A later version would put the worktrees that `removeWorkspaceCascade` closes together
with the calls that still start threads in them.

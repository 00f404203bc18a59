------------------------------ MODULE ThreadList ------------------------------
(***************************************************************************)
(* The threads of a workspace as the browser shows them: the reducer's     *)
(* lifecycle and item actions (threadReducer), which are dispatched by the *)
(* answers to its calls (useThreadActions.ts, useThreads.ts) and by the    *)
(* events of the app-server (useThreadTurnEvents.ts,                       *)
(* useThreadItemEvents.ts).  Calls and events overtake each other, and a   *)
(* call uses what its callback had captured when it was made.              *)
(*                                                                         *)
(* The companion server and the app-server are external and one here; the  *)
(* events come in their order, and none is lost (EventPath has how that    *)
(* may go wrong).  React renders between two callbacks.  Of a thread the   *)
(* page keeps its running turn and its latest items; names, times, unread  *)
(* marks, reviews and plans are left out, and so is the order of the list: *)
(* where the code takes the first thread, the model takes any.             *)
(***************************************************************************)
EXTENDS Naturals, Sequences, FiniteSets

CONSTANTS
  Threads,    \* thread ids, numbered
  First,      \* threads that exist when the page is loaded
  Said,       \* the items that each of these has then
  ParentOf,   \* the thread a subagent's thread belongs to, 0 for none
  Target,     \* THREAD_LIST_TARGET_COUNT
  Scrollback, \* maxItemsPerThread: the latest items that are shown, 50 at the least
  MaxItems,   \* bound on the items of a thread
  MaxTurns,   \* bound on its turns
  MaxCalls,   \* bound on the calls in progress at once
  MaxEvents,  \* bound on the events on their way at once
  UserBudget,   \* bound on what the user and the page begin
  ThreadBudget  \* bound on what the threads and other clients do

ASSUME ThreadListAssumption ==
  /\ Threads \subseteq Nat \ {0} /\ First \subseteq Threads
  /\ ParentOf \in [Threads -> Threads \cup {0}]
  /\ Target \in Nat \ {0} /\ Scrollback \in Nat \ {0}
  /\ MaxItems \in Nat \ {0} /\ MaxTurns \in Nat \ {0} /\ Said \in 0..MaxItems
  /\ MaxCalls \in Nat \ {0} /\ MaxEvents \in 1..Scrollback
  /\ UserBudget \in Nat /\ ThreadBudget \in Nat

VARIABLES
  thread,     \* external: the threads, what they have said and the turn they run
  events,     \* notifications on their way
  calls,      \* calls on their way, and their answers
  page,       \* the reducer's state: see Pages
  loaded,     \* loadedThreadsRef
  replace,    \* replaceOnResumeRef
  skip,       \* cascadeArchiveSkipRef
  paging,     \* threadListPagingByWorkspace: "Load older" is disabled
  budget,     \* what may still begin, on either side
  told,       \* history: the items of a thread that the page was told of
  overtaken,  \* history: threads whose events overtook an answer of a resume
  dropped,    \* history: threads taken off the list by an answer to "Load older"
  unseen,     \* history: threads that ran when the page was loaded, and of which neither
              \* an event of a turn nor an answer to a resume has said so
  unarchived  \* history: threads that the page was told are not archived any more

refs == <<loaded, replace, skip>>
historyVars == <<told, overtaken, dropped, unseen, unarchived>>
vars == <<thread, events, calls, page, refs, paging, budget, historyVars>>

NoThread == 0
Slots == 1..MaxCalls
Items == 1..MaxItems
Turns == 0..MaxTurns

\* The turn that runs is the last of `turns`.
ExternalThread ==
  [exists : BOOLEAN, archived : BOOLEAN, said : 0..MaxItems, turns : Turns, runs : BOOLEAN]

\* The ids of the list, those that are hidden, the thread in view, what is shown as
\* running with its turn, the items, the subagents' threads whose parent is known, and
\* whether there are older threads to load.
Pages ==
  [list : SUBSET Threads, hidden : SUBSET Threads, active : Threads \cup {NoThread},
   processing : SUBSET Threads, turn : [Threads -> Turns],
   items : [Threads -> SUBSET Items], linked : SUBSET Threads, cursor : BOOLEAN]

Events ==
  [kind : {"started", "archived", "unarchived", "turnStarted", "turnCompleted"},
   thread : Threads, n : Turns]
    \cup [kind : {"itemStarted", "itemCompleted"}, thread : Threads, n : Items]

\* A call: what it asks, the thread it is about; what its callback captured: the list,
\* the threads to keep on it (in view or running), the links, the items of its thread;
\* whether it replaces those; the threads to be archived after this one; and its answer,
\* which is sure that nothing runs, or that there are no more threads, with the number of
\* events that were on their way before it, and whether a later one was handled first.
Call ==
  [asks : {"start", "fork", "resume", "list", "older", "archive", "cascade"},
   thread : Threads \cup {NoThread},
   list : SUBSET Threads, keep : SUBSET Threads, linked : SUBSET Threads,
   local : SUBSET Items, replaces : BOOLEAN, rest : SUBSET Threads,
   at : {"idle", "sent", "answered"}, data : SUBSET Threads, items : SUBSET Items, turn : Turns,
   sure : BOOLEAN, before : 0..MaxEvents, behind : BOOLEAN]

newCall(asks, t) ==
  [asks |-> asks, thread |-> t, list |-> {}, keep |-> {}, linked |-> {}, local |-> {},
   replaces |-> FALSE, rest |-> {}, at |-> "sent", data |-> {}, items |-> {}, turn |-> 0,
   sure |-> FALSE, before |-> 0, behind |-> FALSE]

NoCall == [newCall("list", NoThread) EXCEPT !.at = "idle"]

TypeOK ==
  /\ thread \in [Threads -> ExternalThread]
  /\ events \in Seq(Events)
  /\ calls \in [Slots -> Call]
  /\ page \in Pages
  /\ loaded \subseteq Threads /\ replace \subseteq Threads /\ skip \subseteq Threads
  /\ paging \in BOOLEAN
  /\ budget \in [user : 0..UserBudget, threads : 0..ThreadBudget]
  /\ told \in [Threads -> SUBSET Items]
  /\ overtaken \subseteq Threads /\ dropped \subseteq Threads
  /\ unseen \subseteq Threads /\ unarchived \subseteq Threads

\* The page is loaded, or loaded again: some threads run, others are archived.
Init ==
  /\ unseen \in SUBSET First
  /\ \E archive \in SUBSET (First \ unseen) :
       thread = [t \in Threads |-> [exists |-> t \in First, archived |-> t \in archive,
                   said |-> IF t \in First THEN Said ELSE 0,
                   turns |-> IF t \in unseen THEN 1 ELSE 0, runs |-> t \in unseen]]
  /\ events = <<>> /\ calls = [i \in Slots |-> NoCall]
  /\ page = [list |-> {}, hidden |-> {}, active |-> NoThread, processing |-> {},
             turn |-> [t \in Threads |-> 0], items |-> [t \in Threads |-> {}],
             linked |-> {}, cursor |-> FALSE]
  /\ loaded = {} /\ replace = {} /\ skip = {} /\ paging = FALSE
  /\ budget = [user |-> UserBudget, threads |-> ThreadBudget]
  /\ told = [t \in Threads |-> {}] /\ overtaken = {} /\ dropped = {}
  /\ unarchived = {}

-------------------------------------------------------------------------------
\* The reducer

\* Mutant: hidden threads are not looked up.
isHidden_never(s, t) == FALSE

isHidden(s, t) == t \in s.hidden

ensureThread(s, t) ==
  IF isHidden(s, t) \/ t \in s.list THEN s
  ELSE [s EXCEPT !.list = @ \cup {t}, !.processing = @ \ {t},
                 !.active = IF @ = NoThread THEN t ELSE @]

setActiveThreadId(s, t) == [s EXCEPT !.active = t]

markProcessing(s, t, on) == [s EXCEPT !.processing = IF on THEN @ \cup {t} ELSE @ \ {t}]

setActiveTurnId(s, t, n) == [s EXCEPT !.turn[t] = n]

\* The latest items are kept.  They are in their order: with fewer events on their way
\* than there are items shown, none is late by so many that it adds an item again which
\* was left off.  That commands which explore are merged into one entry is left out.
prepareThreadItems(is) == {n \in is : Cardinality({m \in is : m > n}) < Scrollback}

setThreadItems(s, t, is) == [s EXCEPT !.items[t] = prepareThreadItems(is)]

upsertItem(s, t, n) == [s EXCEPT !.items[t] = prepareThreadItems(@ \cup {n})]

\* A thread of list l that is first
firstOf(l) == IF l = {} THEN {NoThread} ELSE l

\* `first` is the first thread of the list that remains.
hideThread(s, t, first) ==
  IF t \in s.hidden THEN s
  ELSE [s EXCEPT !.hidden = @ \cup {t}, !.list = @ \ {t},
                 !.active = IF @ = t THEN first ELSE @]

\* updateThreadParent(), for a thread that has a parent
link(s, ts) == [s EXCEPT !.linked = @ \cup {t \in ts : ParentOf[t] # NoThread}]

\* Ancestors of the threads ts by the links known
ancestors(linked, ts) ==
  LET parents(S) == {ParentOf[t] : t \in S \cap linked} \ {NoThread}
      up[n \in Nat] == IF n = 0 THEN parents(ts) ELSE up[n - 1] \cup parents(up[n - 1])
  IN up[Cardinality(Threads)]

visible(s, ts) == {t \in ts : ~isHidden(s, t)}

\* setThreads without anchors; `first` as above
setThreads(s, ts, first) ==
  [s EXCEPT !.list = visible(s, ts),
            !.active = IF @ \in visible(s, ts) THEN @ ELSE first]

\* Mutant: the thread in view is not kept.
anchors_running(s) == s.processing

\* The threads that an answer does not take off the list
anchors(s) == {s.active} \cup s.processing

\* setThreads with preserveAnchors
setThreadsAnchored(s, ts) ==
  LET kept == visible(s, ts \cup (anchors(s) \cap s.list))
  IN [s EXCEPT !.list = kept \cup visible(s, ancestors(s.linked, kept) \cap s.list)]

-------------------------------------------------------------------------------
\* Calls of the page

\* The page makes a call.
calling(c) ==
  \E i \in Slots :
    /\ calls[i].at = "idle" /\ \A j \in 1..(i - 1) : calls[j].at # "idle"
    /\ calls' = [calls EXCEPT ![i] = c]

begins == budget.user > 0 /\ budget' = [budget EXCEPT !.user = @ - 1]

\* resumeThreadForWorkspace(), with `local` for the itemsByThread of the callback
resume(t, local, replaces) ==
  [newCall("resume", t) EXCEPT !.local = local, !.replaces = replaces]

startThread ==
  /\ begins /\ calling(newCall("start", NoThread))
  /\ UNCHANGED <<thread, events, page, refs, paging, historyVars>>

forkThread(t) ==
  /\ begins /\ t \in page.list /\ calling(newCall("fork", t))
  /\ UNCHANGED <<thread, events, page, refs, paging, historyVars>>

\* setActiveThreadId() of useThreads.ts: a thread of which anything is there is not
\* resumed.
selectThread(t) ==
  /\ begins /\ t \in page.list
  /\ page' = setActiveThreadId(page, t)
  /\ IF t \in loaded \/ page.items[t] # {}
     THEN loaded' = loaded \cup {t} /\ UNCHANGED calls
     ELSE calling(resume(t, {}, FALSE)) /\ UNCHANGED loaded
  /\ UNCHANGED <<thread, events, replace, skip, paging, historyVars>>

\* refreshThread(), when the window gains the focus, for instance
refreshThread ==
  /\ begins /\ page.active # NoThread
  /\ replace' = replace \cup {page.active}
  /\ calling(resume(page.active, page.items[page.active], TRUE))
  /\ UNCHANGED <<thread, events, page, loaded, skip, paging, historyVars>>

\* listThreadsForWorkspaces(): with preserveState it is called every 15 seconds; a
\* button resets the workspace's threads first.
listThreads(preserveState, resets) ==
  /\ begins /\ ~(preserveState /\ resets)
  /\ calling([newCall("list", NoThread) EXCEPT !.list = page.list, !.linked = page.linked,
                !.keep = ({page.active} \cap Threads) \cup page.processing])
  /\ loaded' = IF resets THEN loaded \ (page.list \cup {page.active}) ELSE loaded
  /\ page' = IF preserveState THEN page ELSE [page EXCEPT !.cursor = FALSE]
  /\ UNCHANGED <<thread, events, replace, skip, paging, historyVars>>

\* loadOlderThreadsForWorkspace()
loadOlderThreads ==
  /\ begins /\ page.cursor /\ ~paging
  /\ paging' = TRUE
  /\ calling([newCall("older", NoThread) EXCEPT !.list = page.list])
  /\ UNCHANGED <<thread, events, page, refs, historyVars>>

\* removeThread() of useThreads.ts
removeThread(t) ==
  /\ begins /\ t \in page.list
  /\ \E first \in firstOf(page.list \ {t}) : page' = hideThread(page, t, first)
  /\ calling(newCall("archive", t))
  /\ unarchived' = unarchived \ {t}
  /\ UNCHANGED <<thread, events, refs, paging, told, overtaken, dropped, unseen>>

-------------------------------------------------------------------------------
\* The other side: calls are served in any order.

sends(e) == Len(events) < MaxEvents /\ events' = Append(events, e)

event(kind, t, n) == [kind |-> kind, thread |-> t, n |-> n]

answers(i, a) ==
  calls' = [calls EXCEPT ![i] = [a EXCEPT !.at = "answered", !.before = Len(events')]]

fresh == {t \in Threads : ~thread[t].exists /\ ParentOf[t] = NoThread}

serveNew(i) ==
  LET c == calls[i] IN
  /\ c.asks \in {"start", "fork"}
  /\ \E t \in fresh :
       /\ thread' = [thread EXCEPT ![t].exists = TRUE,
                       ![t].said = IF c.asks = "fork" THEN thread[c.thread].said ELSE 0]
       /\ sends(event("started", t, 0))
       /\ answers(i, [c EXCEPT !.thread = t])

\* Whether the answer is sure that nothing runs (getResumedTurnState()) depends on what
\* the app-server says of the thread's turns.
serveResume(i) ==
  LET c == calls[i]
      x == thread[c.thread]
  IN
  /\ c.asks = "resume" /\ x.exists
  /\ UNCHANGED <<thread, events>>
  /\ \E sure \in IF x.runs THEN {FALSE} ELSE BOOLEAN :
       answers(i, [c EXCEPT !.items = 1..x.said, !.turn = IF x.runs THEN x.turns ELSE 0,
                     !.sure = sure])

\* The pages that the call asks for may not be all there are.
serveList(i) ==
  LET all == {t \in Threads : thread[t].exists /\ ~thread[t].archived} IN
  /\ calls[i].asks \in {"list", "older"}
  /\ UNCHANGED <<thread, events>>
  /\ \E data \in SUBSET all :
       answers(i, [calls[i] EXCEPT !.data = data, !.sure = (data = all)])

serveArchive(i) ==
  LET t == calls[i].thread IN
  /\ calls[i].asks \in {"archive", "cascade"}
  /\ thread[t].exists /\ ~thread[t].archived
  /\ thread' = [thread EXCEPT ![t].archived = TRUE]
  /\ sends(event("archived", t, 0))
  /\ answers(i, calls[i])

Serve ==
  /\ \E i \in Slots :
       /\ calls[i].at = "sent"
       /\ serveNew(i) \/ serveResume(i) \/ serveList(i) \/ serveArchive(i)
  /\ UNCHANGED <<page, refs, paging, budget, historyVars>>

\* What a thread does by itself, or another client of the app-server asks of it
Happens(t) ==
  LET x == thread[t] IN
  /\ budget.threads > 0 /\ budget' = [budget EXCEPT !.threads = @ - 1]
  /\ \/ /\ ~x.exists
        /\ thread' = [thread EXCEPT ![t].exists = TRUE]
        /\ sends(event("started", t, 0))
     \/ /\ x.exists /\ ~x.runs /\ x.turns < MaxTurns /\ ~x.archived
        /\ thread' = [thread EXCEPT ![t].turns = @ + 1, ![t].runs = TRUE]
        /\ sends(event("turnStarted", t, x.turns + 1))
     \/ /\ x.runs /\ x.said < MaxItems
        /\ thread' = [thread EXCEPT ![t].said = @ + 1]
        /\ \E kind \in {"itemStarted", "itemCompleted"} : sends(event(kind, t, x.said + 1))
     \/ /\ x.runs
        /\ thread' = [thread EXCEPT ![t].runs = FALSE]
        /\ sends(event("turnCompleted", t, x.turns))
     \/ /\ x.exists /\ ~x.runs
        /\ thread' = [thread EXCEPT ![t].archived = ~@]
        /\ sends(event(IF x.archived THEN "unarchived" ELSE "archived", t, 0))
  /\ UNCHANGED <<calls, page, refs, paging, historyVars>>

-------------------------------------------------------------------------------
\* Answers

ends(i) == calls' = [calls EXCEPT ![i] = NoCall]

started(i) ==
  LET t == calls[i].thread IN
  /\ calls[i].asks = "start"
  /\ page' = setActiveThreadId(ensureThread(page, t), t)
  /\ loaded' = loaded \cup {t}
  /\ ends(i)
  /\ UNCHANGED <<replace, skip, paging, historyVars>>

\* The fork is resumed, with the items its callback had captured: none.
forked(i) ==
  LET t == calls[i].thread IN
  /\ calls[i].asks = "fork"
  /\ page' = setActiveThreadId(ensureThread(page, t), t)
  /\ loaded' = loaded \ {t}
  /\ calls' = [calls EXCEPT ![i] = resume(t, {}, TRUE)]
  /\ UNCHANGED <<replace, skip, paging, historyVars>>

\* Mutant: what the page shows as running is kept whatever the answer says.
keepLocalProcessing_always(c) == c.thread \in page.processing /\ c.turn = 0

keepLocalProcessing(c) == c.thread \in page.processing /\ c.turn = 0 /\ ~c.sure

\* Mutant: what had been there is kept.
mergedItems_local(c, shouldReplace) == IF c.local = {} THEN c.items ELSE c.local

mergedItems(c, shouldReplace) ==
  IF c.items = {} THEN c.local
  ELSE IF shouldReplace THEN c.items
  ELSE IF c.local # {} /\ c.items \cap c.local = {} THEN c.local
  ELSE c.items \cup c.local

resumed(i) ==
  LET c == calls[i]
      t == c.thread
      keeps == keepLocalProcessing(c)
      turn == IF keeps THEN page.turn[t] ELSE c.turn
      is == mergedItems(c, c.replaces \/ t \in replace)
      s == setActiveTurnId(markProcessing(link(ensureThread(page, t), {t}),
                                          t, keeps \/ turn # 0), t, turn)
  IN
  /\ c.asks = "resume"
  /\ page' = IF is = {} THEN s ELSE setThreadItems(s, t, is)
  /\ replace' = replace \ {t}
  /\ loaded' = loaded \cup {t}
  /\ ends(i)
  /\ told' = [told EXCEPT ![t] = @ \cup c.items]
  /\ overtaken' = IF c.behind THEN overtaken \cup {t}
                  ELSE IF c.sure \/ c.turn # 0 THEN overtaken \ {t} ELSE overtaken
  /\ unseen' = unseen \ {t}
  /\ UNCHANGED <<skip, paging, dropped, unarchived>>

\* The latest threads of the answer, and those of the others that were in view or
\* running when the call was made, with the ancestors that were known then
summaries(c, latest) ==
  LET included == latest \cup (c.keep \cap c.data)
  IN included \cup (ancestors(c.linked, included) \cap c.data)

listed(i) ==
  LET c == calls[i]
      more == Cardinality(c.data) > Target
  IN
  /\ c.asks = "list"
  /\ \E latest \in SUBSET c.data :
       /\ Cardinality(latest) = IF more THEN Target ELSE Cardinality(c.data)
       /\ page' = [setThreadsAnchored(link(page, c.data), summaries(c, latest))
                     EXCEPT !.cursor = more \/ ~c.sure]
  /\ ends(i)
  /\ UNCHANGED <<loaded, replace, skip, paging, historyVars>>

listedOlder(i) ==
  LET c == calls[i]
      s == link(page, c.data \ c.list)
      all == c.list \cup c.data
  IN
  /\ c.asks = "older"
  /\ IF c.data \subseteq c.list THEN page' = [s EXCEPT !.cursor = ~c.sure]
     ELSE \E first \in firstOf(visible(s, all)) :
            page' = [setThreads(s, all, first) EXCEPT !.cursor = ~c.sure]
  /\ dropped' = dropped \cup (page.list \ page'.list)
  /\ paging' = FALSE
  /\ ends(i)
  /\ UNCHANGED <<loaded, replace, skip, told, overtaken, unseen, unarchived>>

\* A thread and, after it, others are to be archived: the first call.
archiveOneOf(ts) ==
  {[newCall("cascade", t) EXCEPT !.rest = ts \ {t}] : t \in ts}

\* The call to archive a thread returns, or has failed; the next one of its series is made.
archived(i, failed) ==
  LET c == calls[i]
      skips == IF failed THEN skip \ {c.thread} ELSE skip
  IN
  /\ \/ c.asks = "archive" /\ ends(i) /\ UNCHANGED skip
     \/ c.asks = "cascade" /\ c.rest = {} /\ ends(i) /\ skip' = skips
     \/ /\ c.asks = "cascade"
        /\ \E d \in archiveOneOf(c.rest) :
             calls' = [calls EXCEPT ![i] = d] /\ skip' = skips \cup {d.thread}
  /\ UNCHANGED <<page, loaded, replace, paging, historyVars>>

Answered ==
  /\ \E i \in Slots :
       /\ calls[i].at = "answered"
       /\ \/ started(i) \/ forked(i) \/ resumed(i) \/ listed(i) \/ listedOlder(i)
          \/ archived(i, FALSE)
  /\ UNCHANGED <<thread, events, budget>>

failed(i) ==
  /\ calls[i].asks \notin {"archive", "cascade"}
  /\ ends(i)
  /\ paging' = (paging /\ calls[i].asks # "older")
  /\ UNCHANGED <<page, refs, historyVars>>

Fails ==
  /\ \E i \in Slots : calls[i].at = "sent" /\ (failed(i) \/ archived(i, TRUE))
  /\ UNCHANGED <<thread, events, budget>>

-------------------------------------------------------------------------------
\* Events

\* The calls when an event of thread t is handled: it is older than an answer, or not.
passed(t) ==
  [i \in Slots |->
     IF calls[i].at # "answered" THEN calls[i]
     ELSE IF calls[i].before > 0 THEN [calls[i] EXCEPT !.before = @ - 1]
     ELSE [calls[i] EXCEPT !.behind = @ \/ calls[i].thread = t]]

\* The event of a subagent's thread may not name its parent: the thread is not listed yet.
onThreadStarted(t) ==
  /\ \/ page' = link(ensureThread(page, t), {t})
     \/ ParentOf[t] # NoThread /\ page' = page
  /\ calls' = passed(t) /\ UNCHANGED <<skip, told>>

\* Descendants that the page knows
descendants(t) == {d \in Threads : t \in ancestors(page.linked, {d})}

\* handleThreadArchived(): the threads of subagents are archived with their parent's,
\* one after the other, unless this one is of such a series itself (the two minutes
\* after which that is forgotten are not over).
onThreadArchived(t) ==
  /\ \E first \in firstOf(page.list \ {t}) : page' = hideThread(page, t, first)
  /\ IF t \in skip \/ descendants(t) = {}
     THEN skip' = skip \ {t} /\ calls' = passed(t)
     ELSE \E d \in archiveOneOf(descendants(t)), i \in Slots :
            /\ calls[i].at = "idle" /\ \A j \in 1..(i - 1) : calls[j].at # "idle"
            /\ calls' = [passed(t) EXCEPT ![i] = d]
            /\ skip' = skip \cup {d.thread}
  /\ UNCHANGED told

onThreadUnarchived(t) ==
  /\ page' = ensureThread(page, t)
  /\ calls' = passed(t) /\ UNCHANGED <<skip, told>>

onTurnStarted(t, n) ==
  /\ page' = setActiveTurnId(markProcessing(ensureThread(page, t), t, TRUE), t, n)
  /\ calls' = passed(t) /\ UNCHANGED <<skip, told>>

\* The end of a turn that is not the one shown
isOtherTurn(t, n) == page.turn[t] \notin {0, n}

onTurnCompleted(t, n) ==
  /\ page' = IF isOtherTurn(t, n) THEN page
             ELSE setActiveTurnId(markProcessing(ensureThread(page, t), t, FALSE), t, 0)
  /\ calls' = passed(t) /\ UNCHANGED <<skip, told>>

\* handleItemUpdate(): an item that starts shows its thread as running.
handleItemUpdate(t, n, starts) ==
  LET s == ensureThread(page, t)
  IN
  /\ page' = upsertItem(IF starts THEN markProcessing(s, t, TRUE) ELSE s, t, n)
  /\ told' = [told EXCEPT ![t] = @ \cup {n}]
  /\ calls' = passed(t) /\ UNCHANGED skip

OnEvent ==
  LET e == Head(events) IN
  /\ events # <<>>
  /\ events' = Tail(events)
  /\ \/ e.kind = "started" /\ onThreadStarted(e.thread)
     \/ e.kind = "archived" /\ onThreadArchived(e.thread)
     \/ e.kind = "unarchived" /\ onThreadUnarchived(e.thread)
     \/ e.kind = "turnStarted" /\ onTurnStarted(e.thread, e.n)
     \/ e.kind = "turnCompleted" /\ onTurnCompleted(e.thread, e.n)
     \/ e.kind = "itemStarted" /\ handleItemUpdate(e.thread, e.n, TRUE)
     \/ e.kind = "itemCompleted" /\ handleItemUpdate(e.thread, e.n, FALSE)
  /\ unseen' = IF e.kind \in {"turnStarted", "turnCompleted", "itemStarted"}
               THEN unseen \ {e.thread} ELSE unseen
  /\ unarchived' = IF e.kind = "unarchived" THEN unarchived \cup {e.thread}
                   ELSE IF e.kind = "archived" THEN unarchived \ {e.thread}
                   ELSE unarchived
  /\ UNCHANGED <<thread, loaded, replace, paging, budget, overtaken, dropped>>

Begin ==
  \/ startThread \/ refreshThread \/ loadOlderThreads
  \/ \E t \in Threads : forkThread(t) \/ selectThread(t) \/ removeThread(t) \/ Happens(t)
  \/ \E preserveState, resets \in BOOLEAN : listThreads(preserveState, resets)

Next == Begin \/ Serve \/ Answered \/ Fails \/ OnEvent

Spec == Init /\ [][Next]_vars

-------------------------------------------------------------------------------
\* A thread that was archived, or was told to be, is not listed again by an answer or an
\* event that is older, unless the page is told that it is not archived any more.
ArchivedStaysAway == page.list \cap page.hidden \subseteq unarchived

\* A test of onThreadUnarchived() says that it "re-adds thread summary on thread
\* unarchived": the thread is on the list then.  It is not: what the page has seen being
\* archived stays hidden.
UnarchivedComesBack == [][unarchived' \ unarchived \subseteq page'.list]_vars

\* The thread in view and the threads that are shown as running are on the list, whatever
\* lists arrive, but for archived ones: a thread can be archived before the answer to the
\* call that made it, and its turn may go on.  An answer to "Load older" puts the list back
\* that was there when it was asked for, without the threads that have come since.
AnchorsListed ==
  /\ page.active \in page.list \cup page.hidden \cup {NoThread}
  /\ page.processing \subseteq page.list \cup page.hidden \cup dropped

Quiet == events = <<>> /\ \A i \in Slots : calls[i].at = "idle"

\* When all calls and events have been handled, the threads shown as running are those
\* that run, unless events overtook an answer that says otherwise, or "Load older" took
\* the thread off the list, or the thread has run since before the page was loaded, and
\* nothing but lists has named it since: a list does not say that a thread runs.
ShownAsRunning ==
  Quiet => \A t \in Threads \ (overtaken \cup dropped \cup unseen) :
             t \in page.processing <=> thread[t].runs

\* None of the latest items that the page was told of a thread is missing in what it
\* shows, unless events overtook an answer, which then took their items away.
ItemsShown ==
  Quiet => \A t \in Threads \ overtaken : prepareThreadItems(told[t]) \subseteq page.items[t]
===============================================================================

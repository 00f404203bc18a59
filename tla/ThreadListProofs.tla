--------------------------- MODULE ThreadListProofs ---------------------------
(***************************************************************************)
(* What holds of the thread list whatever the answers and events are, and  *)
(* in whichever order they come: its types, that a hidden thread is not    *)
(* listed, and that the thread in view and the running ones are.           *)
(*                                                                         *)
(* `Good` says it of a state of the reducer; the first lemmas say that the *)
(* reducer's actions keep it, each under the condition under which it is   *)
(* dispatched, and LInv adds the types of the other variables.             *)
(*                                                                         *)
(* The second half is about what is shown as running and which items are:  *)
(* SInv says that the events on their way, and where an answer is among    *)
(* them, account for what the page does not show yet.                      *)
(***************************************************************************)
EXTENDS ThreadList, FiniteSetTheorems, TLAPS

Good(s, d) ==
  /\ s \in Pages
  /\ s.list \cap s.hidden = {}
  /\ s.active \in s.list \cup s.hidden \cup {NoThread}
  /\ s.processing \subseteq s.list \cup s.hidden \cup d

Here(s, t) == t \in s.list \cup s.hidden

\* A call that is about a thread has one.
CallOK(c) ==
  /\ c \in Call
  /\ c.asks \in {"fork", "resume", "archive", "cascade"} => c.thread \in Threads
  /\ c.asks = "start" /\ c.at = "answered" => c.thread \in Threads

CallsOK(cs) == cs \in [Slots -> Call] /\ \A i \in Slots : CallOK(cs[i])

ThreadsOK == thread \in [Threads -> ExternalThread]
EventsOK == events \in Seq(Events) /\ Len(events) <= MaxEvents

RefsOK ==
  /\ loaded \subseteq Threads /\ replace \subseteq Threads /\ skip \subseteq Threads
  /\ paging \in BOOLEAN
  /\ budget \in [user : 0..UserBudget, threads : 0..ThreadBudget]

HistoryOK ==
  /\ told \in [Threads -> SUBSET Items]
  /\ overtaken \subseteq Threads /\ dropped \subseteq Threads
  /\ unseen \subseteq Threads /\ unarchived \subseteq Threads

LInv ==
  ThreadsOK /\ EventsOK /\ CallsOK(calls) /\ Good(page, dropped) /\ RefsOK /\ HistoryOK

-------------------------------------------------------------------------------
\* The reducer

LEMMA NoThreadIsNone == NoThread \notin Threads
BY ThreadListAssumption DEF NoThread

LEMMA EnsureGood ==
  ASSUME NEW d, NEW s, Good(s, d), NEW t \in Threads
  PROVE  Good(ensureThread(s, t), d) /\ Here(ensureThread(s, t), t)
<1>. DEFINE p == ensureThread(s, t)
<1>1. CASE t \in s.hidden \/ t \in s.list
  <2>1. p = s
    BY <1>1 DEF ensureThread, isHidden
  <2>. QED BY <1>1, <2>1 DEF Here
<1>2. CASE t \notin s.hidden /\ t \notin s.list
  <2>. DEFINE a == IF s.active = NoThread THEN t ELSE s.active
  <2>1. p = [s EXCEPT !.list = s.list \cup {t}, !.processing = s.processing \ {t},
                      !.active = a]
    BY <1>2 DEF ensureThread, isHidden
  <2>2. a \in {s.active, t}
    OBVIOUS
  <2>. HIDE DEF a
  <2>3. /\ s \in Pages /\ s.active \in Threads \cup {NoThread} /\ a \in Threads \cup {NoThread}
    BY <2>2 DEF Good, Pages
  <2>. HIDE DEF p
  <2>4. /\ p.list = s.list \cup {t} /\ p.hidden = s.hidden
        /\ p.processing = s.processing \ {t} /\ p.active = a
    BY <2>1, <2>3 DEF Pages
  <2>5. p \in Pages
    BY <2>1, <2>3 DEF Pages
  <2>6. Good(p, d) /\ Here(p, t)
    BY <1>2, <2>2, <2>4, <2>5 DEF Good, Here
  <2>. QED BY <2>6 DEF p
<1>. QED BY <1>1, <1>2

LEMMA ActiveGood ==
  ASSUME NEW d, NEW s, Good(s, d), NEW t \in Threads, Here(s, t)
  PROVE  Good(setActiveThreadId(s, t), d)
BY DEF Good, Here, setActiveThreadId, Pages

LEMMA MarkGood ==
  ASSUME NEW d, NEW s, Good(s, d), NEW t \in Threads, NEW on \in BOOLEAN, on => Here(s, t)
  PROVE  Good(markProcessing(s, t, on), d)
BY DEF Good, Here, markProcessing, Pages

LEMMA TurnGood ==
  ASSUME NEW d, NEW s, Good(s, d), NEW t \in Threads, NEW n \in Turns
  PROVE  Good(setActiveTurnId(s, t, n), d)
BY DEF Good, setActiveTurnId, Pages

LEMMA ItemsGood ==
  ASSUME NEW d, NEW s, Good(s, d), NEW t \in Threads, NEW is \in SUBSET Items
  PROVE  Good(setThreadItems(s, t, is), d)
<1>1. prepareThreadItems(is) \in SUBSET Items
  BY DEF prepareThreadItems
<1>. QED BY <1>1 DEF Good, setThreadItems, Pages

LEMMA UpsertGood ==
  ASSUME NEW d, NEW s, Good(s, d), NEW t \in Threads, NEW n \in Items
  PROVE  Good(upsertItem(s, t, n), d)
<1>1. s.items[t] \cup {n} \in SUBSET Items
  BY DEF Good, Pages
<1>2. prepareThreadItems(s.items[t] \cup {n}) \in SUBSET Items
  BY <1>1 DEF prepareThreadItems
<1>. QED BY <1>2 DEF Good, upsertItem, Pages

LEMMA LinkGood ==
  ASSUME NEW d, NEW s, Good(s, d), NEW ts \in SUBSET Threads
  PROVE  Good(link(s, ts), d) /\ \A t : Here(link(s, ts), t) <=> Here(s, t)
BY DEF Good, Here, link, Pages

LEMMA CursorGood ==
  ASSUME NEW d, NEW s, Good(s, d), NEW b \in BOOLEAN
  PROVE  Good([s EXCEPT !.cursor = b], d)
BY DEF Good, Pages

LEMMA HideGood ==
  ASSUME NEW d, NEW s, Good(s, d), NEW t \in Threads, NEW first \in firstOf(s.list \ {t})
  PROVE  Good(hideThread(s, t, first), d)
BY DEF Good, hideThread, firstOf, Pages

\* Whatever list arrives, what anchors names stays.
LEMMA AnchoredGood ==
  ASSUME NEW d, NEW s, Good(s, d), NEW ts \in SUBSET Threads
  PROVE  Good(setThreadsAnchored(s, ts), d)
<1>. DEFINE kept == visible(s, ts \cup (anchors(s) \cap s.list))
            more == visible(s, ancestors(s.linked, kept) \cap s.list)
            p == setThreadsAnchored(s, ts)
<1>1. p = [s EXCEPT !.list = kept \cup more]
  BY DEF setThreadsAnchored
<1>2. kept \subseteq Threads /\ kept \cap s.hidden = {} /\ anchors(s) \cap s.list \subseteq kept
  BY DEF visible, isHidden, Good, Pages
<1>3. more \subseteq Threads /\ more \cap s.hidden = {}
  BY DEF visible, isHidden, Good, Pages
<1>. HIDE DEF kept, more
<1>4. /\ p \in Pages /\ p.list = kept \cup more /\ p.hidden = s.hidden
      /\ p.active = s.active /\ p.processing = s.processing
  BY <1>1, <1>2, <1>3 DEF Good, Pages
<1>5. s.active \in anchors(s) /\ s.processing \subseteq anchors(s)
  BY DEF anchors
<1>. HIDE DEF p
<1>6. Good(p, d)
  BY <1>2, <1>3, <1>4, <1>5 DEF Good
<1>. QED BY <1>6 DEF p

\* Without anchors the list may lose running threads; the view moves.
LEMMA ThreadsGood ==
  ASSUME NEW d, NEW s, Good(s, d), NEW ts \in SUBSET Threads,
         NEW first \in firstOf(visible(s, ts))
  PROVE  Good(setThreads(s, ts, first), d \cup (s.list \ setThreads(s, ts, first).list))
<1>. DEFINE p == setThreads(s, ts, first)
            kept == visible(s, ts)
<1>1. kept \subseteq Threads /\ kept \cap s.hidden = {}
  BY DEF visible, isHidden
<1>2. p = [s EXCEPT !.list = kept, !.active = IF @ \in kept THEN @ ELSE first]
  BY DEF setThreads
<1>3. first \in kept \cup {NoThread}
  BY DEF firstOf
<1>. HIDE DEF kept
<1>4. /\ p \in Pages /\ p.list = kept /\ p.hidden = s.hidden
      /\ p.active \in kept \cup {NoThread} /\ p.processing = s.processing
  <2>. DEFINE a == IF s.active \in kept THEN s.active ELSE first
  <2>1. a \in kept \cup {NoThread} /\ a \in Threads \cup {NoThread}
    BY <1>1, <1>3
  <2>2. s \in Pages
    BY DEF Good
  <2>3. p = [s EXCEPT !.list = kept, !.active = a]
    BY <1>2
  <2>. HIDE DEF a, p
  <2>. QED BY <1>1, <2>1, <2>2, <2>3 DEF Pages
<1>. HIDE DEF p
<1>5. Good(p, d \cup (s.list \ p.list))
  BY <1>1, <1>4 DEF Good
<1>. QED BY <1>5 DEF p

LEMMA MoreDropped ==
  ASSUME NEW s, NEW d, NEW e, Good(s, d), d \subseteq e
  PROVE  Good(s, e)
BY DEF Good

-------------------------------------------------------------------------------
\* Calls and budgets

LEMMA NewCallOK ==
  ASSUME NEW asks \in {"start", "fork", "resume", "list", "older", "archive", "cascade"},
         NEW t \in Threads \cup {NoThread},
         asks \in {"fork", "resume", "archive", "cascade"} => t \in Threads
  PROVE  CallOK(newCall(asks, t)) /\ newCall(asks, t).at = "sent" /\ newCall(asks, t).asks = asks
<1>1. 0 \in Turns /\ 0 \in 0..MaxEvents
  BY ThreadListAssumption DEF Turns
<1>. QED BY <1>1 DEF CallOK, newCall, Call

LEMMA ResumeOK ==
  ASSUME NEW t \in Threads, NEW local \in SUBSET Items, NEW replaces \in BOOLEAN
  PROVE  CallOK(resume(t, local, replaces))
<1>1. CallOK(newCall("resume", t))
  BY NewCallOK
<1>. QED BY <1>1 DEF CallOK, resume, newCall, Call

LEMMA CallingOK ==
  ASSUME CallsOK(calls), NEW c, CallOK(c), calling(c)
  PROVE  CallsOK(calls')
BY DEF CallsOK, CallOK, calling

LEMMA SetCallOK ==
  ASSUME CallsOK(calls), NEW i \in Slots, NEW c, CallOK(c)
  PROVE  CallsOK([calls EXCEPT ![i] = c])
BY DEF CallsOK, CallOK

LEMMA EndsOK ==
  ASSUME CallsOK(calls), NEW i \in Slots, ends(i)
  PROVE  CallsOK(calls')
<1>1. CallOK(newCall("list", NoThread))
  BY NewCallOK
<1>2. CallOK(NoCall)
  BY <1>1 DEF CallOK, NoCall, newCall, Call
<1>. QED BY <1>2, SetCallOK DEF ends

LEMMA BeginsOK ==
  ASSUME LInv, begins
  PROVE  budget' \in [user : 0..UserBudget, threads : 0..ThreadBudget]
BY ThreadListAssumption DEF LInv, RefsOK, begins

-------------------------------------------------------------------------------
\* What the user begins

LEMMA CallStep ==
  ASSUME LInv, begins, NEW c, CallOK(c), calling(c),
         loaded' \subseteq Threads, replace' \subseteq Threads, paging' \in BOOLEAN,
         Good(page', dropped),
         UNCHANGED <<thread, events, skip, told, overtaken, dropped, unseen>>,
         unarchived' \subseteq unarchived
  PROVE  LInv'
<1>1. CallsOK(calls')
  BY CallingOK DEF LInv
<1>2. RefsOK'
  BY BeginsOK DEF LInv, RefsOK
<1>3. ThreadsOK' /\ EventsOK' /\ HistoryOK' /\ dropped' = dropped
  BY DEF LInv, ThreadsOK, EventsOK, HistoryOK, historyVars
<1>. QED BY <1>1, <1>2, <1>3 DEF LInv

LEMMA PageOK ==
  ASSUME LInv
  PROVE  /\ Good(page, dropped) /\ page \in Pages /\ page.list \subseteq Threads
         /\ page.active \in Threads \cup {NoThread} /\ page.processing \subseteq Threads
         /\ page.linked \subseteq Threads /\ page.items \in [Threads -> SUBSET Items]
         /\ page.turn \in [Threads -> Turns]
         /\ loaded \subseteq Threads /\ replace \subseteq Threads /\ skip \subseteq Threads
         /\ paging \in BOOLEAN
BY DEF LInv, Good, Pages, RefsOK

LEMMA UserSteps ==
  ASSUME LInv,
         \/ startThread \/ refreshThread \/ loadOlderThreads
         \/ \E t \in Threads : forkThread(t) \/ selectThread(t) \/ removeThread(t)
         \/ \E preserveState, resets \in BOOLEAN : listThreads(preserveState, resets)
  PROVE  LInv'
<1>. USE PageOK
<1>1. CASE startThread
  <2>1. CallOK(newCall("start", NoThread))
    BY NewCallOK
  <2>. QED BY <1>1, <2>1, CallStep DEF startThread, refs, historyVars
<1>2. CASE refreshThread
  <2>1. page.active \in Threads
    BY <1>2 DEF refreshThread
  <2>2. CallOK(resume(page.active, page.items[page.active], TRUE))
    BY <2>1, ResumeOK
  <2>. QED BY <1>2, <2>1, <2>2, CallStep DEF refreshThread, historyVars
<1>3. CASE loadOlderThreads
  <2>1. CallOK(newCall("older", NoThread))
    BY NewCallOK
  <2>2. CallOK([newCall("older", NoThread) EXCEPT !.list = page.list])
    BY <2>1 DEF CallOK, newCall, Call
  <2>. QED BY <1>3, <2>2, CallStep DEF loadOlderThreads, refs, historyVars
<1>4. ASSUME NEW t \in Threads, forkThread(t)
      PROVE  LInv'
  <2>1. CallOK(newCall("fork", t))
    BY NewCallOK
  <2>. QED BY <1>4, <2>1, CallStep DEF forkThread, refs, historyVars
<1>5. ASSUME NEW t \in Threads, selectThread(t)
      PROVE  LInv'
  <2>1. Good(page', dropped)
    BY <1>5, ActiveGood DEF selectThread, Here
  <2>2. CASE t \in loaded \/ page.items[t] # {}
    <3>1. /\ UNCHANGED <<thread, events, calls, replace, skip, paging, historyVars>>
          /\ loaded' \subseteq Threads /\ begins
      BY <1>5, <2>2 DEF selectThread
    <3>2. RefsOK'
      BY <3>1, BeginsOK DEF RefsOK
    <3>. QED BY <2>1, <3>1, <3>2 DEF LInv, ThreadsOK, EventsOK, HistoryOK, historyVars
  <2>3. CASE ~(t \in loaded \/ page.items[t] # {})
    <3>1. CallOK(resume(t, {}, FALSE))
      BY ResumeOK
    <3>. QED BY <1>5, <2>1, <2>3, <3>1, CallStep DEF selectThread, historyVars
  <2>. QED BY <2>2, <2>3
<1>6. ASSUME NEW t \in Threads, removeThread(t)
      PROVE  LInv'
  <2>1. Good(page', dropped)
    BY <1>6, HideGood DEF removeThread
  <2>2. CallOK(newCall("archive", t))
    BY NewCallOK
  <2>. QED BY <1>6, <2>1, <2>2, CallStep DEF removeThread, refs
<1>7. ASSUME NEW preserveState \in BOOLEAN, NEW resets \in BOOLEAN,
             listThreads(preserveState, resets)
      PROVE  LInv'
  <2>. DEFINE c == [newCall("list", NoThread) EXCEPT !.list = page.list,
                      !.linked = page.linked,
                      !.keep = ({page.active} \cap Threads) \cup page.processing]
  <2>1. CallOK(newCall("list", NoThread))
    BY NewCallOK
  <2>2. CallOK(c)
    BY <2>1 DEF CallOK, newCall, Call
  <2>3. Good(page', dropped)
    BY <1>7, CursorGood DEF listThreads
  <2>4. begins /\ calling(c) /\ UNCHANGED <<thread, events, replace, skip, paging, historyVars>>
        /\ loaded' \subseteq Threads
    BY <1>7 DEF listThreads
  <2>. HIDE DEF c
  <2>. QED BY <2>2, <2>3, <2>4, CallStep DEF historyVars
<1>. QED BY <1>1, <1>2, <1>3, <1>4, <1>5, <1>6, <1>7

-------------------------------------------------------------------------------
\* What the threads do, and what the server answers

LEMMA SendsOK ==
  ASSUME EventsOK, NEW e \in Events, sends(e)
  PROVE  EventsOK'
BY ThreadListAssumption DEF EventsOK, sends

LEMMA EventOK ==
  ASSUME NEW t \in Threads
  PROVE  /\ \A n \in Turns, kind \in {"started", "archived", "unarchived", "turnStarted",
                                      "turnCompleted"} : event(kind, t, n) \in Events
         /\ \A n \in Items, kind \in {"itemStarted", "itemCompleted"} :
              event(kind, t, n) \in Events
BY DEF event, Events

LEMMA HappensStep ==
  ASSUME LInv, NEW t \in Threads, Happens(t)
  PROVE  LInv'
<1>. DEFINE x == thread[t]
<1>1. /\ thread \in [Threads -> ExternalThread] /\ x \in ExternalThread /\ EventsOK
      /\ 0 \in Turns
  BY ThreadListAssumption DEF LInv, ThreadsOK, Turns
<1>2. /\ x.exists \in BOOLEAN /\ x.archived \in BOOLEAN /\ x.runs \in BOOLEAN
      /\ x.said \in 0..MaxItems /\ x.turns \in Turns
  BY <1>1 DEF ExternalThread
<1>. HIDE DEF x
<1>3. budget' \in [user : 0..UserBudget, threads : 0..ThreadBudget]
  BY ThreadListAssumption DEF Happens, LInv, RefsOK
<1>4. ThreadsOK' /\ EventsOK'
  <2>1. CASE ~x.exists /\ thread' = [thread EXCEPT ![t].exists = TRUE]
             /\ sends(event("started", t, 0))
    BY <1>1, <2>1, EventOK, SendsOK DEF ThreadsOK, ExternalThread
  <2>2. CASE /\ x.turns < MaxTurns
             /\ thread' = [thread EXCEPT ![t].turns = @ + 1, ![t].runs = TRUE]
             /\ sends(event("turnStarted", t, x.turns + 1))
    <3>1. x.turns + 1 \in Turns
      BY <1>2, <2>2, ThreadListAssumption DEF Turns
    <3>2. event("turnStarted", t, x.turns + 1) \in Events
      BY <3>1, EventOK
    <3>3. EventsOK'
      BY <1>1, <2>2, <3>2, SendsOK
    <3>. QED BY <1>1, <2>2, <3>1, <3>3 DEF ThreadsOK, ExternalThread, x
  <2>3. CASE /\ x.said < MaxItems
             /\ thread' = [thread EXCEPT ![t].said = @ + 1]
             /\ \E kind \in {"itemStarted", "itemCompleted"} :
                  sends(event(kind, t, x.said + 1))
    <3>1. x.said + 1 \in Items /\ x.said + 1 \in 0..MaxItems
      BY <1>2, <2>3, ThreadListAssumption DEF Items
    <3>2. PICK kind \in {"itemStarted", "itemCompleted"} : sends(event(kind, t, x.said + 1))
      BY <2>3
    <3>3. event(kind, t, x.said + 1) \in Events
      BY <3>1, EventOK
    <3>4. EventsOK'
      BY <1>1, <3>2, <3>3, SendsOK
    <3>. QED BY <1>1, <2>3, <3>1, <3>4 DEF ThreadsOK, ExternalThread, x
  <2>4. CASE /\ thread' = [thread EXCEPT ![t].runs = FALSE]
             /\ sends(event("turnCompleted", t, x.turns))
    <3>1. event("turnCompleted", t, x.turns) \in Events
      BY <1>2, EventOK
    <3>2. EventsOK'
      BY <1>1, <2>4, <3>1, SendsOK
    <3>. QED BY <1>1, <2>4, <3>2 DEF ThreadsOK, ExternalThread
  <2>5. CASE /\ thread' = [thread EXCEPT ![t].archived = ~@]
             /\ sends(event(IF x.archived THEN "unarchived" ELSE "archived", t, 0))
    <3>1. event(IF x.archived THEN "unarchived" ELSE "archived", t, 0) \in Events
      BY <1>1, EventOK
    <3>2. EventsOK'
      BY <1>1, <2>5, <3>1, SendsOK
    <3>. QED BY <1>1, <2>5, <3>2 DEF ThreadsOK, ExternalThread
  <2>. QED BY <2>1, <2>2, <2>3, <2>4, <2>5 DEF Happens, x
<1>5. UNCHANGED <<calls, page, refs, paging, historyVars>>
  BY DEF Happens
<1>. QED BY <1>3, <1>4, <1>5 DEF LInv, RefsOK, HistoryOK, CallsOK, refs, historyVars

\* An answer says how many events were on their way.
LEMMA AnswersOK ==
  ASSUME CallsOK(calls), NEW i \in Slots, NEW a, a \in Call,
         a.asks \in {"start", "fork", "resume", "archive", "cascade"} => a.thread \in Threads,
         EventsOK', answers(i, a)
  PROVE  CallsOK(calls')
<1>. DEFINE b == [a EXCEPT !.at = "answered", !.before = Len(events')]
<1>1. Len(events') \in 0..MaxEvents
  BY ThreadListAssumption DEF EventsOK
<1>2. CallOK(b)
  BY <1>1 DEF CallOK, Call
<1>3. calls' = [calls EXCEPT ![i] = b]
  BY DEF answers
<1>. HIDE DEF b
<1>. QED BY <1>2, <1>3, SetCallOK

LEMMA ServeStep ==
  ASSUME LInv, Serve
  PROVE  LInv'
<1>. SUFFICES ThreadsOK' /\ EventsOK' /\ CallsOK(calls')
  BY DEF Serve, LInv, RefsOK, HistoryOK, refs, historyVars
<1>1. PICK i \in Slots :
        /\ calls[i].at = "sent"
        /\ serveNew(i) \/ serveResume(i) \/ serveList(i) \/ serveArchive(i)
  BY DEF Serve
<1>. DEFINE c == calls[i]
<1>2. /\ CallsOK(calls) /\ c \in Call /\ CallOK(c) /\ ThreadsOK /\ EventsOK
      /\ thread \in [Threads -> ExternalThread] /\ 0 \in Turns /\ 0 \in 0..MaxItems
      /\ \A t \in Threads : thread[t].said \in 0..MaxItems /\ thread[t].turns \in Turns
  BY ThreadListAssumption DEF LInv, CallsOK, ThreadsOK, ExternalThread, Turns
<1>3. CASE serveNew(i)
  <2>1. PICK t \in fresh :
          /\ thread' = [thread EXCEPT ![t].exists = TRUE,
                          ![t].said = IF c.asks = "fork" THEN thread[c.thread].said ELSE 0]
          /\ sends(event("started", t, 0))
          /\ answers(i, [c EXCEPT !.thread = t])
    BY <1>3 DEF serveNew
  <2>2. t \in Threads
    BY DEF fresh
  <2>3. EventsOK'
    BY <1>2, <2>1, <2>2, EventOK, SendsOK
  <2>4. ThreadsOK'
    <3>. DEFINE n == IF c.asks = "fork" THEN thread[c.thread].said ELSE 0
                y == [thread[t] EXCEPT !.exists = TRUE, !.said = n]
    <3>1. n \in 0..MaxItems
      BY <1>2 DEF CallOK
    <3>2. thread' = [thread EXCEPT ![t] = y]
      BY <1>2, <2>1, <2>2
    <3>. HIDE DEF n
    <3>3. thread[t] \in ExternalThread
      BY <1>2, <2>2
    <3>4. y \in ExternalThread
      BY <3>1, <3>3 DEF ExternalThread
    <3>. HIDE DEF y
    <3>. QED BY <1>2, <3>2, <3>4 DEF ThreadsOK
  <2>5. [c EXCEPT !.thread = t] \in Call /\ [c EXCEPT !.thread = t].thread \in Threads
    BY <1>2, <2>2 DEF Call
  <2>6. CallsOK(calls')
    BY <1>2, <2>1, <2>3, <2>5, AnswersOK
  <2>. QED BY <2>3, <2>4, <2>6
<1>4. CASE serveResume(i)
  <2>1. PICK sure \in BOOLEAN :
          answers(i, [c EXCEPT !.items = 1..thread[c.thread].said,
                        !.turn = IF thread[c.thread].runs THEN thread[c.thread].turns ELSE 0,
                        !.sure = sure])
    BY <1>4 DEF serveResume
  <2>2. c.thread \in Threads /\ UNCHANGED <<thread, events>>
    BY <1>2, <1>4 DEF serveResume, CallOK
  <2>3. ThreadsOK' /\ EventsOK'
    BY <1>2, <2>2 DEF ThreadsOK, EventsOK
  <2>4. /\ 1..thread[c.thread].said \in SUBSET Items
        /\ (IF thread[c.thread].runs THEN thread[c.thread].turns ELSE 0) \in Turns
    <3>. DEFINE k == thread[c.thread].said
    <3>1. k \in 0..MaxItems /\ thread[c.thread].turns \in Turns
      BY <1>2, <2>2
    <3>. HIDE DEF k
    <3>2. 1..k \in SUBSET Items
      BY <3>1, ThreadListAssumption DEF Items
    <3>. QED BY <1>2, <3>1, <3>2 DEF k
  <2>. DEFINE is == 1..thread[c.thread].said
              n == IF thread[c.thread].runs THEN thread[c.thread].turns ELSE 0
              a == [c EXCEPT !.items = is, !.turn = n, !.sure = sure]
  <2>. HIDE DEF is, n
  <2>5. a \in Call /\ a.thread \in Threads
    BY <1>2, <2>2, <2>4 DEF Call, is, n
  <2>6. answers(i, a)
    BY <2>1 DEF is, n
  <2>. HIDE DEF a
  <2>7. CallsOK(calls')
    BY <1>2, <2>3, <2>5, <2>6, AnswersOK
  <2>. QED BY <2>3, <2>7
<1>5. CASE serveList(i)
  <2>1. PICK data \in SUBSET Threads, sure \in BOOLEAN :
          answers(i, [c EXCEPT !.data = data, !.sure = sure])
    BY <1>5 DEF serveList
  <2>. DEFINE a == [c EXCEPT !.data = data, !.sure = sure]
  <2>2. c.asks \in {"list", "older"} /\ UNCHANGED <<thread, events>>
    BY <1>5 DEF serveList
  <2>3. ThreadsOK' /\ EventsOK'
    BY <1>2, <2>2 DEF ThreadsOK, EventsOK
  <2>4. a \in Call /\ a.asks = c.asks
    BY <1>2 DEF Call
  <2>. HIDE DEF a
  <2>5. CallsOK(calls')
    BY <1>2, <2>1, <2>2, <2>3, <2>4, AnswersOK DEF a
  <2>. QED BY <2>3, <2>5
<1>6. CASE serveArchive(i)
  <2>. DEFINE t == c.thread
  <2>1. t \in Threads
    BY <1>2, <1>6 DEF serveArchive, CallOK
  <2>2. EventsOK'
    BY <1>2, <1>6, <2>1, EventOK, SendsOK DEF serveArchive
  <2>3. ThreadsOK'
    <3>1. thread' = [thread EXCEPT ![t].archived = TRUE]
      BY <1>6 DEF serveArchive
    <3>2. thread[t] \in ExternalThread
      BY <1>2, <2>1
    <3>3. [thread[t] EXCEPT !.archived = TRUE] \in ExternalThread
      BY <3>2 DEF ExternalThread
    <3>. QED BY <1>2, <2>1, <3>1, <3>3 DEF ThreadsOK
  <2>4. CallsOK(calls')
    BY <1>2, <1>6, <2>1, <2>2, AnswersOK DEF serveArchive
  <2>. QED BY <2>2, <2>3, <2>4
<1>. QED BY <1>1, <1>3, <1>4, <1>5, <1>6

-------------------------------------------------------------------------------
\* Answers are handled

\* A callback that changes nothing of the server, and keeps the page good
LEMMA PageStep ==
  ASSUME LInv, UNCHANGED <<thread, events, budget>>, CallsOK(calls'), Good(page', dropped'),
         loaded' \subseteq Threads, replace' \subseteq Threads, skip' \subseteq Threads,
         paging' \in BOOLEAN, told' \in [Threads -> SUBSET Items],
         overtaken' \subseteq Threads, dropped' \subseteq Threads,
         unseen' \subseteq Threads, unarchived' \subseteq Threads
  PROVE  LInv'
BY DEF LInv, ThreadsOK, EventsOK, RefsOK, HistoryOK

LEMMA HistoryIs ==
  ASSUME LInv
  PROVE  /\ told \in [Threads -> SUBSET Items] /\ overtaken \subseteq Threads
         /\ dropped \subseteq Threads /\ unseen \subseteq Threads
         /\ unarchived \subseteq Threads
BY DEF LInv, HistoryOK

\* The thread of an answer is shown and comes into view.
LEMMA ShownGood ==
  ASSUME NEW d, NEW s, Good(s, d), NEW t \in Threads
  PROVE  Good(setActiveThreadId(ensureThread(s, t), t), d)
BY EnsureGood, ActiveGood

LEMMA CallIs ==
  ASSUME LInv, NEW i \in Slots
  PROVE  /\ CallsOK(calls) /\ calls[i] \in Call /\ CallOK(calls[i])
         /\ calls[i].thread \in Threads \cup {NoThread}
         /\ calls[i].data \subseteq Threads /\ calls[i].list \subseteq Threads
         /\ calls[i].keep \subseteq Threads /\ calls[i].rest \subseteq Threads
         /\ calls[i].items \in SUBSET Items /\ calls[i].local \in SUBSET Items
         /\ calls[i].turn \in Turns /\ calls[i].sure \in BOOLEAN
         /\ calls[i].before \in 0..MaxEvents /\ calls[i].behind \in BOOLEAN
BY DEF LInv, CallsOK, CallOK, Call

LEMMA ResumedStep ==
  ASSUME LInv, NEW i \in Slots, resumed(i), UNCHANGED <<thread, events, budget>>
  PROVE  LInv'
<1>. USE PageOK, HistoryIs, CallIs
<1>. DEFINE c == calls[i]
            t == c.thread
            keeps == keepLocalProcessing(c)
            turn == IF keeps THEN page.turn[t] ELSE c.turn
            is == mergedItems(c, c.replaces \/ t \in replace)
            p == link(ensureThread(page, t), {t})
            q == setActiveTurnId(markProcessing(p, t, keeps \/ turn # 0), t, turn)
<1>1. t \in Threads
  BY DEF resumed, CallOK
<1>2. keeps \in BOOLEAN /\ turn \in Turns
  BY <1>1 DEF keepLocalProcessing
<1>3. is \in SUBSET Items
  BY DEF mergedItems
<1>4. Good(p, dropped) /\ Here(p, t)
  <2>1. Good(ensureThread(page, t), dropped) /\ Here(ensureThread(page, t), t)
    BY <1>1, EnsureGood
  <2>. QED BY <1>1, <2>1, LinkGood
<1>5. page' = IF is = {} THEN q ELSE setThreadItems(q, t, is)
  BY DEF resumed
<1>. HIDE DEF p, keeps, turn, is
<1>6. Good(q, dropped)
  <2>. DEFINE on == keeps \/ turn # 0
  <2>1. on \in BOOLEAN
    BY <1>2
  <2>. HIDE DEF on
  <2>2. Good(markProcessing(p, t, on), dropped)
    BY <1>1, <1>4, <2>1, MarkGood
  <2>. QED BY <1>1, <1>2, <2>2, TurnGood DEF on
<1>. HIDE DEF q
<1>7. Good(page', dropped)
  BY <1>1, <1>3, <1>5, <1>6, ItemsGood
<1>8. CallsOK(calls')
  BY EndsOK DEF resumed
<1>9. /\ loaded' \subseteq Threads /\ replace' \subseteq Threads
      /\ skip' = skip /\ paging' = paging /\ dropped' = dropped
      /\ unseen' \subseteq Threads /\ unarchived' = unarchived
      /\ told' \in [Threads -> SUBSET Items] /\ overtaken' \subseteq Threads
  BY <1>1 DEF resumed
<1>. QED BY <1>7, <1>8, <1>9, PageStep

LEMMA ListedStep ==
  ASSUME LInv, NEW i \in Slots, listed(i), UNCHANGED <<thread, events, budget>>
  PROVE  LInv'
<1>. USE PageOK, HistoryIs, CallIs
<1>. DEFINE c == calls[i]
            more == (Cardinality(c.data) > Target) \/ ~c.sure
<1>1. PICK latest \in SUBSET c.data :
        page' = [setThreadsAnchored(link(page, c.data), summaries(c, latest))
                   EXCEPT !.cursor = more]
  BY DEF listed
<1>2. summaries(c, latest) \in SUBSET Threads
  BY DEF summaries
<1>3. Good(link(page, c.data), dropped)
  BY LinkGood
<1>4. Good(setThreadsAnchored(link(page, c.data), summaries(c, latest)), dropped)
  BY <1>2, <1>3, AnchoredGood
<1>5. more \in BOOLEAN
  OBVIOUS
<1>. HIDE DEF more
<1>6. Good(page', dropped)
  BY <1>1, <1>4, <1>5, CursorGood
<1>7. CallsOK(calls') /\ UNCHANGED <<refs, paging, historyVars>>
  BY EndsOK DEF listed, refs
<1>. QED BY <1>6, <1>7, PageStep DEF refs, historyVars

\* What the older list takes off is in `dropped`, so that the running threads among it are.
LEMMA ListedOlderStep ==
  ASSUME LInv, NEW i \in Slots, listedOlder(i), UNCHANGED <<thread, events, budget>>
  PROVE  LInv'
<1>. USE PageOK, HistoryIs, CallIs
<1>. DEFINE c == calls[i]
            s == link(page, c.data \ c.list)
            all == c.list \cup c.data
            more == ~c.sure
<1>1. Good(s, dropped) /\ s.list = page.list
  BY LinkGood DEF link, Pages
<1>2. all \in SUBSET Threads /\ more \in BOOLEAN
  OBVIOUS
<1>3. dropped' = dropped \cup (page.list \ page'.list)
  BY DEF listedOlder
<1>4. Good(page', dropped')
  <2>1. CASE page' = [s EXCEPT !.cursor = more]
    <3>. HIDE DEF s, more
    <3>1. Good(page', dropped)
      BY <1>1, <1>2, <2>1, CursorGood
    <3>. QED BY <1>3, <3>1, MoreDropped
  <2>2. ASSUME NEW first \in firstOf(visible(s, all)),
               page' = [setThreads(s, all, first) EXCEPT !.cursor = more]
        PROVE  Good(page', dropped')
    <3>. DEFINE p == setThreads(s, all, first)
                e == dropped \cup (s.list \ p.list)
    <3>. HIDE DEF s, all, more
    <3>1. Good(p, e)
      BY <1>1, <1>2, <2>2, ThreadsGood
    <3>2. p \in Pages
      BY <3>1 DEF Good
    <3>. HIDE DEF p, e
    <3>3. page' = [p EXCEPT !.cursor = more]
      BY <2>2 DEF p
    <3>4. page'.list = p.list
      BY <3>2, <3>3 DEF Pages
    <3>5. Good(page', e)
      BY <1>2, <3>1, <3>3, CursorGood
    <3>6. dropped' = e
      BY <1>1, <1>3, <3>4 DEF e
    <3>. QED BY <3>5, <3>6
  <2>. QED BY <2>1, <2>2 DEF listedOlder
<1>5. /\ CallsOK(calls') /\ paging' = FALSE
      /\ UNCHANGED <<loaded, replace, skip, told, overtaken, unseen, unarchived>>
  BY EndsOK DEF listedOlder
<1>6. dropped' \subseteq Threads
  BY <1>3
<1>. QED BY <1>4, <1>5, <1>6, PageStep

LEMMA CascadeOK ==
  ASSUME NEW ts \in SUBSET Threads, NEW d \in archiveOneOf(ts)
  PROVE  CallOK(d) /\ d.thread \in Threads
<1>1. PICK t \in ts : d = [newCall("cascade", t) EXCEPT !.rest = ts \ {t}]
  BY DEF archiveOneOf
<1>2. CallOK(newCall("cascade", t))
  BY NewCallOK
<1>. QED BY <1>1, <1>2 DEF CallOK, newCall, Call

LEMMA ArchivedStep ==
  ASSUME LInv, NEW i \in Slots, NEW failure \in BOOLEAN, archived(i, failure),
         UNCHANGED <<thread, events, budget>>
  PROVE  LInv'
<1>. USE PageOK, HistoryIs, CallIs
<1>1. CallsOK(calls') /\ skip' \subseteq Threads
  <2>1. CASE ends(i) /\ (UNCHANGED skip \/ skip' \subseteq skip)
    BY <2>1, EndsOK
  <2>2. ASSUME NEW d \in archiveOneOf(calls[i].rest), calls' = [calls EXCEPT ![i] = d],
               skip' \subseteq skip \cup {d.thread}
        PROVE  CallsOK(calls') /\ skip' \subseteq Threads
    <3>1. CallOK(d) /\ d.thread \in Threads
      BY CascadeOK
    <3>. QED BY <2>2, <3>1, SetCallOK
  <2>. QED BY <2>1, <2>2 DEF archived
<1>2. UNCHANGED <<page, loaded, replace, paging, historyVars>>
  BY DEF archived
<1>. QED BY <1>1, <1>2, PageStep DEF historyVars

LEMMA AnsweredStep ==
  ASSUME LInv, Answered
  PROVE  LInv'
<1>. USE PageOK, HistoryIs, CallIs
<1>1. UNCHANGED <<thread, events, budget>>
  BY DEF Answered
<1>2. PICK i \in Slots :
        /\ calls[i].at = "answered"
        /\ \/ started(i) \/ forked(i) \/ resumed(i) \/ listed(i) \/ listedOlder(i)
           \/ archived(i, FALSE)
  BY DEF Answered
<1>. DEFINE t == calls[i].thread
<1>3. CASE started(i)
  <2>1. t \in Threads
    BY <1>2, <1>3 DEF started, CallOK
  <2>2. Good(page', dropped)
    BY <1>3, <2>1, ShownGood DEF started
  <2>3. CallsOK(calls')
    BY <1>3, EndsOK DEF started
  <2>. QED BY <1>1, <1>3, <2>1, <2>2, <2>3, PageStep DEF started, historyVars
<1>4. CASE forked(i)
  <2>1. t \in Threads
    BY <1>4 DEF forked, CallOK
  <2>2. Good(page', dropped)
    BY <1>4, <2>1, ShownGood DEF forked
  <2>3. CallsOK(calls')
    <3>1. CallOK(resume(t, {}, TRUE))
      BY <2>1, ResumeOK
    <3>. QED BY <1>4, <3>1, SetCallOK DEF forked
  <2>. QED BY <1>1, <1>4, <2>2, <2>3, PageStep DEF forked, historyVars
<1>. QED BY <1>1, <1>2, <1>3, <1>4, ResumedStep, ListedStep, ListedOlderStep, ArchivedStep

LEMMA FailsStep ==
  ASSUME LInv, Fails
  PROVE  LInv'
<1>. USE PageOK, HistoryIs, CallIs
<1>1. UNCHANGED <<thread, events, budget>>
  BY DEF Fails
<1>2. PICK i \in Slots : failed(i) \/ archived(i, TRUE)
  BY DEF Fails
<1>3. CASE failed(i)
  BY <1>1, <1>3, EndsOK, PageStep DEF failed, refs, historyVars
<1>. QED BY <1>1, <1>2, <1>3, ArchivedStep

-------------------------------------------------------------------------------
\* Events are handled

LEMMA PassedOK ==
  ASSUME LInv, NEW t
  PROVE  CallsOK(passed(t))
<1>1. ASSUME NEW i \in Slots
      PROVE  CallOK(passed(t)[i])
  <2>. DEFINE c == calls[i]
              b == [c EXCEPT !.before = @ - 1]
              l == [c EXCEPT !.behind = @ \/ c.thread = t]
  <2>1. CallOK(c) /\ c \in Call /\ c.before \in 0..MaxEvents /\ c.behind \in BOOLEAN
    BY CallIs
  <2>2. c.before > 0 => CallOK(b)
    <3>1. c.before > 0 => c.before - 1 \in 0..MaxEvents
      BY <2>1, ThreadListAssumption
    <3>. QED BY <2>1, <3>1 DEF CallOK, Call
  <2>3. CallOK(l)
    <3>. DEFINE v == c.behind \/ c.thread = t
    <3>1. v \in BOOLEAN
      BY <2>1
    <3>2. l = [c EXCEPT !.behind = v]
      BY <2>1
    <3>. HIDE DEF v, l
    <3>. QED BY <2>1, <3>1, <3>2 DEF CallOK, Call
  <2>4. passed(t)[i] = IF c.at # "answered" THEN c ELSE IF c.before > 0 THEN b ELSE l
    BY <1>1 DEF passed
  <2>. HIDE DEF c, b, l
  <2>. QED BY <2>1, <2>2, <2>3, <2>4
<1>2. passed(t) = [i \in Slots |-> passed(t)[i]]
  BY DEF passed
<1>. HIDE DEF passed
<1>. QED BY <1>1, <1>2 DEF CallsOK, CallOK

LEMMA EventIs ==
  ASSUME LInv, events # <<>>
  PROVE  /\ Head(events) \in Events /\ Head(events).thread \in Threads
         /\ Head(events).kind \in {"turnStarted", "turnCompleted"} => Head(events).n \in Turns
         /\ Head(events).kind \in {"itemStarted", "itemCompleted"} => Head(events).n \in Items
         /\ Tail(events) \in Seq(Events) /\ Len(Tail(events)) <= MaxEvents
<1>1. events \in Seq(Events) /\ Len(events) <= MaxEvents /\ MaxEvents \in Nat
  BY ThreadListAssumption DEF LInv, EventsOK
<1>2. Head(events) \in Events /\ Tail(events) \in Seq(Events)
  BY <1>1
<1>3. Len(Tail(events)) <= MaxEvents
  BY <1>1
<1>. QED BY <1>2, <1>3 DEF Events

LEMMA OnEventStep ==
  ASSUME LInv, OnEvent
  PROVE  LInv'
<1>. USE PageOK, HistoryIs
<1>. DEFINE e == Head(events)
            t == e.thread
<1>1. /\ events' \in Seq(Events) /\ Len(events') <= MaxEvents /\ t \in Threads
      /\ e.kind \in {"turnStarted", "turnCompleted"} => e.n \in Turns
      /\ e.kind \in {"itemStarted", "itemCompleted"} => e.n \in Items
      /\ UNCHANGED <<thread, loaded, replace, paging, budget, overtaken, dropped>>
  BY EventIs DEF OnEvent
<1>. SUFFICES /\ Good(page', dropped) /\ CallsOK(calls') /\ skip' \subseteq Threads
              /\ told' \in [Threads -> SUBSET Items]
  <2>1. unseen' \subseteq Threads /\ unarchived' \subseteq Threads
    BY <1>1 DEF OnEvent
  <2>. QED BY <1>1, <2>1 DEF LInv, ThreadsOK, EventsOK, RefsOK, HistoryOK
<1>2. CallsOK(passed(t))
  BY PassedOK
<1>3. Good(ensureThread(page, t), dropped) /\ Here(ensureThread(page, t), t)
  BY <1>1, EnsureGood
<1>4. 0 \in Turns
  BY ThreadListAssumption DEF Turns
<1>. HIDE DEF e, t
<1>5. CASE onThreadStarted(t)
  <2>1. Good(page', dropped)
    <3>1. Good(link(ensureThread(page, t), {t}), dropped)
      BY <1>1, <1>3, LinkGood
    <3>. QED BY <1>5, <3>1 DEF onThreadStarted
  <2>. QED BY <1>2, <1>5, <2>1 DEF onThreadStarted
<1>6. CASE onThreadArchived(t)
  <2>1. Good(page', dropped)
    BY <1>1, <1>6, HideGood DEF onThreadArchived
  <2>2. CASE skip' = skip \ {t} /\ calls' = passed(t)
    BY <1>2, <1>6, <2>1, <2>2 DEF onThreadArchived
  <2>3. ASSUME NEW d \in archiveOneOf(descendants(t)), NEW i \in Slots,
               calls' = [passed(t) EXCEPT ![i] = d], skip' = skip \cup {d.thread}
        PROVE  CallsOK(calls') /\ skip' \subseteq Threads
    <3>1. CallOK(d) /\ d.thread \in Threads
      BY CascadeOK DEF descendants
    <3>2. CallsOK(calls')
      <4>. DEFINE cs == passed(t)
      <4>1. CallsOK(cs) /\ calls' = [cs EXCEPT ![i] = d]
        BY <1>2, <2>3
      <4>. HIDE DEF cs
      <4>. QED BY <3>1, <4>1 DEF CallsOK, CallOK
    <3>. QED BY <2>3, <3>1, <3>2
  <2>. QED BY <1>6, <2>1, <2>2, <2>3 DEF onThreadArchived
<1>7. CASE onThreadUnarchived(t)
  BY <1>2, <1>3, <1>7 DEF onThreadUnarchived
<1>8. CASE e.kind = "turnStarted" /\ onTurnStarted(t, e.n)
  <2>1. Good(markProcessing(ensureThread(page, t), t, TRUE), dropped)
    BY <1>1, <1>3, MarkGood
  <2>2. Good(page', dropped)
    BY <1>1, <1>8, <2>1, TurnGood DEF onTurnStarted
  <2>. QED BY <1>2, <1>8, <2>2 DEF onTurnStarted
<1>9. CASE e.kind = "turnCompleted" /\ onTurnCompleted(t, e.n)
  <2>1. Good(markProcessing(ensureThread(page, t), t, FALSE), dropped)
    BY <1>1, <1>3, MarkGood
  <2>2. Good(setActiveTurnId(markProcessing(ensureThread(page, t), t, FALSE), t, 0), dropped)
    BY <1>1, <1>4, <2>1, TurnGood
  <2>. QED BY <1>2, <1>9, <2>2 DEF onTurnCompleted
<1>10. ASSUME NEW starts \in BOOLEAN, handleItemUpdate(t, e.n, starts), e.n \in Items
       PROVE  /\ Good(page', dropped) /\ CallsOK(calls') /\ skip' \subseteq Threads
              /\ told' \in [Threads -> SUBSET Items]
  <2>. DEFINE s == ensureThread(page, t)
              m == IF starts THEN markProcessing(s, t, TRUE) ELSE s
  <2>1. Good(m, dropped)
    BY <1>1, <1>3, MarkGood
  <2>2. page' = upsertItem(m, t, e.n)
    BY <1>10 DEF handleItemUpdate
  <2>. HIDE DEF m
  <2>3. Good(page', dropped)
    BY <1>1, <1>10, <2>1, <2>2, UpsertGood
  <2>. QED BY <1>1, <1>2, <1>10, <2>3 DEF handleItemUpdate
<1>. QED BY <1>1, <1>5, <1>6, <1>7, <1>8, <1>9, <1>10 DEF OnEvent, e, t

-------------------------------------------------------------------------------
LEMMA InitLInv == Init => LInv
<1>. SUFFICES ASSUME Init PROVE LInv
  OBVIOUS
<1>1. /\ 0 \in Turns /\ 1 \in Turns /\ 0 \in 0..MaxItems /\ Said \in 0..MaxItems
  BY ThreadListAssumption DEF Turns
<1>2. ThreadsOK
  BY <1>1 DEF Init, ThreadsOK, ExternalThread
<1>3. EventsOK
  BY ThreadListAssumption DEF Init, EventsOK
<1>4. CallsOK(calls)
  <2>1. CallOK(newCall("list", NoThread))
    BY NewCallOK
  <2>2. CallOK(NoCall)
    BY <2>1 DEF CallOK, NoCall, newCall, Call
  <2>. QED BY <2>2 DEF Init, CallsOK, CallOK
<1>5. Good(page, dropped)
  BY <1>1 DEF Init, Good, Pages
<1>6. RefsOK
  <2>1. UserBudget \in 0..UserBudget /\ ThreadBudget \in 0..ThreadBudget
    BY ThreadListAssumption
  <2>. QED BY <2>1 DEF Init, RefsOK
<1>7. HistoryOK
  BY ThreadListAssumption DEF Init, HistoryOK
<1>. QED BY <1>2, <1>3, <1>4, <1>5, <1>6, <1>7 DEF LInv

LEMMA NextLInv == LInv /\ [Next]_vars => LInv'
<1>. SUFFICES ASSUME LInv, [Next]_vars PROVE LInv'
  OBVIOUS
<1>1. CASE Begin
  BY <1>1, UserSteps, HappensStep DEF Begin
<1>2. CASE Serve
  BY <1>2, ServeStep
<1>3. CASE Answered
  BY <1>3, AnsweredStep
<1>4. CASE Fails
  BY <1>4, FailsStep
<1>5. CASE OnEvent
  BY <1>5, OnEventStep
<1>6. CASE UNCHANGED vars
  BY <1>6 DEF vars, refs, historyVars, LInv, ThreadsOK, EventsOK, CallsOK, RefsOK, HistoryOK
<1>. QED BY <1>1, <1>2, <1>3, <1>4, <1>5, <1>6 DEF Next

LEMMA AlwaysLInv == Spec => []LInv
BY InitLInv, NextLInv, PTL DEF Spec

\* The variables keep their types, in every interleaving of calls, answers and events.
THEOREM TypeCorrect == Spec => []TypeOK
<1>1. LInv => TypeOK
  BY DEF LInv, ThreadsOK, EventsOK, CallsOK, Good, RefsOK, HistoryOK, TypeOK
<1>. QED BY <1>1, AlwaysLInv, PTL

\* An archived thread is not listed again, whichever answers and events arrive late.  (It is
\* not even when it is unarchived: `Good` has it without the exception.)
THEOREM StaysAway == Spec => []ArchivedStaysAway
<1>1. LInv => ArchivedStaysAway
  BY DEF LInv, Good, ArchivedStaysAway
<1>. QED BY <1>1, AlwaysLInv, PTL

\* The thread in view and the running threads are on the list whatever lists arrive, unless
\* they are archived, or "Load older" put an older list back.
THEOREM Anchors == Spec => []AnchorsListed
<1>1. LInv => AnchorsListed
  BY DEF LInv, Good, AnchorsListed
<1>. QED BY <1>1, AlwaysLInv, PTL

-------------------------------------------------------------------------------
\* What is shown as running, and the items
\*
\* The events on their way, and where the answers are among them, account for each
\* difference between what the page shows and what the threads have done.

\* Event e is in the queue q, behind the first i.
Ahead(q, i, e) == \E j \in 1..Len(q) : j > i /\ q[j] = e

LastStart(t, x) == event("turnStarted", t, x.turns)
LastEnd(t, x) == event("turnCompleted", t, x.turns)
ItemKinds == {"itemStarted", "itemCompleted"}
ItemAhead(q, i, t, n) == \E kind \in ItemKinds : Ahead(q, i, event(kind, t, n))

\* The i-th event of q, when its thread is x: a later turn's start is behind it; the end
\* of the last turn is the last that is said of turns; and what shows the thread as
\* running is followed by that end, if it does not run.
EventInv(q, i, x) ==
  LET e == q[i]
      t == e.thread
  IN
  /\ e.kind \in {"turnStarted", "turnCompleted"} =>
       e.n <= x.turns /\ (e.n = x.turns \/ Ahead(q, i, LastStart(t, x)))
  /\ e.kind = "turnCompleted" /\ e.n = x.turns => ~x.runs /\ ~Ahead(q, i, LastStart(t, x))
  /\ e.kind \in {"turnStarted", "itemStarted"} /\ ~x.runs => Ahead(q, i, LastEnd(t, x))
  /\ e.kind \in ItemKinds => e.n \in 1..x.said

\* Thread x, with the items the page was told of and those it shows
SaidInv(x, heard, shown) ==
  /\ heard \subseteq 1..x.said /\ shown \subseteq heard
  /\ ~x.exists => x.said = 0 /\ ~x.runs
  /\ x.runs => x.turns # 0

\* The latest of the items that were heard are shown, or come yet.
ItemsInv(q, t, heard, shown) ==
  \A n \in prepareThreadItems(heard) : n \in shown \/ ItemAhead(q, 0, t, n)

\* Thread t, which is x, is shown as running or not (on), with a turn; it may run since
\* before the page was loaded (old).
TurnInv(q, t, x, on, turn, old) ==
  /\ turn \in {0, x.turns} \/ Ahead(q, 0, LastStart(t, x))
  /\ x.runs => on \/ old \/ Ahead(q, 0, LastStart(t, x))
  /\ ~x.runs => ~on \/ Ahead(q, 0, LastEnd(t, x))

\* An answer c of a resume of thread x knows all that is not behind it on its way.
AnswerInv(c, q, x) ==
  LET t == c.thread IN
  /\ \A n \in 1..x.said : n \in c.items \/ ItemAhead(q, c.before, t, n)
  /\ c.turn # 0 => /\ c.turn = x.turns \/ Ahead(q, c.before, LastStart(t, x))
                   /\ c.turn = x.turns /\ ~x.runs => Ahead(q, c.before, LastEnd(t, x))
  /\ c.turn = 0 /\ x.runs => Ahead(q, c.before, LastStart(t, x))

ResumeInv(c, q, x) ==
  /\ c.local \subseteq 1..x.said
  /\ c.at = "answered" =>
       /\ x.exists /\ c.local \subseteq c.items /\ c.items \subseteq 1..x.said
       /\ c.before <= Len(q)
       /\ c.behind \/ AnswerInv(c, q, x)

EventsInv == \A i \in 1..Len(events) : EventInv(events, i, thread[events[i].thread])
SaysInv == \A t \in Threads : SaidInv(thread[t], told[t], page.items[t])
ShownInv == \A t \in Threads \ overtaken : ItemsInv(events, t, told[t], page.items[t])
RunsInv ==
  \A t \in Threads \ (overtaken \cup dropped) :
    TurnInv(events, t, thread[t], t \in page.processing, page.turn[t], t \in unseen)
ResumesInv ==
  \A i \in Slots : calls[i].asks = "resume" =>
    ResumeInv(calls[i], events, thread[calls[i].thread])

SInv == EventsInv /\ SaysInv /\ ShownInv /\ RunsInv /\ ResumesInv

-------------------------------------------------------------------------------
\* What is among the latest items of a set is among those of a smaller one.
LEMMA PrepareKeeps ==
  ASSUME NEW T \in SUBSET Items, NEW S \in SUBSET T
  PROVE  /\ prepareThreadItems(S) \subseteq S
         /\ \A n \in S : n \in prepareThreadItems(T) => n \in prepareThreadItems(S)
<1>1. ASSUME NEW n \in S, n \in prepareThreadItems(T)
      PROVE  n \in prepareThreadItems(S)
  <2>. DEFINE A == {m \in S : m > n}
              B == {m \in T : m > n}
  <2>1. IsFiniteSet(B)
    <3>1. IsFiniteSet(Items)
      BY FS_Interval, ThreadListAssumption DEF Items
    <3>2. B \subseteq Items
      OBVIOUS
    <3>. HIDE DEF B
    <3>. QED BY <3>1, <3>2, FS_Subset
  <2>2. A \subseteq B
    OBVIOUS
  <2>3. Cardinality(B) < Scrollback
    BY <1>1 DEF prepareThreadItems
  <2>. HIDE DEF A, B
  <2>4. /\ Cardinality(A) <= Cardinality(B)
        /\ Cardinality(A) \in Nat /\ Cardinality(B) \in Nat
    BY <2>1, <2>2, FS_Subset, FS_CardinalityType
  <2>5. Cardinality(A) < Scrollback
    BY <2>3, <2>4, ThreadListAssumption
  <2>. QED BY <1>1, <2>5 DEF A, prepareThreadItems
<1>. QED BY <1>1 DEF prepareThreadItems

-------------------------------------------------------------------------------
\* Events and queues

LEMMA EventFields ==
  ASSUME NEW kind, NEW t, NEW n
  PROVE  /\ event(kind, t, n).kind = kind /\ event(kind, t, n).thread = t
         /\ event(kind, t, n).n = n
BY DEF event

LEMMA EventEq ==
  ASSUME NEW e \in Events
  PROVE  e = event(e.kind, e.thread, e.n)
BY DEF event, Events

LEMMA AheadAppend ==
  ASSUME NEW q \in Seq(Events), NEW f \in Events
  PROVE  /\ Append(q, f) \in Seq(Events) /\ Len(Append(q, f)) = Len(q) + 1 /\ Len(q) \in Nat
         /\ Append(q, f)[Len(q) + 1] = f
         /\ \A i \in 1..Len(q) : Append(q, f)[i] = q[i]
         /\ \A i, e : Ahead(q, i, e) => Ahead(Append(q, f), i, e)
         /\ \A i \in 0..Len(q) : Ahead(Append(q, f), i, f)
         /\ \A i, e : Ahead(Append(q, f), i, e) => Ahead(q, i, e) \/ e = f
         /\ \A i, t, n : ItemAhead(q, i, t, n) => ItemAhead(Append(q, f), i, t, n)
<1>. DEFINE r == Append(q, f)
<1>1. /\ r \in Seq(Events) /\ Len(r) = Len(q) + 1 /\ Len(q) \in Nat
      /\ r[Len(q) + 1] = f /\ \A i \in 1..Len(q) : r[i] = q[i]
  OBVIOUS
<1>. HIDE DEF r
<1>2. \A i, e : Ahead(q, i, e) => Ahead(r, i, e)
  BY <1>1 DEF Ahead
<1>3. \A i \in 0..Len(q) : Ahead(r, i, f)
  BY <1>1 DEF Ahead
<1>4. \A i, e : Ahead(r, i, e) => Ahead(q, i, e) \/ e = f
  BY <1>1 DEF Ahead
<1>5. \A i, t, n : ItemAhead(q, i, t, n) => ItemAhead(r, i, t, n)
  BY <1>2 DEF ItemAhead
<1>. QED BY <1>1, <1>2, <1>3, <1>4, <1>5 DEF r

LEMMA AheadTail ==
  ASSUME NEW q \in Seq(Events), q # <<>>
  PROVE  /\ Tail(q) \in Seq(Events) /\ Len(Tail(q)) = Len(q) - 1 /\ Len(q) \in Nat \ {0}
         /\ Head(q) = q[1]
         /\ \A i \in 1..Len(Tail(q)) : Tail(q)[i] = q[i + 1]
         /\ \A i \in Nat : \A e : Ahead(q, i + 1, e) <=> Ahead(Tail(q), i, e)
         /\ \A e : e # Head(q) => (Ahead(q, 0, e) <=> Ahead(Tail(q), 0, e))
<1>. DEFINE r == Tail(q)
<1>1. /\ r \in Seq(Events) /\ Len(r) = Len(q) - 1 /\ Len(q) \in Nat \ {0}
      /\ Head(q) = q[1] /\ \A i \in 1..Len(r) : r[i] = q[i + 1]
  OBVIOUS
<1>. HIDE DEF r
<1>2. ASSUME NEW i \in Nat, NEW e
      PROVE  Ahead(q, i + 1, e) <=> Ahead(r, i, e)
  <2>1. ASSUME NEW j \in 1..Len(q), j > i + 1, q[j] = e
        PROVE  Ahead(r, i, e)
    <3>1. j - 1 \in 1..Len(r) /\ j - 1 > i /\ r[j - 1] = e
      BY <1>1, <2>1
    <3>. QED BY <3>1 DEF Ahead
  <2>2. ASSUME NEW j \in 1..Len(r), j > i, r[j] = e
        PROVE  Ahead(q, i + 1, e)
    <3>1. j + 1 \in 1..Len(q) /\ j + 1 > i + 1 /\ q[j + 1] = e
      BY <1>1, <2>2
    <3>. QED BY <3>1 DEF Ahead
  <2>. QED BY <2>1, <2>2 DEF Ahead
<1>3. ASSUME NEW e, e # q[1]
      PROVE  Ahead(q, 0, e) <=> Ahead(q, 1, e)
  BY <1>1, <1>3 DEF Ahead
<1>4. \A e : Ahead(q, 0 + 1, e) <=> Ahead(r, 0, e)
  BY <1>2
<1>5. \A e : e # Head(q) => (Ahead(q, 0, e) <=> Ahead(r, 0, e))
  BY <1>1, <1>3, <1>4
<1>. QED BY <1>1, <1>2, <1>5 DEF r

LEMMA ItemTail ==
  ASSUME NEW q \in Seq(Events), q # <<>>
  PROVE  /\ \A i \in Nat : \A t, n : ItemAhead(q, i + 1, t, n) <=> ItemAhead(Tail(q), i, t, n)
         /\ \A t, n : (\A kind \in ItemKinds : event(kind, t, n) # Head(q)) =>
                        (ItemAhead(q, 0, t, n) <=> ItemAhead(Tail(q), 0, t, n))
BY AheadTail DEF ItemAhead

-------------------------------------------------------------------------------
\* A thread changes from x to y, and event f is sent.

QuietMove(x, y, t, f) ==
  /\ y.turns = x.turns /\ (y.runs <=> x.runs) /\ (x.exists => y.exists)
  /\ y.said = x.said \/ (~x.exists /\ x.said = 0 /\ y.exists)
  /\ f # LastStart(t, y)

StartMove(x, y, t, f) ==
  /\ ~x.runs /\ y.runs /\ x.exists /\ y.exists
  /\ y.turns = x.turns + 1 /\ y.said = x.said
  /\ f = LastStart(t, y)

ItemMove(x, y, t, f) ==
  /\ x.runs /\ y.runs /\ (y.exists <=> x.exists)
  /\ y.turns = x.turns /\ y.said = x.said + 1
  /\ \E kind \in ItemKinds : f = event(kind, t, y.said)

EndMove(x, y, t, f) ==
  /\ x.runs /\ ~y.runs /\ (y.exists <=> x.exists)
  /\ y.turns = x.turns /\ y.said = x.said
  /\ f = LastEnd(t, y)

Moves(x, y, t, f) ==
  QuietMove(x, y, t, f) \/ StartMove(x, y, t, f) \/ ItemMove(x, y, t, f) \/ EndMove(x, y, t, f)

LEMMA ThreadIs ==
  ASSUME NEW x \in ExternalThread
  PROVE  /\ x.exists \in BOOLEAN /\ x.runs \in BOOLEAN /\ x.said \in Nat /\ x.turns \in Nat
BY ThreadListAssumption DEF ExternalThread, Turns

LEMMA MoveKeepsEvents ==
  ASSUME NEW q \in Seq(Events), NEW f \in Events, NEW x \in ExternalThread,
         NEW y \in ExternalThread, NEW t \in Threads, Moves(x, y, t, f),
         NEW i \in 1..Len(q), q[i].thread = t, EventInv(q, i, x)
  PROVE  EventInv(Append(q, f), i, y)
<1>. DEFINE r == Append(q, f)
            e == q[i]
<1>1. /\ r[i] = e /\ e \in Events /\ i \in 0..Len(q)
      /\ \A d : Ahead(q, i, d) => Ahead(r, i, d)
      /\ Ahead(r, i, f)
      /\ \A d : Ahead(r, i, d) => Ahead(q, i, d) \/ d = f
  BY AheadAppend
<1>2. /\ x.said \in Nat /\ x.turns \in Nat /\ y.said \in Nat /\ y.turns \in Nat
      /\ x.runs \in BOOLEAN /\ y.runs \in BOOLEAN
  BY ThreadIs
<1>3. e.kind \in {"turnStarted", "turnCompleted"} => e.n \in Nat
  BY <1>1, ThreadListAssumption DEF Events, Turns, Items, ItemKinds
<1>4. e.thread = t
  OBVIOUS
<1>. HIDE DEF r, e
<1>5. /\ e.kind \in {"turnStarted", "turnCompleted"} =>
           e.n <= x.turns /\ (e.n = x.turns \/ Ahead(q, i, LastStart(t, x)))
      /\ e.kind = "turnCompleted" /\ e.n = x.turns => ~x.runs /\ ~Ahead(q, i, LastStart(t, x))
      /\ e.kind \in {"turnStarted", "itemStarted"} /\ ~x.runs => Ahead(q, i, LastEnd(t, x))
      /\ e.kind \in ItemKinds => e.n \in 1..x.said
  BY <1>4 DEF EventInv, e
<1>. DEFINE Goal ==
      /\ e.kind \in {"turnStarted", "turnCompleted"} =>
           e.n <= y.turns /\ (e.n = y.turns \/ Ahead(r, i, LastStart(t, y)))
      /\ e.kind = "turnCompleted" /\ e.n = y.turns => ~y.runs /\ ~Ahead(r, i, LastStart(t, y))
      /\ e.kind \in {"turnStarted", "itemStarted"} /\ ~y.runs => Ahead(r, i, LastEnd(t, y))
      /\ e.kind \in ItemKinds => e.n \in 1..y.said
<1>. SUFFICES Goal
  BY <1>1, <1>4 DEF EventInv, r
<1>6. CASE QuietMove(x, y, t, f)
  <2>1. y.turns = x.turns /\ (y.runs <=> x.runs) /\ x.said <= y.said /\ f # LastStart(t, y)
    BY <1>2, <1>6 DEF QuietMove
  <2>2. LastStart(t, y) = LastStart(t, x) /\ LastEnd(t, y) = LastEnd(t, x)
    BY <2>1 DEF LastStart, LastEnd
  <2>. QED BY <1>1, <1>2, <1>3, <1>5, <2>1, <2>2
<1>7. CASE StartMove(x, y, t, f)
  <2>1. y.turns = x.turns + 1 /\ y.runs /\ y.said = x.said /\ f = LastStart(t, y)
    BY <1>7 DEF StartMove
  <2>. QED BY <1>1, <1>2, <1>3, <1>5, <2>1
<1>8. CASE ItemMove(x, y, t, f)
  <2>1. y.turns = x.turns /\ x.runs /\ y.runs /\ y.said = x.said + 1
    BY <1>8 DEF ItemMove
  <2>2. LastStart(t, y) = LastStart(t, x)
    BY <2>1 DEF LastStart
  <2>. QED BY <1>1, <1>2, <1>3, <1>5, <2>1, <2>2
<1>9. CASE EndMove(x, y, t, f)
  <2>1. y.turns = x.turns /\ x.runs /\ ~y.runs /\ y.said = x.said /\ f = LastEnd(t, y)
    BY <1>9 DEF EndMove
  <2>2. LastStart(t, y) = LastStart(t, x)
    BY <2>1 DEF LastStart
  <2>. QED BY <1>1, <1>2, <1>3, <1>5, <2>1, <2>2
<1>. QED BY <1>6, <1>7, <1>8, <1>9 DEF Moves

LEMMA MoveKeepsPage ==
  ASSUME NEW q \in Seq(Events), NEW f \in Events, NEW x \in ExternalThread,
         NEW y \in ExternalThread, NEW t \in Threads, Moves(x, y, t, f)
  PROVE  /\ \A heard, shown : SaidInv(x, heard, shown) => SaidInv(y, heard, shown)
         /\ \A heard, shown :
              ItemsInv(q, t, heard, shown) => ItemsInv(Append(q, f), t, heard, shown)
         /\ \A on \in BOOLEAN, turn \in Turns, old \in BOOLEAN :
              TurnInv(q, t, x, on, turn, old) => TurnInv(Append(q, f), t, y, on, turn, old)
<1>. DEFINE r == Append(q, f)
<1>1. /\ \A d : Ahead(q, 0, d) => Ahead(r, 0, d)
      /\ Ahead(r, 0, f)
      /\ \A n : ItemAhead(q, 0, t, n) => ItemAhead(r, 0, t, n)
  BY AheadAppend
<1>2. /\ x.said \in Nat /\ x.turns \in Nat /\ y.said \in Nat /\ y.turns \in Nat
      /\ x.runs \in BOOLEAN /\ y.runs \in BOOLEAN
  BY ThreadIs
<1>. HIDE DEF r
<1>3. \A heard, shown : SaidInv(x, heard, shown) => SaidInv(y, heard, shown)
  <2>1. x.said <= y.said
    BY <1>2 DEF Moves, QuietMove, StartMove, ItemMove, EndMove
  <2>2. \A n \in 1..x.said : n \in 1..y.said
    BY <1>2, <2>1
  <2>3. ASSUME x.runs => x.turns # 0, ~x.exists => x.said = 0 /\ ~x.runs
        PROVE  (y.runs => y.turns # 0) /\ (~y.exists => y.said = 0 /\ ~y.runs)
    BY <1>2, <2>3 DEF Moves, QuietMove, StartMove, ItemMove, EndMove
  <2>. QED BY <2>2, <2>3 DEF SaidInv
<1>4. \A heard, shown : ItemsInv(q, t, heard, shown) => ItemsInv(r, t, heard, shown)
  BY <1>1 DEF ItemsInv
<1>5. ASSUME NEW on \in BOOLEAN, NEW turn \in Turns, NEW old \in BOOLEAN,
             TurnInv(q, t, x, on, turn, old)
      PROVE  TurnInv(r, t, y, on, turn, old)
  <2>1. CASE QuietMove(x, y, t, f)
    <3>1. /\ y.turns = x.turns /\ (y.runs <=> x.runs)
          /\ LastStart(t, y) = LastStart(t, x) /\ LastEnd(t, y) = LastEnd(t, x)
      BY <2>1 DEF QuietMove, LastStart, LastEnd
    <3>. QED BY <1>1, <1>2, <1>5, <3>1 DEF TurnInv
  <2>2. CASE StartMove(x, y, t, f)
    BY <1>1, <2>2 DEF StartMove, TurnInv
  <2>3. CASE ItemMove(x, y, t, f)
    <3>1. /\ y.turns = x.turns /\ x.runs /\ y.runs /\ LastStart(t, y) = LastStart(t, x)
      BY <2>3 DEF ItemMove, LastStart
    <3>. QED BY <1>1, <1>2, <1>5, <3>1 DEF TurnInv
  <2>4. CASE EndMove(x, y, t, f)
    <3>1. /\ y.turns = x.turns /\ ~y.runs /\ LastStart(t, y) = LastStart(t, x)
          /\ f = LastEnd(t, y)
      BY <2>4 DEF EndMove, LastStart
    <3>. QED BY <1>1, <1>2, <1>5, <3>1 DEF TurnInv
  <2>. QED BY <2>1, <2>2, <2>3, <2>4 DEF Moves
<1>. QED BY <1>3, <1>4, <1>5 DEF r

LEMMA MoveKeepsResumes ==
  ASSUME NEW q \in Seq(Events), NEW f \in Events, NEW x \in ExternalThread,
         NEW y \in ExternalThread, NEW c \in Call, c.thread \in Threads,
         Moves(x, y, c.thread, f), ResumeInv(c, q, x)
  PROVE  ResumeInv(c, Append(q, f), y)
<1>. DEFINE r == Append(q, f)
            t == c.thread
<1>1. /\ \A d : Ahead(q, c.before, d) => Ahead(r, c.before, d)
      /\ \A n : ItemAhead(q, c.before, t, n) => ItemAhead(r, c.before, t, n)
      /\ Len(r) = Len(q) + 1 /\ Len(q) \in Nat
  BY AheadAppend
<1>2. c.before \in Nat
  BY ThreadListAssumption DEF Call
<1>3. c.before <= Len(q) => Ahead(r, c.before, f)
  BY <1>1, <1>2, AheadAppend
<1>4. /\ x.said \in Nat /\ x.turns \in Nat /\ y.said \in Nat /\ y.turns \in Nat
      /\ x.runs \in BOOLEAN /\ y.runs \in BOOLEAN /\ x.exists \in BOOLEAN /\ y.exists \in BOOLEAN
  BY ThreadIs
<1>. HIDE DEF r
<1>5. x.said <= y.said
  BY <1>4 DEF Moves, QuietMove, StartMove, ItemMove, EndMove
<1>6. \A n \in 1..x.said : n \in 1..y.said
  BY <1>4, <1>5
<1>7. c.local \subseteq 1..y.said
  BY <1>6 DEF ResumeInv
<1>8. ASSUME c.at = "answered"
      PROVE  /\ y.exists /\ c.local \subseteq c.items /\ c.items \subseteq 1..y.said
             /\ c.before <= Len(r)
  BY <1>1, <1>2, <1>4, <1>6, <1>8 DEF ResumeInv, Moves, QuietMove, StartMove, ItemMove, EndMove
<1>9. ASSUME c.at = "answered", AnswerInv(c, q, x), x.exists, c.before <= Len(q)
      PROVE  AnswerInv(c, r, y)
  <2>1. Ahead(r, c.before, f)
    BY <1>3, <1>9
  <2>2. CASE QuietMove(x, y, t, f)
    <3>1. /\ y.turns = x.turns /\ (y.runs <=> x.runs) /\ y.said = x.said
          /\ LastStart(t, y) = LastStart(t, x) /\ LastEnd(t, y) = LastEnd(t, x)
      BY <1>9, <2>2 DEF QuietMove, LastStart, LastEnd
    <3>. QED BY <1>1, <1>4, <1>9, <3>1 DEF AnswerInv
  <2>3. CASE StartMove(x, y, t, f)
    <3>1. y.runs /\ y.said = x.said /\ f = LastStart(t, y)
      BY <2>3 DEF StartMove
    <3>. QED BY <1>1, <1>4, <1>9, <2>1, <3>1 DEF AnswerInv
  <2>4. CASE ItemMove(x, y, t, f)
    <3>1. /\ y.turns = x.turns /\ x.runs /\ y.runs /\ LastStart(t, y) = LastStart(t, x)
          /\ y.said = x.said + 1
      BY <2>4 DEF ItemMove, LastStart
    <3>2. PICK kind \in ItemKinds : f = event(kind, t, y.said)
      BY <2>4 DEF ItemMove
    <3>3. ItemAhead(r, c.before, t, y.said)
      BY <2>1, <3>2 DEF ItemAhead
    <3>4. \A n \in 1..y.said : n \in 1..x.said \/ n = y.said
      BY <1>4, <3>1
    <3>5. \A n \in 1..y.said : n \in c.items \/ ItemAhead(r, c.before, t, n)
      BY <1>1, <1>9, <3>3, <3>4 DEF AnswerInv
    <3>. QED BY <1>1, <1>4, <1>9, <3>1, <3>5 DEF AnswerInv
  <2>5. CASE EndMove(x, y, t, f)
    <3>1. /\ y.turns = x.turns /\ ~y.runs /\ LastStart(t, y) = LastStart(t, x)
          /\ f = LastEnd(t, y) /\ y.said = x.said
      BY <2>5 DEF EndMove, LastStart
    <3>. QED BY <1>1, <1>4, <1>9, <2>1, <3>1 DEF AnswerInv
  <2>. QED BY <2>2, <2>3, <2>4, <2>5 DEF Moves
<1>. QED BY <1>7, <1>8, <1>9 DEF ResumeInv, r

\* Nothing is behind the event that was sent.
LEMMA MoveAddsEvent ==
  ASSUME NEW q \in Seq(Events), NEW f \in Events, NEW x \in ExternalThread,
         NEW y \in ExternalThread, NEW t \in Threads, Moves(x, y, t, f),
         QuietMove(x, y, t, f) => f.kind \in {"started", "archived", "unarchived"}
  PROVE  EventInv(Append(q, f), Len(q) + 1, y)
<1>. DEFINE r == Append(q, f)
            i == Len(q) + 1
<1>1. r[i] = f /\ Len(r) = i /\ i \in Nat
  BY AheadAppend
<1>2. \A d : ~Ahead(r, i, d)
  BY <1>1 DEF Ahead
<1>3. y.said \in Nat /\ y.turns \in Nat /\ x.said \in Nat
  BY ThreadIs
<1>. HIDE DEF r, i
<1>4. CASE QuietMove(x, y, t, f)
  BY <1>1, <1>4 DEF EventInv, ItemKinds, r, i
<1>5. CASE StartMove(x, y, t, f)
  <2>1. y.runs /\ f.kind = "turnStarted" /\ f.n = y.turns
    BY <1>5, EventFields DEF StartMove, LastStart
  <2>. QED BY <1>1, <1>3, <2>1 DEF EventInv, ItemKinds, r, i
<1>6. CASE ItemMove(x, y, t, f)
  <2>1. y.runs /\ f.kind \in ItemKinds /\ f.n = y.said /\ y.said = x.said + 1
    BY <1>6, EventFields DEF ItemMove
  <2>. QED BY <1>1, <1>3, <2>1 DEF EventInv, ItemKinds, r, i
<1>7. CASE EndMove(x, y, t, f)
  <2>1. ~y.runs /\ f.kind = "turnCompleted" /\ f.n = y.turns
    BY <1>7, EventFields DEF EndMove, LastEnd
  <2>. QED BY <1>1, <1>2, <1>3, <2>1 DEF EventInv, ItemKinds, r, i
<1>. QED BY <1>4, <1>5, <1>6, <1>7 DEF Moves

\* What is shown, for an invariant: `d` are threads of which nothing is said.
SameShown(s, p, d) ==
  /\ p.items = s.items /\ p.turn = s.turn
  /\ \A u \in Threads \ d : u \in p.processing <=> u \in s.processing

\* The types of what the invariant compares.
LEMMA WorldIs ==
  ASSUME LInv
  PROVE  /\ events \in Seq(Events) /\ Len(events) \in Nat
         /\ \A t \in Threads : thread[t] \in ExternalThread /\ page.turn[t] \in Turns
         /\ \A i \in 1..Len(events) : events[i] \in Events /\ events[i].thread \in Threads
         /\ \A i \in Slots : calls[i] \in Call
         /\ \A i \in Slots : calls[i].asks = "resume" => calls[i].thread \in Threads
<1>1. events \in Seq(Events)
  BY DEF LInv, EventsOK
<1>2. \A i \in 1..Len(events) : events[i] \in Events
  BY <1>1
<1>3. \A e \in Events : e.thread \in Threads
  BY DEF Events
<1>4. \A t \in Threads : thread[t] \in ExternalThread /\ page.turn[t] \in Turns
  BY PageOK DEF LInv, ThreadsOK
<1>5. \A i \in Slots :
        calls[i] \in Call /\ (calls[i].asks = "resume" => calls[i].thread \in Threads)
  BY DEF LInv, CallsOK, CallOK
<1>. QED BY <1>1, <1>2, <1>3, <1>4, <1>5

\* An event is sent.
LEMMA SendKeeps ==
  ASSUME LInv, LInv', SInv, NEW t \in Threads, NEW f \in Events, f.thread = t,
         events' = Append(events, f),
         \A u \in Threads \ {t} : thread'[u] = thread[u],
         Moves(thread[t], thread'[t], t, f),
         QuietMove(thread[t], thread'[t], t, f) =>
           f.kind \in {"started", "archived", "unarchived"},
         UNCHANGED <<page, told, overtaken, dropped, unseen>>,
         \A i \in Slots : calls'[i].asks = "resume" => calls'[i] = calls[i]
  PROVE  SInv'
<1>. DEFINE q == events
            r == Append(events, f)
<1>1. /\ q \in Seq(Events) /\ Len(r) = Len(q) + 1 /\ Len(q) \in Nat /\ r[Len(q) + 1] = f
      /\ \A i \in 1..Len(q) : r[i] = q[i] /\ q[i] \in Events /\ q[i].thread \in Threads
  BY WorldIs, AheadAppend
<1>2. \A u \in Threads : thread[u] \in ExternalThread /\ thread'[u] \in ExternalThread
  BY WorldIs DEF LInv, ThreadsOK
<1>3. ASSUME NEW u \in Threads
      PROVE  Moves(thread[u], thread'[u], u, f)
  <2>1. CASE u = t
    BY <2>1
  <2>2. CASE u # t
    <3>1. thread'[u] = thread[u] /\ f # LastStart(u, thread[u])
      BY <2>2, EventFields DEF LastStart
    <3>. QED BY <3>1 DEF Moves, QuietMove
  <2>. QED BY <2>1, <2>2
<1>4. EventsInv'
  <2>1. ASSUME NEW i \in 1..Len(r)
        PROVE  EventInv(r, i, thread'[r[i].thread])
    <3>1. CASE i = Len(q) + 1
      <4>1. EventInv(r, Len(q) + 1, thread'[t])
        BY <1>1, <1>2, MoveAddsEvent
      <4>. QED BY <1>1, <3>1, <4>1
    <3>2. CASE i \in 1..Len(q)
      <4>. DEFINE u == q[i].thread
      <4>1. u \in Threads /\ r[i] = q[i] /\ EventInv(q, i, thread[u])
        BY <1>1, <3>2 DEF SInv, EventsInv
      <4>2. Moves(thread[u], thread'[u], u, f)
        BY <1>3, <4>1
      <4>3. EventInv(r, i, thread'[u])
        BY <1>1, <1>2, <3>2, <4>1, <4>2, MoveKeepsEvents
      <4>. QED BY <4>1, <4>3
    <3>. QED BY <1>1, <2>1, <3>1, <3>2
  <2>. QED BY <2>1 DEF EventsInv
<1>5. SaysInv' /\ ShownInv' /\ RunsInv'
  <2>1. UNCHANGED <<page, told, overtaken, dropped, unseen>>
    OBVIOUS
  <2>2. ASSUME NEW u \in Threads
        PROVE  /\ SaidInv(thread'[u], told[u], page.items[u])
               /\ u \notin overtaken => ItemsInv(r, u, told[u], page.items[u])
               /\ u \notin overtaken \cup dropped =>
                    TurnInv(r, u, thread'[u], u \in page.processing, page.turn[u], u \in unseen)
    <3>1. Moves(thread[u], thread'[u], u, f) /\ page.turn[u] \in Turns
      BY <1>3, WorldIs
    <3>2. /\ SaidInv(thread[u], told[u], page.items[u])
          /\ u \notin overtaken => ItemsInv(q, u, told[u], page.items[u])
          /\ u \notin overtaken \cup dropped =>
               TurnInv(q, u, thread[u], u \in page.processing, page.turn[u], u \in unseen)
      BY DEF SInv, SaysInv, ShownInv, RunsInv
    <3>. DEFINE on == u \in page.processing
                old == u \in unseen
    <3>3. on \in BOOLEAN /\ old \in BOOLEAN
      OBVIOUS
    <3>. HIDE DEF on, old
    <3>4. /\ SaidInv(thread[u], told[u], page.items[u]) =>
               SaidInv(thread'[u], told[u], page.items[u])
          /\ ItemsInv(q, u, told[u], page.items[u]) => ItemsInv(r, u, told[u], page.items[u])
      BY <1>1, <1>2, <3>1, MoveKeepsPage
    <3>5. TurnInv(q, u, thread[u], on, page.turn[u], old) =>
            TurnInv(r, u, thread'[u], on, page.turn[u], old)
      BY <1>1, <1>2, <3>1, <3>3, MoveKeepsPage
    <3>. QED BY <3>2, <3>4, <3>5 DEF on, old
  <2>. QED BY <2>1, <2>2 DEF SaysInv, ShownInv, RunsInv
<1>6. ResumesInv'
  <2>1. ASSUME NEW i \in Slots, calls'[i].asks = "resume"
        PROVE  ResumeInv(calls'[i], r, thread'[calls'[i].thread])
    <3>. DEFINE c == calls[i]
                u == c.thread
    <3>1. calls'[i] = c /\ c \in Call /\ u \in Threads /\ ResumeInv(c, q, thread[u])
      BY <2>1, WorldIs DEF SInv, ResumesInv
    <3>2. Moves(thread[u], thread'[u], u, f)
      BY <1>3, <3>1
    <3>3. ResumeInv(c, r, thread'[u])
      BY <1>1, <1>2, <3>1, <3>2, MoveKeepsResumes
    <3>. QED BY <3>1, <3>3
  <2>. QED BY <2>1 DEF ResumesInv
<1>. QED BY <1>4, <1>5, <1>6 DEF SInv

\* Nothing happens but that a call is made or is over, and what is not of this invariant.
LEMMA QuietKeeps ==
  ASSUME LInv, SInv, UNCHANGED <<thread, events, told, overtaken, unseen>>, dropped \subseteq dropped',
         SameShown(page, page', dropped'),
         \A i \in Slots : calls'[i].asks = "resume" =>
           \/ calls'[i] = calls[i]
           \/ ResumeInv(calls'[i], events, thread[calls'[i].thread])
  PROVE  SInv'
<1>1. EventsInv' /\ SaysInv' /\ ShownInv'
  BY DEF SInv, EventsInv, SaysInv, ShownInv, SameShown
<1>2. RunsInv'
  <2>1. ASSUME NEW u \in Threads \ (overtaken \cup dropped')
        PROVE  TurnInv(events, u, thread[u], u \in page'.processing, page'.turn[u], u \in unseen')
    <3>1. TurnInv(events, u, thread[u], u \in page.processing, page.turn[u], u \in unseen)
      BY DEF SInv, RunsInv
    <3>2. (u \in page'.processing <=> u \in page.processing) /\ page'.turn = page.turn
      BY DEF SameShown
    <3>. QED BY <3>1, <3>2 DEF TurnInv
  <2>. QED BY <2>1 DEF RunsInv
<1>3. ResumesInv'
  BY DEF SInv, ResumesInv
<1>. QED BY <1>1, <1>2, <1>3 DEF SInv

-------------------------------------------------------------------------------
\* What the reducer's actions leave alone.

LEMMA EnsureSame ==
  ASSUME NEW d, NEW s, Good(s, d), NEW t \in Threads
  PROVE  SameShown(s, ensureThread(s, t), d)
<1>. DEFINE p == ensureThread(s, t)
<1>1. CASE t \in s.hidden \/ t \in s.list
  BY <1>1 DEF ensureThread, isHidden, SameShown
<1>2. CASE t \notin s.hidden /\ t \notin s.list
  <2>. DEFINE a == IF s.active = NoThread THEN t ELSE s.active
  <2>1. p = [s EXCEPT !.list = s.list \cup {t}, !.processing = s.processing \ {t},
                      !.active = a]
    BY <1>2 DEF ensureThread, isHidden
  <2>. HIDE DEF p, a
  <2>2. s \in Pages /\ (t \in s.processing => t \in d)
    BY <1>2 DEF Good
  <2>3. p.items = s.items /\ p.turn = s.turn /\ p.processing = s.processing \ {t}
    BY <2>1, <2>2 DEF Pages
  <2>4. SameShown(s, p, d)
    BY <2>2, <2>3 DEF SameShown
  <2>. QED BY <2>4 DEF p
<1>. QED BY <1>1, <1>2

LEMMA SameAfter ==
  ASSUME NEW d, NEW s, NEW p, NEW q, SameShown(s, p, d), SameShown(p, q, d)
  PROVE  SameShown(s, q, d)
BY DEF SameShown

LEMMA ActiveSame ==
  ASSUME NEW d, NEW s \in Pages, NEW t
  PROVE  SameShown(s, setActiveThreadId(s, t), d)
BY DEF SameShown, setActiveThreadId, Pages

LEMMA LinkSame ==
  ASSUME NEW d, NEW s \in Pages, NEW ts
  PROVE  SameShown(s, link(s, ts), d)
BY DEF SameShown, link, Pages

LEMMA CursorSame ==
  ASSUME NEW d, NEW s \in Pages, NEW b
  PROVE  SameShown(s, [s EXCEPT !.cursor = b], d)
BY DEF SameShown, Pages

LEMMA HideSame ==
  ASSUME NEW d, NEW s \in Pages, NEW t, NEW first
  PROVE  SameShown(s, hideThread(s, t, first), d)
BY DEF SameShown, hideThread, Pages

LEMMA ListSame ==
  ASSUME NEW d, NEW s \in Pages, NEW ts, NEW first
  PROVE  /\ SameShown(s, setThreads(s, ts, first), d)
         /\ SameShown(s, setThreadsAnchored(s, ts), d)
<1>1. s.items = setThreads(s, ts, first).items /\ s.turn = setThreads(s, ts, first).turn
      /\ s.processing = setThreads(s, ts, first).processing
  BY DEF setThreads, Pages
<1>2. s.items = setThreadsAnchored(s, ts).items /\ s.turn = setThreadsAnchored(s, ts).turn
      /\ s.processing = setThreadsAnchored(s, ts).processing
  BY DEF setThreadsAnchored, Pages
<1>. QED BY <1>1, <1>2 DEF SameShown

\* The thread of an answer or an event is shown and comes into view.
LEMMA ShowSame ==
  ASSUME NEW d, NEW s, Good(s, d), NEW t \in Threads
  PROVE  SameShown(s, setActiveThreadId(ensureThread(s, t), t), d)
<1>1. ensureThread(s, t) \in Pages
  BY EnsureGood DEF Good
<1>. QED BY <1>1, EnsureSame, ActiveSame, SameAfter

-------------------------------------------------------------------------------
\* Calls are made

LEMMA NewCallAsks ==
  ASSUME NEW asks, NEW t
  PROVE  newCall(asks, t).asks = asks /\ newCall(asks, t).at = "sent"
BY DEF newCall

LEMMA CallingSame ==
  ASSUME LInv, SInv, NEW c, calling(c),
         c.asks = "resume" => ResumeInv(c, events, thread[c.thread]),
         UNCHANGED <<thread, events, told, overtaken, dropped, unseen>>,
         SameShown(page, page', dropped)
  PROVE  SInv'
<1>1. \A i \in Slots : calls'[i] = calls[i] \/ calls'[i] = c
  BY DEF calling, LInv, CallsOK
<1>2. UNCHANGED <<told, overtaken, dropped, unseen>>
  OBVIOUS
<1>3. \A i \in Slots : calls'[i].asks = "resume" =>
        \/ calls'[i] = calls[i]
        \/ ResumeInv(calls'[i], events, thread[calls'[i].thread])
  BY <1>1
<1>. QED BY <1>2, <1>3, QuietKeeps

LEMMA ResumeIs ==
  ASSUME NEW t \in Threads, NEW local, NEW replaces, NEW q, NEW x, local \subseteq 1..x.said
  PROVE  /\ resume(t, local, replaces).asks = "resume"
         /\ resume(t, local, replaces).thread = t
         /\ ResumeInv(resume(t, local, replaces), q, x)
BY DEF resume, newCall, ResumeInv

LEMMA UserKeeps ==
  ASSUME LInv, SInv,
         \/ startThread \/ refreshThread \/ loadOlderThreads
         \/ \E t \in Threads : forkThread(t) \/ selectThread(t) \/ removeThread(t)
         \/ \E preserveState, resets \in BOOLEAN : listThreads(preserveState, resets)
  PROVE  SInv'
<1>. USE PageOK
<1>. DEFINE Same == SameShown(page, page, dropped)
<1>1. Same
  BY DEF SameShown
<1>2. CASE startThread
  BY <1>1, <1>2, NewCallAsks, CallingSame DEF startThread, historyVars
<1>3. CASE refreshThread
  <2>. DEFINE t == page.active
  <2>1. t \in Threads /\ page.items[t] \subseteq 1..thread[t].said
    BY <1>3 DEF refreshThread, SInv, SaysInv, SaidInv
  <2>. QED BY <1>1, <1>3, <2>1, ResumeIs, CallingSame DEF refreshThread, historyVars
<1>4. CASE loadOlderThreads
  <2>1. [newCall("older", NoThread) EXCEPT !.list = page.list].asks = "older"
    BY DEF newCall
  <2>. QED BY <1>1, <1>4, <2>1, CallingSame DEF loadOlderThreads, historyVars
<1>5. ASSUME NEW t \in Threads, forkThread(t)
      PROVE  SInv'
  BY <1>1, <1>5, NewCallAsks, CallingSame DEF forkThread, historyVars
<1>6. ASSUME NEW t \in Threads, selectThread(t)
      PROVE  SInv'
  <2>1. SameShown(page, page', dropped)
    BY <1>6, ActiveSame DEF selectThread
  <2>2. UNCHANGED <<thread, events, told, overtaken, dropped, unseen>>
    BY <1>6 DEF selectThread, historyVars
  <2>3. CASE UNCHANGED calls
    BY <2>1, <2>2, <2>3, QuietKeeps
  <2>4. CASE calling(resume(t, {}, FALSE))
    BY <2>1, <2>2, <2>4, ResumeIs, CallingSame
  <2>. QED BY <1>6, <2>3, <2>4 DEF selectThread
<1>7. ASSUME NEW t \in Threads, removeThread(t)
      PROVE  SInv'
  <2>1. SameShown(page, page', dropped)
    BY <1>7, HideSame DEF removeThread
  <2>. QED BY <1>7, <2>1, NewCallAsks, CallingSame DEF removeThread
<1>8. ASSUME NEW preserveState \in BOOLEAN, NEW resets \in BOOLEAN,
             listThreads(preserveState, resets)
      PROVE  SInv'
  <2>. DEFINE c == [newCall("list", NoThread) EXCEPT !.list = page.list,
                      !.linked = page.linked,
                      !.keep = ({page.active} \cap Threads) \cup page.processing]
  <2>1. c.asks = "list"
    BY DEF newCall
  <2>2. SameShown(page, page', dropped)
    BY <1>1, <1>8, CursorSame DEF listThreads
  <2>3. calling(c) /\ UNCHANGED <<thread, events, told, overtaken, dropped, unseen>>
    BY <1>8 DEF listThreads, historyVars
  <2>. HIDE DEF c
  <2>. QED BY <2>1, <2>2, <2>3, CallingSame
<1>. QED BY <1>2, <1>3, <1>4, <1>5, <1>6, <1>7, <1>8

-------------------------------------------------------------------------------
\* What the threads do, and what the server answers

LEMMA HappensKeeps ==
  ASSUME LInv, LInv', SInv, NEW t \in Threads, Happens(t)
  PROVE  SInv'
<1>. DEFINE x == thread[t]
            y == thread'[t]
<1>1. /\ thread \in [Threads -> ExternalThread] /\ x \in ExternalThread /\ y \in ExternalThread
      /\ 0 \in Turns
  BY ThreadListAssumption DEF LInv, ThreadsOK, Turns
<1>2. /\ x.exists \in BOOLEAN /\ x.archived \in BOOLEAN /\ x.runs \in BOOLEAN
      /\ x.said \in 0..MaxItems /\ x.turns \in Turns /\ x.said \in Nat /\ x.turns \in Nat
  BY <1>1, ThreadIs DEF ExternalThread
<1>3. (~x.exists => x.said = 0 /\ ~x.runs) /\ (x.runs => x.exists)
  BY <1>2 DEF SInv, SaysInv, SaidInv
<1>4. UNCHANGED <<calls, page, historyVars>>
  BY DEF Happens
<1>. DEFINE Sent == \E f \in Events :
       /\ f.thread = t /\ events' = Append(events, f)
       /\ \A u \in Threads \ {t} : thread'[u] = thread[u]
       /\ Moves(x, y, t, f)
       /\ QuietMove(x, y, t, f) => f.kind \in {"started", "archived", "unarchived"}
<1>5. ASSUME NEW kind \in {"started", "archived", "unarchived"},
             sends(event(kind, t, 0)), \A u \in Threads \ {t} : thread'[u] = thread[u],
             y.turns = x.turns, y.runs = x.runs, y.said = x.said, x.exists => y.exists
      PROVE  Sent
  <2>. DEFINE f == event(kind, t, 0)
  <2>1. f \in Events /\ f.thread = t /\ f.kind = kind
    BY <1>1, EventOK, EventFields
  <2>2. f # LastStart(t, y)
    BY <2>1, EventFields DEF LastStart
  <2>3. QuietMove(x, y, t, f)
    BY <1>5, <2>2 DEF QuietMove
  <2>4. events' = Append(events, f)
    BY <1>5 DEF sends
  <2>. HIDE DEF f
  <2>. QED BY <1>5, <2>1, <2>3, <2>4 DEF Moves
<1>6. Sent
  <2>1. CASE ~x.exists /\ thread' = [thread EXCEPT ![t].exists = TRUE]
             /\ sends(event("started", t, 0))
    <3>1. /\ \A u \in Threads \ {t} : thread'[u] = thread[u]
          /\ y = [x EXCEPT !.exists = TRUE]
      BY <1>1, <2>1
    <3>2. y.turns = x.turns /\ y.runs = x.runs /\ y.said = x.said /\ y.exists
      BY <1>1, <3>1 DEF ExternalThread
    <3>. HIDE DEF x, y
    <3>. QED BY <1>5, <2>1, <3>1, <3>2
  <2>2. CASE /\ x.exists /\ ~x.runs /\ x.turns < MaxTurns
             /\ thread' = [thread EXCEPT ![t].turns = @ + 1, ![t].runs = TRUE]
             /\ sends(event("turnStarted", t, x.turns + 1))
    <3>. DEFINE f == event("turnStarted", t, x.turns + 1)
    <3>1. /\ \A u \in Threads \ {t} : thread'[u] = thread[u]
          /\ y = [x EXCEPT !.turns = x.turns + 1, !.runs = TRUE]
      BY <1>1, <2>2
    <3>2. y.turns = x.turns + 1 /\ y.runs = TRUE /\ y.said = x.said /\ y.exists = x.exists
      BY <1>1, <3>1 DEF ExternalThread
    <3>3. x.turns + 1 \in Turns
      BY <1>2, <2>2, ThreadListAssumption DEF Turns
    <3>4. f \in Events /\ f.thread = t /\ events' = Append(events, f)
      BY <2>2, <3>3, EventOK, EventFields DEF sends
    <3>5. f = LastStart(t, y)
      BY <3>2 DEF LastStart
    <3>6. StartMove(x, y, t, f) /\ ~QuietMove(x, y, t, f)
      BY <1>2, <2>2, <3>2, <3>5 DEF StartMove, QuietMove
    <3>. HIDE DEF f
    <3>. QED BY <3>1, <3>4, <3>6 DEF Moves
  <2>3. CASE /\ x.runs /\ x.said < MaxItems
             /\ thread' = [thread EXCEPT ![t].said = @ + 1]
             /\ \E kind \in {"itemStarted", "itemCompleted"} :
                  sends(event(kind, t, x.said + 1))
    <3>1. /\ \A u \in Threads \ {t} : thread'[u] = thread[u]
          /\ y = [x EXCEPT !.said = x.said + 1]
      BY <1>1, <2>3
    <3>2. y.turns = x.turns /\ y.runs = x.runs /\ y.said = x.said + 1 /\ y.exists = x.exists
      BY <1>1, <3>1 DEF ExternalThread
    <3>3. x.said + 1 \in Items
      BY <1>2, <2>3, ThreadListAssumption DEF Items
    <3>4. PICK kind \in {"itemStarted", "itemCompleted"} : sends(event(kind, t, x.said + 1))
      BY <2>3
    <3>. DEFINE f == event(kind, t, x.said + 1)
    <3>5. f \in Events /\ f.thread = t /\ events' = Append(events, f)
      BY <3>3, <3>4, EventOK, EventFields DEF sends
    <3>6. f = event(kind, t, y.said) /\ kind \in ItemKinds
      BY <3>2 DEF ItemKinds
    <3>7. ItemMove(x, y, t, f)
      BY <2>3, <3>2, <3>6 DEF ItemMove
    <3>8. ~QuietMove(x, y, t, f)
      BY <1>2, <1>3, <2>3, <3>2 DEF QuietMove
    <3>. HIDE DEF f
    <3>. QED BY <3>1, <3>5, <3>7, <3>8 DEF Moves
  <2>4. CASE /\ x.runs
             /\ thread' = [thread EXCEPT ![t].runs = FALSE]
             /\ sends(event("turnCompleted", t, x.turns))
    <3>. DEFINE f == event("turnCompleted", t, x.turns)
    <3>1. /\ \A u \in Threads \ {t} : thread'[u] = thread[u]
          /\ y = [x EXCEPT !.runs = FALSE]
      BY <1>1, <2>4
    <3>2. y.turns = x.turns /\ y.runs = FALSE /\ y.said = x.said /\ y.exists = x.exists
      BY <1>1, <3>1 DEF ExternalThread
    <3>3. f \in Events /\ f.thread = t /\ events' = Append(events, f)
      BY <1>2, <2>4, EventOK, EventFields DEF sends
    <3>4. f = LastEnd(t, y)
      BY <3>2 DEF LastEnd
    <3>5. EndMove(x, y, t, f) /\ ~QuietMove(x, y, t, f)
      BY <2>4, <3>2, <3>4 DEF EndMove, QuietMove
    <3>. HIDE DEF f
    <3>. QED BY <3>1, <3>3, <3>5 DEF Moves
  <2>5. CASE /\ thread' = [thread EXCEPT ![t].archived = ~@]
             /\ sends(event(IF x.archived THEN "unarchived" ELSE "archived", t, 0))
    <3>1. /\ \A u \in Threads \ {t} : thread'[u] = thread[u]
          /\ y = [x EXCEPT !.archived = ~x.archived]
      BY <1>1, <2>5
    <3>2. y.turns = x.turns /\ y.runs = x.runs /\ y.said = x.said /\ y.exists = x.exists
      BY <1>1, <3>1 DEF ExternalThread
    <3>. HIDE DEF x, y
    <3>. QED BY <1>5, <2>5, <3>1, <3>2
  <2>. QED BY <2>1, <2>2, <2>3, <2>4, <2>5 DEF Happens
<1>7. UNCHANGED <<page, told, overtaken, dropped, unseen>>
  BY <1>4 DEF historyVars
<1>. QED BY <1>4, <1>6, <1>7, SendKeeps

LEMMA AnswersSame ==
  ASSUME LInv, NEW i \in Slots, NEW a \in Call, answers(i, a)
  PROVE  /\ \A j \in Slots \ {i} : calls'[j] = calls[j]
         /\ calls'[i] = [a EXCEPT !.at = "answered", !.before = Len(events')]
         /\ calls'[i].asks = a.asks
BY DEF answers, LInv, CallsOK, Call

LEMMA AnswersOther ==
  ASSUME LInv, NEW i \in Slots, NEW a \in Call, answers(i, a), a.asks # "resume"
  PROVE  \A j \in Slots : calls'[j].asks = "resume" => calls'[j] = calls[j]
<1>1. /\ \A j \in Slots \ {i} : calls'[j] = calls[j]
      /\ calls'[i].asks = a.asks
  BY AnswersSame
<1>. QED BY <1>1

LEMMA ServeKeeps ==
  ASSUME LInv, LInv', SInv, Serve
  PROVE  SInv'
<1>1. UNCHANGED <<page, told, overtaken, dropped, unseen>>
  BY DEF Serve, historyVars
<1>2. PICK i \in Slots :
        /\ calls[i].at = "sent"
        /\ serveNew(i) \/ serveResume(i) \/ serveList(i) \/ serveArchive(i)
  BY DEF Serve
<1>. DEFINE c == calls[i]
<1>3. /\ c \in Call /\ CallOK(c) /\ thread \in [Threads -> ExternalThread] /\ 0 \in Turns
      /\ \A u \in Threads : thread'[u] \in ExternalThread
  BY CallIs, ThreadListAssumption DEF LInv, ThreadsOK, Turns
<1>4. SameShown(page, page', dropped')
  BY <1>1 DEF SameShown
<1>5. CASE serveNew(i)
  <2>. DEFINE said == IF c.asks = "fork" THEN thread[c.thread].said ELSE 0
  <2>1. PICK t \in fresh :
          /\ thread' = [thread EXCEPT ![t].exists = TRUE, ![t].said = said]
          /\ sends(event("started", t, 0))
          /\ answers(i, [c EXCEPT !.thread = t])
    BY <1>5 DEF serveNew
  <2>. DEFINE x == thread[t]
              y == thread'[t]
              f == event("started", t, 0)
  <2>. HIDE DEF said
  <2>2. t \in Threads /\ ~x.exists
    BY DEF fresh
  <2>3. x.said = 0 /\ x \in ExternalThread
    BY <1>3, <2>2 DEF SInv, SaysInv, SaidInv
  <2>4. /\ \A u \in Threads \ {t} : thread'[u] = thread[u]
        /\ y = [x EXCEPT !.exists = TRUE, !.said = said]
    BY <1>3, <2>1, <2>2
  <2>5. y.turns = x.turns /\ y.runs = x.runs /\ y.exists = TRUE
    BY <2>3, <2>4 DEF ExternalThread
  <2>6. f \in Events /\ f.thread = t /\ f.kind = "started" /\ events' = Append(events, f)
    BY <1>3, <2>1, <2>2, EventOK, EventFields DEF sends
  <2>7. f # LastStart(t, y)
    BY <2>6, EventFields DEF LastStart
  <2>8. QuietMove(x, y, t, f)
    BY <2>2, <2>3, <2>5, <2>7 DEF QuietMove
  <2>9. [c EXCEPT !.thread = t] \in Call /\ [c EXCEPT !.thread = t].asks = c.asks
    BY <1>3, <2>2 DEF Call
  <2>10. \A j \in Slots : calls'[j].asks = "resume" => calls'[j] = calls[j]
    <3>. DEFINE a == [c EXCEPT !.thread = t]
    <3>1. a \in Call /\ a.asks # "resume" /\ answers(i, a)
      BY <1>5, <2>1, <2>9 DEF serveNew
    <3>. HIDE DEF a
    <3>. QED BY <3>1, AnswersOther
  <2>. HIDE DEF f
  <2>. QED BY <1>1, <2>2, <2>4, <2>6, <2>8, <2>10, SendKeeps DEF Moves
<1>6. CASE serveResume(i)
  <2>. DEFINE t == c.thread
              x == thread[t]
              n == IF x.runs THEN x.turns ELSE 0
  <2>1. PICK sure \in BOOLEAN :
          answers(i, [c EXCEPT !.items = 1..x.said, !.turn = n, !.sure = sure])
    BY <1>6 DEF serveResume
  <2>2. c.asks = "resume" /\ x.exists /\ t \in Threads /\ UNCHANGED <<thread, events>>
    BY <1>3, <1>6 DEF serveResume, CallOK
  <2>3. x \in ExternalThread /\ x.said \in Nat /\ x.turns \in Nat /\ (x.runs => x.turns # 0)
    BY <1>3, <2>2, ThreadIs DEF SInv, SaysInv, SaidInv
  <2>4. ResumeInv(c, events, x)
    BY <2>2 DEF SInv, ResumesInv
  <2>5. 1..x.said \in SUBSET Items /\ n \in Turns
    <3>1. x.said \in 0..MaxItems /\ x.turns \in Turns
      BY <2>3 DEF ExternalThread
    <3>. HIDE DEF x
    <3>2. \A k \in 1..x.said : k \in Items
      BY <3>1, ThreadListAssumption DEF Items
    <3>. QED BY <1>3, <3>1, <3>2
  <2>. DEFINE is == 1..x.said
              a == [c EXCEPT !.items = is, !.turn = n, !.sure = sure]
              b == [a EXCEPT !.at = "answered", !.before = Len(events)]
  <2>6. is = 1..x.said
    OBVIOUS
  <2>. HIDE DEF is, n
  <2>7. a \in Call /\ a.asks = "resume" /\ a.thread = t /\ a.local = c.local /\ a.items = is
        /\ a.turn = n /\ answers(i, a)
    BY <1>3, <2>1, <2>2, <2>5, <2>6 DEF Call, is
  <2>. HIDE DEF a
  <2>8. /\ \A j \in Slots \ {i} : calls'[j] = calls[j]
        /\ calls'[i] = b
    BY <2>2, <2>7, AnswersSame
  <2>9. b.asks = "resume" /\ b.thread = t /\ b.local = c.local /\ b.items = is /\ b.turn = n
        /\ b.before = Len(events)
    BY <2>7 DEF Call
  <2>. HIDE DEF b
  <2>10. AnswerInv(b, events, x)
    <3>1. x.runs => n # 0 /\ n = x.turns
      BY <2>3 DEF n
    <3>2. ~x.runs => n = 0
      BY DEF n
    <3>. QED BY <2>6, <2>9, <3>1, <3>2 DEF AnswerInv
  <2>11. ResumeInv(b, events, x)
    <3>1. Len(events) <= Len(events)
      BY WorldIs
    <3>. QED BY <2>2, <2>4, <2>6, <2>9, <2>10, <3>1 DEF ResumeInv
  <2>12. \A j \in Slots : calls'[j].asks = "resume" =>
           calls'[j] = calls[j] \/ ResumeInv(calls'[j], events, thread[calls'[j].thread])
    BY <2>8, <2>9, <2>11
  <2>. QED BY <1>1, <1>4, <2>2, <2>12, QuietKeeps
<1>7. CASE serveList(i)
  <2>1. PICK data \in SUBSET Threads, sure \in BOOLEAN :
          answers(i, [c EXCEPT !.data = data, !.sure = sure])
    BY <1>7 DEF serveList
  <2>. DEFINE a == [c EXCEPT !.data = data, !.sure = sure]
  <2>2. c.asks \in {"list", "older"} /\ UNCHANGED <<thread, events>>
    BY <1>7 DEF serveList
  <2>3. a \in Call /\ a.asks = c.asks
    BY <1>3 DEF Call
  <2>4. \A j \in Slots : calls'[j].asks = "resume" => calls'[j] = calls[j]
    <3>1. a.asks # "resume" /\ answers(i, a)
      BY <2>1, <2>2, <2>3
    <3>. HIDE DEF a
    <3>. QED BY <2>3, <3>1, AnswersOther
  <2>. QED BY <1>1, <1>4, <2>2, <2>4, QuietKeeps
<1>8. CASE serveArchive(i)
  <2>. DEFINE t == c.thread
              x == thread[t]
              y == thread'[t]
              f == event("archived", t, 0)
  <2>1. t \in Threads /\ x \in ExternalThread
    BY <1>3, <1>8 DEF serveArchive, CallOK
  <2>2. /\ \A u \in Threads \ {t} : thread'[u] = thread[u]
        /\ y = [x EXCEPT !.archived = TRUE]
    BY <1>3, <1>8, <2>1 DEF serveArchive
  <2>3. y.turns = x.turns /\ y.runs = x.runs /\ y.said = x.said /\ y.exists = x.exists
    BY <2>1, <2>2 DEF ExternalThread
  <2>4. f \in Events /\ f.thread = t /\ f.kind = "archived" /\ events' = Append(events, f)
    BY <1>3, <1>8, <2>1, EventOK, EventFields DEF sends, serveArchive
  <2>5. f # LastStart(t, y)
    BY <2>4, EventFields DEF LastStart
  <2>6. QuietMove(x, y, t, f)
    BY <2>3, <2>5 DEF QuietMove
  <2>7. \A j \in Slots : calls'[j].asks = "resume" => calls'[j] = calls[j]
    <3>1. answers(i, c) /\ c.asks # "resume"
      BY <1>8 DEF serveArchive
    <3>. HIDE DEF c
    <3>. QED BY <1>3, <3>1, AnswersOther
  <2>. HIDE DEF f
  <2>. QED BY <1>1, <2>1, <2>2, <2>4, <2>6, <2>7, SendKeeps DEF Moves
<1>. QED BY <1>2, <1>5, <1>6, <1>7, <1>8

-------------------------------------------------------------------------------
\* Answers are handled

LEMMA AheadLess ==
  ASSUME NEW q \in Seq(Events), NEW i \in Nat
  PROVE  /\ \A e : Ahead(q, i, e) => Ahead(q, 0, e)
         /\ \A t, n : ItemAhead(q, i, t, n) => ItemAhead(q, 0, t, n)
<1>1. \A e : Ahead(q, i, e) => Ahead(q, 0, e)
  BY DEF Ahead
<1>. QED BY <1>1 DEF ItemAhead

LEMMA EndsAsks ==
  ASSUME LInv, NEW i \in Slots, ends(i)
  PROVE  \A j \in Slots : calls'[j].asks = "resume" => j # i /\ calls'[j] = calls[j]
<1>1. NoCall.asks = "list"
  BY DEF NoCall, newCall
<1>2. /\ \A j \in Slots \ {i} : calls'[j] = calls[j]
      /\ calls'[i] = NoCall
  BY DEF ends, LInv, CallsOK
<1>. QED BY <1>1, <1>2

\* What is shown afterwards has all items of the answer: a local item is in the answer.
LEMMA MergedHas ==
  ASSUME NEW c, NEW b \in BOOLEAN, c.local \subseteq c.items
  PROVE  mergedItems(c, b) = c.items
BY DEF mergedItems

LEMMA ResumedKeeps ==
  ASSUME LInv, SInv, NEW i \in Slots, calls[i].at = "answered", resumed(i),
         UNCHANGED <<thread, events>>
  PROVE  SInv'
<1>. USE PageOK, HistoryIs, CallIs, WorldIs
<1>. DEFINE c == calls[i]
            t == c.thread
            x == thread[t]
            keeps == keepLocalProcessing(c)
            turn == IF keeps THEN page.turn[t] ELSE c.turn
            is == mergedItems(c, c.replaces \/ t \in replace)
            p == link(ensureThread(page, t), {t})
            q == setActiveTurnId(markProcessing(p, t, keeps \/ turn # 0), t, turn)
<1>1. c.asks = "resume" /\ t \in Threads /\ c \in Call /\ x \in ExternalThread
  BY DEF resumed
<1>2. /\ x.said \in Nat /\ x.turns \in Nat /\ x.runs \in BOOLEAN
      /\ c.before \in Nat
  BY <1>1, ThreadIs, ThreadListAssumption
<1>3. /\ c.local \subseteq c.items /\ c.items \subseteq 1..x.said
      /\ ~c.behind => AnswerInv(c, events, x)
  BY <1>1 DEF SInv, ResumesInv, ResumeInv
<1>4. keeps \in BOOLEAN /\ turn \in Turns
  BY <1>1 DEF keepLocalProcessing
<1>5. is = c.items
  <2>1. (c.replaces \/ t \in replace) \in BOOLEAN
    BY <1>1 DEF Call
  <2>. QED BY <1>3, <2>1, MergedHas
<1>6. p \in Pages /\ SameShown(page, p, dropped)
  <2>1. Good(ensureThread(page, t), dropped) /\ SameShown(page, ensureThread(page, t), dropped)
    BY <1>1, EnsureGood, EnsureSame
  <2>2. ensureThread(page, t) \in Pages
    BY <2>1 DEF Good
  <2>3. {t} \in SUBSET Threads
    BY <1>1
  <2>4. Good(p, dropped)
    BY <2>1, <2>3, LinkGood
  <2>5. SameShown(ensureThread(page, t), p, dropped)
    BY <2>2, LinkSame
  <2>. QED BY <2>1, <2>4, <2>5, SameAfter DEF Good
<1>7. page' = IF is = {} THEN q ELSE setThreadItems(q, t, is)
  BY DEF resumed
<1>. DEFINE on == keeps \/ turn # 0
<1>8. on \in BOOLEAN /\ is \in SUBSET Items
  BY <1>4, <1>5
<1>. HIDE DEF p, is
<1>9. /\ page'.turn[t] = turn
      /\ page'.items[t] = IF is = {} THEN page.items[t] ELSE prepareThreadItems(is)
      /\ t \in page'.processing <=> on
      /\ \A u \in Threads \ {t} : page'.turn[u] = page.turn[u] /\ page'.items[u] = page.items[u]
      /\ \A u \in Threads \ {t} :
           u \notin dropped => (u \in page'.processing <=> u \in page.processing)
  <2>. DEFINE m == markProcessing(p, t, on)
              a == setActiveTurnId(m, t, turn)
  <2>1. a = q
    OBVIOUS
  <2>. HIDE DEF on, turn, q, t
  <2>2. /\ m \in Pages /\ m.turn = p.turn /\ m.items = p.items
        /\ m.processing = IF on THEN p.processing \cup {t} ELSE p.processing \ {t}
    BY <1>1, <1>6 DEF markProcessing, Pages
  <2>. HIDE DEF m
  <2>3. /\ a \in Pages /\ a.turn = [m.turn EXCEPT ![t] = turn] /\ a.items = m.items
        /\ a.processing = m.processing
    BY <1>1, <1>4, <2>2 DEF setActiveTurnId, Pages
  <2>. HIDE DEF a
  <2>4. /\ page'.turn = a.turn /\ page'.processing = a.processing
        /\ page'.items = IF is = {} THEN a.items
                         ELSE [a.items EXCEPT ![t] = prepareThreadItems(is)]
    BY <1>7, <2>1, <2>3 DEF setThreadItems, Pages
  <2>5. /\ p.turn = page.turn /\ p.items = page.items
        /\ \A u \in Threads : u \notin dropped => (u \in p.processing <=> u \in page.processing)
    BY <1>6 DEF SameShown
  <2>. QED BY <1>1, <2>2, <2>3, <2>4, <2>5
<1>10. /\ told' = [told EXCEPT ![t] = @ \cup c.items]
       /\ overtaken' = IF c.behind THEN overtaken \cup {t}
                       ELSE IF c.sure \/ c.turn # 0 THEN overtaken \ {t} ELSE overtaken
       /\ dropped' = dropped /\ unseen' = unseen \ {t} /\ ends(i)
  BY DEF resumed
<1>11. /\ told'[t] = told[t] \cup c.items
       /\ \A u \in Threads \ {t} :
            /\ told'[u] = told[u] /\ (u \in overtaken' <=> u \in overtaken)
            /\ u \in unseen' <=> u \in unseen
  BY <1>1, <1>10
<1>12. EventsInv' /\ ResumesInv'
  <2>1. EventsInv'
    BY DEF SInv, EventsInv
  <2>2. \A j \in Slots : calls'[j].asks = "resume" => calls'[j] = calls[j]
    BY <1>10, EndsAsks
  <2>. QED BY <2>1, <2>2 DEF SInv, ResumesInv
<1>13. SaysInv'
  <2>1. ASSUME NEW u \in Threads
        PROVE  SaidInv(thread[u], told'[u], page'.items[u])
    <3>1. SaidInv(thread[u], told[u], page.items[u])
      BY DEF SInv, SaysInv
    <3>2. CASE u = t
      <4>1. prepareThreadItems(is) \subseteq is
        BY DEF prepareThreadItems
      <4>. QED BY <1>3, <1>5, <1>9, <1>11, <3>1, <3>2, <4>1 DEF SaidInv
    <3>3. CASE u # t
      BY <1>9, <1>11, <3>1, <3>3
    <3>. QED BY <3>2, <3>3
  <2>. QED BY <2>1 DEF SaysInv
<1>14. ShownInv'
  <2>1. ASSUME NEW u \in Threads \ overtaken'
        PROVE  ItemsInv(events, u, told'[u], page'.items[u])
    <3>1. CASE u = t
      <4>1. AnswerInv(c, events, x)
        BY <1>3, <1>10, <2>1, <3>1
      <4>2. told'[t] \subseteq 1..x.said
        BY <1>1, <1>13 DEF SaysInv, SaidInv
      <4>3. \A n \in c.items : n \in prepareThreadItems(told'[t]) => n \in page'.items[t]
        <5>. DEFINE T == told'[t]
        <5>1. T \in SUBSET Items /\ c.items \in SUBSET T
          BY <1>1, <1>11
        <5>. HIDE DEF T
        <5>2. \A n \in c.items : n \in prepareThreadItems(T) => n \in prepareThreadItems(c.items)
          BY <5>1, PrepareKeeps
        <5>. QED BY <1>5, <1>9, <5>2 DEF T
      <4>5. prepareThreadItems(told'[t]) \subseteq told'[t]
        BY DEF prepareThreadItems
      <4>4. \A n \in 1..x.said : n \in c.items \/ ItemAhead(events, 0, t, n)
        BY <1>2, <4>1, AheadLess DEF AnswerInv
      <4>. QED BY <3>1, <4>2, <4>3, <4>4, <4>5 DEF ItemsInv
    <3>2. CASE u # t
      BY <1>9, <1>11, <2>1, <3>2 DEF SInv, ShownInv
    <3>. QED BY <3>1, <3>2
  <2>. QED BY <2>1 DEF ShownInv
<1>15. RunsInv'
  <2>1. ASSUME NEW u \in Threads \ (overtaken' \cup dropped)
        PROVE  TurnInv(events, u, thread[u], u \in page'.processing, page'.turn[u], u \in unseen')
    <3>1. CASE u # t
      <4>1. TurnInv(events, u, thread[u], u \in page.processing, page.turn[u], u \in unseen)
        BY <1>11, <2>1, <3>1 DEF SInv, RunsInv
      <4>. QED BY <1>9, <1>11, <2>1, <3>1, <4>1 DEF TurnInv
    <3>2. CASE u = t
      <4>1. /\ AnswerInv(c, events, x)
            /\ c.sure \/ c.turn # 0 \/ t \notin overtaken
        BY <1>3, <1>10, <2>1, <3>2
      <4>2. \A e : Ahead(events, c.before, e) => Ahead(events, 0, e)
        BY <1>2, AheadLess
      <4>3. TurnInv(events, t, x, on, turn, FALSE)
        <5>1. CASE c.turn # 0
          <6>1. turn = c.turn /\ on
            BY <5>1 DEF keepLocalProcessing
          <6>2. c.turn = x.turns \/ Ahead(events, 0, LastStart(t, x))
            BY <4>1, <4>2, <5>1 DEF AnswerInv
          <6>3. ASSUME ~x.runs
                PROVE  Ahead(events, 0, LastEnd(t, x))
            <7>1. CASE c.turn = x.turns
              BY <4>1, <4>2, <5>1, <6>3, <7>1 DEF AnswerInv
            <7>2. CASE c.turn # x.turns
              <8>1. PICK j \in 1..Len(events) : events[j] = LastStart(t, x)
                BY <6>2, <7>2 DEF Ahead
              <8>2. events[j].kind = "turnStarted" /\ events[j].thread = t
                BY <8>1, EventFields DEF LastStart
              <8>3. EventInv(events, j, x)
                BY <8>2 DEF SInv, EventsInv
              <8>4. Ahead(events, j, LastEnd(t, x))
                BY <6>3, <8>2, <8>3 DEF EventInv
              <8>. QED BY <8>4, AheadLess
            <7>. QED BY <7>1, <7>2
          <6>. HIDE DEF on, turn, x, t
          <6>. QED BY <6>1, <6>2, <6>3 DEF TurnInv
        <5>2. CASE c.turn = 0 /\ keeps
          <6>1. /\ t \in page.processing /\ ~c.sure /\ turn = page.turn[t] /\ on
            BY <5>2 DEF keepLocalProcessing
          <6>2. TurnInv(events, t, x, t \in page.processing, page.turn[t], t \in unseen)
            BY <1>1, <2>1, <3>2, <4>1, <5>2, <6>1 DEF SInv, RunsInv
          <6>. HIDE DEF on, turn, x, t
          <6>. QED BY <6>1, <6>2 DEF TurnInv
        <5>3. CASE c.turn = 0 /\ ~keeps
          <6>1. turn = 0 /\ ~on
            BY <5>3
          <6>2. x.runs => Ahead(events, 0, LastStart(t, x))
            BY <4>1, <4>2, <5>3 DEF AnswerInv
          <6>. HIDE DEF on, turn, x, t
          <6>. QED BY <6>1, <6>2 DEF TurnInv
        <5>. QED BY <5>1, <5>2, <5>3
      <4>. HIDE DEF on, turn
      <4>. QED BY <1>9, <3>2, <4>3 DEF TurnInv
    <3>. QED BY <3>1, <3>2
  <2>. QED BY <1>10, <2>1 DEF RunsInv
<1>. QED BY <1>12, <1>13, <1>14, <1>15 DEF SInv

LEMMA ArchivedKeeps ==
  ASSUME LInv, SInv, NEW i \in Slots, NEW failure \in BOOLEAN, archived(i, failure),
         UNCHANGED <<thread, events>>
  PROVE  SInv'
<1>1. UNCHANGED <<page, told, overtaken, dropped, unseen>>
  BY DEF archived, historyVars
<1>2. SameShown(page, page', dropped')
  BY <1>1 DEF SameShown
<1>3. \A j \in Slots : calls'[j].asks = "resume" => calls'[j] = calls[j]
  <2>1. CASE ends(i)
    BY <2>1, EndsAsks
  <2>2. ASSUME NEW d \in archiveOneOf(calls[i].rest), calls' = [calls EXCEPT ![i] = d]
        PROVE  \A j \in Slots : calls'[j].asks = "resume" => calls'[j] = calls[j]
    <3>1. d.asks = "cascade"
      BY DEF archiveOneOf, newCall
    <3>2. /\ \A j \in Slots \ {i} : calls'[j] = calls[j]
          /\ calls'[i] = d
      BY <2>2 DEF LInv, CallsOK
    <3>. QED BY <3>1, <3>2
  <2>. QED BY <2>1, <2>2 DEF archived
<1>. QED BY <1>1, <1>2, <1>3, QuietKeeps

LEMMA AnsweredKeeps ==
  ASSUME LInv, SInv, Answered
  PROVE  SInv'
<1>. USE PageOK, HistoryIs, CallIs
<1>1. UNCHANGED <<thread, events, budget>>
  BY DEF Answered
<1>2. PICK i \in Slots :
        /\ calls[i].at = "answered"
        /\ \/ started(i) \/ forked(i) \/ resumed(i) \/ listed(i) \/ listedOlder(i)
           \/ archived(i, FALSE)
  BY DEF Answered
<1>. DEFINE c == calls[i]
            t == c.thread
<1>3. CASE started(i)
  <2>1. t \in Threads
    BY <1>2, <1>3 DEF started, CallOK
  <2>2. UNCHANGED <<told, overtaken, dropped, unseen>> /\ SameShown(page, page', dropped)
    BY <1>3, <2>1, ShowSame DEF started, historyVars
  <2>3. ends(i)
    BY <1>3 DEF started
  <2>. QED BY <1>1, <2>2, <2>3, EndsAsks, QuietKeeps
<1>4. CASE forked(i)
  <2>1. t \in Threads
    BY <1>4 DEF forked, CallOK
  <2>2. UNCHANGED <<told, overtaken, dropped, unseen>> /\ SameShown(page, page', dropped)
    BY <1>4, <2>1, ShowSame DEF forked, historyVars
  <2>. DEFINE d == resume(t, {}, TRUE)
  <2>3. d.thread = t /\ ResumeInv(d, events, thread[t])
    BY DEF resume, newCall, ResumeInv
  <2>. HIDE DEF d
  <2>4. \A j \in Slots : calls'[j] = calls[j] \/ calls'[j] = d
    BY <1>4 DEF forked, d, LInv, CallsOK
  <2>5. \A j \in Slots : calls'[j].asks = "resume" =>
          calls'[j] = calls[j] \/ ResumeInv(calls'[j], events, thread[calls'[j].thread])
    BY <2>3, <2>4
  <2>. QED BY <1>1, <2>2, <2>5, QuietKeeps
<1>5. CASE listed(i)
  <2>. DEFINE more == (Cardinality(c.data) > Target) \/ ~c.sure
  <2>1. PICK latest \in SUBSET c.data :
          page' = [setThreadsAnchored(link(page, c.data), summaries(c, latest))
                     EXCEPT !.cursor = more]
    BY <1>5 DEF listed
  <2>. DEFINE l == link(page, c.data)
              p == setThreadsAnchored(l, summaries(c, latest))
  <2>2. SameShown(page, l, dropped)
    BY LinkSame
  <2>3. Good(l, dropped) /\ summaries(c, latest) \in SUBSET Threads
    BY LinkGood DEF summaries
  <2>. HIDE DEF l
  <2>4. l \in Pages
    BY <2>3 DEF Good
  <2>5. Good(p, dropped) /\ SameShown(l, p, dropped)
    BY <2>3, <2>4, AnchoredGood, ListSame
  <2>. HIDE DEF p, more
  <2>6. p \in Pages /\ SameShown(l, p, dropped)
    BY <2>5 DEF Good
  <2>7. SameShown(p, page', dropped)
    BY <2>1, <2>6, CursorSame DEF l, p
  <2>8. SameShown(page, page', dropped)
    BY <2>2, <2>6, <2>7, SameAfter
  <2>9. UNCHANGED <<told, overtaken, dropped, unseen>> /\ ends(i)
    BY <1>5 DEF listed, historyVars
  <2>. QED BY <1>1, <2>8, <2>9, EndsAsks, QuietKeeps
<1>6. CASE listedOlder(i)
  <2>. DEFINE s == link(page, c.data \ c.list)
              all == c.list \cup c.data
              more == ~c.sure
              e == dropped'
  <2>1. s \in Pages /\ SameShown(page, s, e)
    <3>1. Good(s, dropped)
      BY LinkGood
    <3>2. SameShown(page, s, e)
      BY LinkSame
    <3>. HIDE DEF s, e
    <3>. QED BY <3>1, <3>2 DEF Good
  <2>2. SameShown(s, page', e)
    <3>1. CASE page' = [s EXCEPT !.cursor = more]
      <4>. HIDE DEF s, more, e
      <4>. QED BY <2>1, <3>1, CursorSame
    <3>2. ASSUME NEW first \in firstOf(visible(s, all)),
                 page' = [setThreads(s, all, first) EXCEPT !.cursor = more]
          PROVE  SameShown(s, page', e)
      <4>. DEFINE p == setThreads(s, all, first)
      <4>1. SameShown(s, p, e)
        BY <2>1, ListSame
      <4>2. p \in Pages
        <5>1. Good(s, dropped) /\ all \in SUBSET Threads
          BY LinkGood
        <5>. HIDE DEF s, all
        <5>. QED BY <3>2, <5>1, ThreadsGood DEF Good
      <4>. HIDE DEF p, s, more, e
      <4>3. SameShown(p, page', e)
        BY <3>2, <4>2, CursorSame DEF p
      <4>. QED BY <4>1, <4>3, SameAfter
    <3>. QED BY <1>6, <3>1, <3>2 DEF listedOlder
  <2>3. SameShown(page, page', e)
    BY <2>1, <2>2, SameAfter
  <2>4. UNCHANGED <<told, overtaken, unseen>> /\ ends(i) /\ dropped \subseteq dropped'
    BY <1>6 DEF listedOlder
  <2>. QED BY <1>1, <2>3, <2>4, EndsAsks, QuietKeeps
<1>. QED BY <1>1, <1>2, <1>3, <1>4, <1>5, <1>6, ResumedKeeps, ArchivedKeeps

LEMMA FailsKeeps ==
  ASSUME LInv, SInv, Fails
  PROVE  SInv'
<1>1. UNCHANGED <<thread, events, budget>>
  BY DEF Fails
<1>2. PICK i \in Slots : failed(i) \/ archived(i, TRUE)
  BY DEF Fails
<1>3. CASE failed(i)
  <2>1. UNCHANGED <<page, told, overtaken, dropped, unseen>> /\ ends(i)
    BY <1>3 DEF failed, historyVars
  <2>2. SameShown(page, page', dropped')
    BY <2>1 DEF SameShown
  <2>. QED BY <1>1, <2>1, <2>2, EndsAsks, QuietKeeps
<1>. QED BY <1>1, <1>2, <1>3, ArchivedKeeps

-------------------------------------------------------------------------------
\* Events are handled

\* What is said of a thread does not change when an event of another, or of another kind,
\* is handled.
LEMMA TailKeeps ==
  ASSUME NEW q \in Seq(Events), q # <<>>, NEW u, NEW x
  PROVE  /\ Head(q).thread # u \/ Head(q).kind \notin {"turnStarted", "turnCompleted"} =>
              \A on, turn, old : TurnInv(q, u, x, on, turn, old) => TurnInv(Tail(q), u, x, on, turn, old)
         /\ Head(q).thread # u \/ Head(q).kind \notin ItemKinds =>
              \A heard, shown : ItemsInv(q, u, heard, shown) => ItemsInv(Tail(q), u, heard, shown)
<1>. DEFINE r == Tail(q)
            e == Head(q)
<1>1. \A d : d # e => (Ahead(q, 0, d) <=> Ahead(r, 0, d))
  BY AheadTail
<1>2. \A n : (\A kind \in ItemKinds : event(kind, u, n) # e) =>
               (ItemAhead(q, 0, u, n) <=> ItemAhead(r, 0, u, n))
  BY ItemTail
<1>. HIDE DEF r, e
<1>3. ASSUME e.thread # u \/ e.kind \notin {"turnStarted", "turnCompleted"}
      PROVE  \A on, turn, old : TurnInv(q, u, x, on, turn, old) => TurnInv(r, u, x, on, turn, old)
  <2>1. LastStart(u, x) # e /\ LastEnd(u, x) # e
    BY <1>3, EventFields DEF LastStart, LastEnd
  <2>. QED BY <1>1, <2>1 DEF TurnInv
<1>4. ASSUME e.thread # u \/ e.kind \notin ItemKinds
      PROVE  \A heard, shown : ItemsInv(q, u, heard, shown) => ItemsInv(r, u, heard, shown)
  <2>1. \A n : \A kind \in ItemKinds : event(kind, u, n) # e
    BY <1>4, EventFields
  <2>. QED BY <1>2, <2>1 DEF ItemsInv
<1>. QED BY <1>3, <1>4 DEF r, e

LEMMA TailEvents ==
  ASSUME NEW q \in Seq(Events), q # <<>>, NEW i \in 1..Len(Tail(q)), NEW x,
         EventInv(q, i + 1, x)
  PROVE  EventInv(Tail(q), i, x)
<1>. DEFINE r == Tail(q)
<1>1. i \in Nat /\ r[i] = q[i + 1] /\ \A e : Ahead(q, i + 1, e) <=> Ahead(r, i, e)
  BY AheadTail
<1>. HIDE DEF r
<1>. QED BY <1>1 DEF EventInv, r

\* An answer that knows all that is not behind it still does when an event is handled:
\* the event was before it, or of another thread, or it is behind now.
LEMMA PassedKeeps ==
  ASSUME LInv, SInv, events # <<>>, NEW i \in Slots, calls[i].asks = "resume"
  PROVE  LET d == passed(Head(events).thread)[i]
         IN d.thread = calls[i].thread /\ ResumeInv(d, Tail(events), thread[d.thread])
<1>. DEFINE q == events
            r == Tail(events)
            h == Head(events).thread
            c == calls[i]
            t == c.thread
            x == thread[t]
            d == passed(h)[i]
<1>1. /\ c \in Call /\ q \in Seq(Events) /\ ResumeInv(c, q, x) /\ c.before \in Nat
      /\ c.behind \in BOOLEAN
  BY WorldIs, ThreadListAssumption DEF SInv, ResumesInv, Call
<1>2. /\ Len(r) = Len(q) - 1 /\ Len(q) \in Nat
      /\ \A k \in Nat : \A e : Ahead(q, k + 1, e) <=> Ahead(r, k, e)
      /\ \A e : e # Head(q) => (Ahead(q, 0, e) <=> Ahead(r, 0, e))
      /\ \A k \in Nat : \A n : ItemAhead(q, k + 1, t, n) <=> ItemAhead(r, k, t, n)
      /\ \A n : (\A kind \in ItemKinds : event(kind, t, n) # Head(q)) =>
                  (ItemAhead(q, 0, t, n) <=> ItemAhead(r, 0, t, n))
  BY <1>1, AheadTail, ItemTail
<1>3. d = IF c.at # "answered" THEN c
          ELSE IF c.before > 0 THEN [c EXCEPT !.before = c.before - 1]
          ELSE [c EXCEPT !.behind = c.behind \/ c.thread = h]
  BY DEF passed
<1>. SUFFICES d.thread = t /\ ResumeInv(d, r, x)
  OBVIOUS
<1>. HIDE DEF c, r, q, d, x
<1>4. CASE c.at # "answered"
  BY <1>1, <1>3, <1>4 DEF ResumeInv
<1>5. CASE c.at = "answered" /\ c.before > 0
  <2>1. /\ d.before = c.before - 1 /\ d.thread = t /\ d.local = c.local /\ d.items = c.items
        /\ d.turn = c.turn /\ d.at = c.at /\ d.behind = c.behind
    BY <1>1, <1>3, <1>5 DEF Call
  <2>2. d.before \in Nat /\ d.before + 1 = c.before
    BY <1>1, <1>5, <2>1
  <2>3. /\ \A e : Ahead(q, c.before, e) => Ahead(r, d.before, e)
        /\ \A n : ItemAhead(q, c.before, t, n) => ItemAhead(r, d.before, t, n)
    BY <1>2, <2>2
  <2>4. AnswerInv(c, q, x) => AnswerInv(d, r, x)
    BY <2>1, <2>3 DEF AnswerInv
  <2>5. c.before <= Len(q) => d.before <= Len(r)
    BY <1>1, <1>2, <2>1
  <2>6. ResumeInv(d, r, x)
    BY <1>1, <2>1, <2>4, <2>5 DEF ResumeInv
  <2>. QED BY <2>1, <2>6
<1>6. CASE c.at = "answered" /\ c.before = 0
  <2>1. /\ d.before = 0 /\ d.thread = t /\ d.local = c.local /\ d.items = c.items
        /\ d.turn = c.turn /\ d.at = c.at /\ (d.behind <=> c.behind \/ t = h)
    <3>. DEFINE v == c.behind \/ c.thread = h
    <3>1. v \in BOOLEAN /\ d = [c EXCEPT !.behind = v]
      BY <1>1, <1>3, <1>6
    <3>2. v <=> c.behind \/ t = h
      OBVIOUS
    <3>. HIDE DEF v
    <3>. QED BY <1>1, <1>6, <3>1, <3>2 DEF Call
  <2>2. 0 <= Len(r)
    BY <1>2 DEF r
  <2>3. ASSUME t # h, AnswerInv(c, q, x)
        PROVE  AnswerInv(d, r, x)
    <3>1. \A n, kind : event(kind, t, n) # Head(q)
      BY <2>3, EventFields DEF q
    <3>2. /\ LastStart(t, x) # Head(q) /\ LastEnd(t, x) # Head(q)
          /\ \A n : ItemAhead(q, 0, t, n) => ItemAhead(r, 0, t, n)
      BY <1>2, <3>1 DEF LastStart, LastEnd
    <3>. QED BY <1>2, <1>6, <2>1, <2>3, <3>2 DEF AnswerInv
  <2>4. ResumeInv(d, r, x)
    BY <1>1, <1>6, <2>1, <2>2, <2>3 DEF ResumeInv
  <2>. QED BY <2>1, <2>4
<1>. QED BY <1>1, <1>4, <1>5, <1>6

\* An event is handled: what is to be shown of its own thread
LEMMA HandleKeeps ==
  ASSUME LInv, SInv, events # <<>>, events' = Tail(events),
         UNCHANGED <<thread, overtaken, dropped>>,
         NEW t, t = Head(events).thread,
         \A u \in Threads \ {t} :
           /\ page'.items[u] = page.items[u] /\ page'.turn[u] = page.turn[u]
           /\ told'[u] = told[u] /\ (u \in unseen' <=> u \in unseen)
           /\ u \notin dropped => (u \in page'.processing <=> u \in page.processing),
         SaidInv(thread[t], told'[t], page'.items[t]),
         t \notin overtaken => ItemsInv(events', t, told'[t], page'.items[t]),
         t \notin overtaken \cup dropped =>
           TurnInv(events', t, thread[t], t \in page'.processing, page'.turn[t], t \in unseen'),
         \A i \in Slots : calls'[i].asks = "resume" =>
           calls[i].asks = "resume" /\ calls'[i] = passed(t)[i]
  PROVE  SInv'
<1>. DEFINE q == events
            r == events'
<1>1. q \in Seq(Events)
  BY WorldIs
<1>2. EventsInv'
  <2>1. ASSUME NEW i \in 1..Len(r)
        PROVE  EventInv(r, i, thread[r[i].thread])
    <3>1. i + 1 \in 1..Len(q) /\ r[i] = q[i + 1]
      BY <1>1, AheadTail
    <3>2. EventInv(q, i + 1, thread[q[i + 1].thread])
      BY <3>1 DEF SInv, EventsInv
    <3>. QED BY <1>1, <3>1, <3>2, TailEvents
  <2>. QED BY <2>1 DEF EventsInv
<1>3. SaysInv'
  BY DEF SInv, SaysInv
<1>4. ShownInv'
  <2>1. ASSUME NEW u \in Threads \ overtaken, u # t
        PROVE  ItemsInv(r, u, told'[u], page'.items[u])
    BY <1>1, <2>1, TailKeeps DEF SInv, ShownInv
  <2>. QED BY <2>1 DEF ShownInv
<1>5. RunsInv'
  <2>1. ASSUME NEW u \in Threads \ (overtaken \cup dropped), u # t
        PROVE  TurnInv(r, u, thread[u], u \in page'.processing, page'.turn[u], u \in unseen')
    <3>1. TurnInv(q, u, thread[u], u \in page.processing, page.turn[u], u \in unseen)
      BY DEF SInv, RunsInv
    <3>2. TurnInv(r, u, thread[u], u \in page.processing, page.turn[u], u \in unseen)
      BY <1>1, <2>1, <3>1, TailKeeps
    <3>. QED BY <2>1, <3>2 DEF TurnInv
  <2>. QED BY <2>1 DEF RunsInv
<1>6. ResumesInv'
  BY PassedKeeps DEF ResumesInv
<1>. QED BY <1>2, <1>3, <1>4, <1>5, <1>6 DEF SInv

\* The thread of the first event, with what is known of it
LEMMA HeadIs ==
  ASSUME LInv, SInv, events # <<>>
  PROVE  LET e == Head(events)
             t == e.thread
             x == thread[t]
         IN /\ t \in Threads /\ x \in ExternalThread /\ page.turn[t] \in Turns
            /\ EventInv(events, 1, x) /\ e = events[1]
            /\ SaidInv(x, told[t], page.items[t])
            /\ t \notin overtaken => ItemsInv(events, t, told[t], page.items[t])
            /\ t \notin overtaken \cup dropped =>
                 TurnInv(events, t, x, t \in page.processing, page.turn[t], t \in unseen)
<1>1. 1 \in 1..Len(events) /\ Head(events) = events[1]
  BY WorldIs, AheadTail
<1>2. Head(events).thread \in Threads
  BY EventIs
<1>. QED BY <1>1, <1>2, WorldIs DEF SInv, EventsInv, SaysInv, ShownInv, RunsInv

\* Events that are not about turns or items
LEMMA OtherEventKeeps ==
  ASSUME LInv, SInv, events # <<>>, events' = Tail(events),
         UNCHANGED <<thread, overtaken, dropped, told, unseen>>,
         Head(events).kind \in {"started", "archived", "unarchived"},
         SameShown(page, page', dropped),
         \A i \in Slots : calls'[i].asks = "resume" =>
           calls[i].asks = "resume" /\ calls'[i] = passed(Head(events).thread)[i]
  PROVE  SInv'
<1>. DEFINE t == Head(events).thread
            x == thread[t]
<1>1. events \in Seq(Events) /\ t \in Threads
  BY WorldIs, HeadIs
<1>2. page'.items = page.items /\ page'.turn = page.turn
      /\ \A u \in Threads \ dropped : u \in page'.processing <=> u \in page.processing
  BY DEF SameShown
<1>3. SaidInv(x, told'[t], page'.items[t])
  BY <1>2, HeadIs
<1>4. t \notin overtaken => ItemsInv(events', t, told'[t], page'.items[t])
  BY <1>1, <1>2, HeadIs, TailKeeps DEF ItemKinds
<1>5. t \notin overtaken \cup dropped =>
        TurnInv(events', t, x, t \in page'.processing, page'.turn[t], t \in unseen')
  <2>1. t \notin overtaken \cup dropped =>
          TurnInv(events', t, x, t \in page.processing, page.turn[t], t \in unseen)
    BY <1>1, HeadIs, TailKeeps
  <2>. QED BY <1>1, <1>2, <2>1 DEF TurnInv
<1>. HIDE DEF t
<1>6. \A u \in Threads \ {t} :
        /\ page'.items[u] = page.items[u] /\ page'.turn[u] = page.turn[u]
        /\ told'[u] = told[u]
        /\ u \notin dropped => (u \in page'.processing <=> u \in page.processing)
  BY <1>2
<1>7. \A i \in Slots : calls'[i].asks = "resume" =>
        calls[i].asks = "resume" /\ calls'[i] = passed(t)[i]
  BY DEF t
<1>8. t = Head(events).thread
  BY DEF t
<1>. QED BY <1>3, <1>4, <1>5, <1>6, <1>7, <1>8, HandleKeeps

LEMMA PassedAsks ==
  ASSUME LInv, NEW t, NEW i \in Slots
  PROVE  passed(t)[i].asks = calls[i].asks
<1>1. calls[i] \in Call
  BY CallIs
<1>. QED BY <1>1 DEF passed, Call

LEMMA MarkIs ==
  ASSUME NEW s \in Pages, NEW t \in Threads
  PROVE  /\ SameShown(s, markProcessing(s, t, TRUE), {t})
         /\ SameShown(s, markProcessing(s, t, FALSE), {t})
         /\ t \in markProcessing(s, t, TRUE).processing
         /\ t \notin markProcessing(s, t, FALSE).processing
         /\ markProcessing(s, t, TRUE) \in Pages /\ markProcessing(s, t, FALSE) \in Pages
BY DEF SameShown, markProcessing, Pages

LEMMA TurnIs ==
  ASSUME NEW s \in Pages, NEW t \in Threads, NEW n \in Turns
  PROVE  /\ setActiveTurnId(s, t, n).turn[t] = n
         /\ \A u \in Threads \ {t} : setActiveTurnId(s, t, n).turn[u] = s.turn[u]
         /\ setActiveTurnId(s, t, n).items = s.items
         /\ setActiveTurnId(s, t, n).processing = s.processing
BY DEF setActiveTurnId, Pages

LEMMA UpsertIs ==
  ASSUME NEW s \in Pages, NEW t \in Threads, NEW n \in Items
  PROVE  /\ upsertItem(s, t, n).items = [s.items EXCEPT ![t] = prepareThreadItems(@ \cup {n})]
         /\ upsertItem(s, t, n).turn = s.turn
         /\ upsertItem(s, t, n).processing = s.processing
BY DEF upsertItem, Pages

LEMMA EnsureIs ==
  ASSUME LInv, NEW t \in Threads
  PROVE  ensureThread(page, t) \in Pages /\ SameShown(page, ensureThread(page, t), dropped)
BY PageOK, EnsureGood, EnsureSame DEF Good

LEMMA TurnStartedKeeps ==
  ASSUME LInv, SInv, OnEvent, Head(events).kind = "turnStarted",
         onTurnStarted(Head(events).thread, Head(events).n)
  PROVE  SInv'
<1>. DEFINE e == Head(events)
            t == e.thread
            n == e.n
            x == thread[t]
            q == events
<1>1. /\ q # <<>> /\ events' = Tail(q) /\ q \in Seq(Events)
      /\ UNCHANGED <<thread, overtaken, dropped, told>> /\ calls' = passed(t)
      /\ unseen' = unseen \ {t}
  BY WorldIs DEF OnEvent, onTurnStarted
<1>2. /\ t \in Threads /\ n \in Turns /\ x \in ExternalThread /\ x.turns \in Nat
  BY <1>1, HeadIs, EventIs, ThreadIs
<1>3. /\ page'.items = page.items /\ page'.turn[t] = n /\ t \in page'.processing
      /\ \A u \in Threads \ {t} :
           /\ page'.turn[u] = page.turn[u]
           /\ u \notin dropped => (u \in page'.processing <=> u \in page.processing)
  <2>. DEFINE a == ensureThread(page, t)
              m == markProcessing(a, t, TRUE)
  <2>1. a \in Pages /\ SameShown(page, a, dropped)
    BY <1>2, EnsureIs
  <2>2. page' = setActiveTurnId(m, t, n)
    BY DEF onTurnStarted
  <2>. HIDE DEF a, t, n
  <2>3. m \in Pages /\ SameShown(a, m, {t}) /\ t \in m.processing
    BY <1>2, <2>1, MarkIs
  <2>. HIDE DEF m
  <2>4. /\ page'.turn[t] = n /\ page'.items = m.items /\ page'.processing = m.processing
        /\ \A u \in Threads \ {t} : page'.turn[u] = m.turn[u]
    BY <1>2, <2>2, <2>3, TurnIs
  <2>. QED BY <2>1, <2>3, <2>4 DEF SameShown
<1>4. SaidInv(x, told'[t], page'.items[t])
  BY <1>1, <1>3, HeadIs
<1>5. t \notin overtaken => ItemsInv(events', t, told'[t], page'.items[t])
  BY <1>1, <1>3, HeadIs, TailKeeps DEF ItemKinds
<1>6. TurnInv(events', t, x, t \in page'.processing, page'.turn[t], t \in unseen')
  <2>1. EventInv(q, 1, x) /\ e = q[1]
    BY <1>1, HeadIs
  <2>2. \A d : Ahead(q, 1, d) <=> Ahead(events', 0, d)
    <3>1. \A i \in Nat : \A d : Ahead(q, i + 1, d) <=> Ahead(Tail(q), i, d)
      BY <1>1, AheadTail
    <3>2. \A d : Ahead(q, 0 + 1, d) <=> Ahead(Tail(q), 0, d)
      BY <3>1
    <3>. QED BY <1>1, <3>2
  <2>3. n = x.turns \/ Ahead(q, 1, LastStart(t, x))
    BY <2>1 DEF EventInv
  <2>4. ~x.runs => Ahead(q, 1, LastEnd(t, x))
    BY <2>1 DEF EventInv
  <2>. QED BY <1>3, <2>2, <2>3, <2>4 DEF TurnInv
<1>7. \A i \in Slots : calls'[i].asks = "resume" =>
        calls[i].asks = "resume" /\ calls'[i] = passed(t)[i]
  BY <1>1, PassedAsks
<1>8. \A u \in Threads \ {t} :
        /\ page'.items[u] = page.items[u] /\ page'.turn[u] = page.turn[u]
        /\ told'[u] = told[u] /\ (u \in unseen' <=> u \in unseen)
        /\ u \notin dropped => (u \in page'.processing <=> u \in page.processing)
  BY <1>1, <1>3
<1>9. t = Head(events).thread
  OBVIOUS
<1>. HIDE DEF t
<1>. QED BY <1>1, <1>4, <1>5, <1>6, <1>7, <1>8, <1>9, HandleKeeps

LEMMA TurnCompletedKeeps ==
  ASSUME LInv, SInv, OnEvent, Head(events).kind = "turnCompleted",
         onTurnCompleted(Head(events).thread, Head(events).n)
  PROVE  SInv'
<1>. DEFINE e == Head(events)
            t == e.thread
            n == e.n
            x == thread[t]
            q == events
            other == isOtherTurn(t, n)
<1>1. /\ q # <<>> /\ events' = Tail(q) /\ q \in Seq(Events)
      /\ UNCHANGED <<thread, overtaken, dropped, told>> /\ calls' = passed(t)
      /\ unseen' = unseen \ {t}
  BY WorldIs DEF OnEvent, onTurnCompleted
<1>2. /\ t \in Threads /\ n \in Turns /\ x \in ExternalThread /\ x.turns \in Nat /\ 0 \in Turns
  BY <1>1, HeadIs, EventIs, ThreadIs, ThreadListAssumption DEF Turns
<1>3. /\ page'.items = page.items
      /\ \A u \in Threads \ {t} :
           /\ page'.turn[u] = page.turn[u]
           /\ u \notin dropped => (u \in page'.processing <=> u \in page.processing)
      /\ ~other => page'.turn[t] = 0 /\ t \notin page'.processing
      /\ other => page' = page
  <2>1. CASE other
    BY <2>1 DEF onTurnCompleted
  <2>2. CASE ~other
    <3>. DEFINE a == ensureThread(page, t)
                m == markProcessing(a, t, FALSE)
    <3>1. a \in Pages /\ SameShown(page, a, dropped)
      BY <1>2, EnsureIs
    <3>2. page' = setActiveTurnId(m, t, 0)
      BY <2>2 DEF onTurnCompleted
    <3>. HIDE DEF a, t, n, other
    <3>3. m \in Pages /\ SameShown(a, m, {t}) /\ t \notin m.processing
      BY <1>2, <3>1, MarkIs
    <3>. HIDE DEF m
    <3>4. /\ page'.turn[t] = 0 /\ page'.items = m.items /\ page'.processing = m.processing
          /\ \A u \in Threads \ {t} : page'.turn[u] = m.turn[u]
      BY <1>2, <3>2, <3>3, TurnIs
    <3>. QED BY <2>2, <3>1, <3>3, <3>4 DEF SameShown
  <2>. QED BY <2>1, <2>2
<1>4. SaidInv(x, told'[t], page'.items[t])
  BY <1>1, <1>3, HeadIs
<1>5. t \notin overtaken => ItemsInv(events', t, told'[t], page'.items[t])
  BY <1>1, <1>3, HeadIs, TailKeeps DEF ItemKinds
<1>6. t \notin overtaken \cup dropped =>
        TurnInv(events', t, x, t \in page'.processing, page'.turn[t], t \in unseen')
  <2>1. /\ EventInv(q, 1, x) /\ e = q[1]
        /\ e = event("turnCompleted", t, n)
        /\ t \notin overtaken \cup dropped =>
             TurnInv(q, t, x, t \in page.processing, page.turn[t], t \in unseen)
    BY <1>1, HeadIs, EventEq, EventIs
  <2>2. /\ \A d : Ahead(q, 1, d) <=> Ahead(events', 0, d)
        /\ \A d : d # e => (Ahead(q, 0, d) <=> Ahead(events', 0, d))
    <3>1. \A i \in Nat : \A d : Ahead(q, i + 1, d) <=> Ahead(Tail(q), i, d)
      BY <1>1, AheadTail
    <3>2. \A d : Ahead(q, 0 + 1, d) <=> Ahead(Tail(q), 0, d)
      BY <3>1
    <3>3. \A d : d # e => (Ahead(q, 0, d) <=> Ahead(Tail(q), 0, d))
      BY <1>1, AheadTail
    <3>. QED BY <1>1, <3>2, <3>3
  <2>3. /\ n = x.turns \/ Ahead(q, 1, LastStart(t, x))
        /\ n = x.turns => ~x.runs /\ ~Ahead(q, 1, LastStart(t, x))
    BY <2>1 DEF EventInv
  <2>4. LastStart(t, x) # e
    BY EventFields DEF LastStart
  <2>5. LastEnd(t, x) = e => n = x.turns
    BY EventFields DEF LastEnd
  <2>6. CASE ~other
    BY <1>3, <2>2, <2>3, <2>6 DEF TurnInv
  <2>7. CASE other
    <3>1. page.turn[t] \notin {0, n} /\ page' = page
      BY <1>3, <2>7 DEF isOtherTurn
    <3>. HIDE DEF x, n, e, t, q
    <3>2. ASSUME TurnInv(q, t, x, t \in page.processing, page.turn[t], t \in unseen)
          PROVE  TurnInv(events', t, x, t \in page.processing, page.turn[t], t \in unseen')
      <4>1. page.turn[t] \in {0, x.turns} \/ Ahead(events', 0, LastStart(t, x))
        BY <2>2, <2>4, <3>2 DEF TurnInv
      <4>2. Ahead(events', 0, LastStart(t, x))
        BY <2>2, <2>3, <3>1, <4>1
      <4>3. LastEnd(t, x) # e
        BY <2>2, <2>3, <2>5, <3>1, <4>1
      <4>4. ~x.runs => t \notin page.processing \/ Ahead(events', 0, LastEnd(t, x))
        BY <2>2, <3>2, <4>3 DEF TurnInv
      <4>. QED BY <4>1, <4>2, <4>4 DEF TurnInv
    <3>. QED BY <2>1, <3>1, <3>2
  <2>. QED BY <2>6, <2>7
<1>7. \A i \in Slots : calls'[i].asks = "resume" =>
        calls[i].asks = "resume" /\ calls'[i] = passed(t)[i]
  BY <1>1, PassedAsks
<1>8. \A u \in Threads \ {t} :
        /\ page'.items[u] = page.items[u] /\ page'.turn[u] = page.turn[u]
        /\ told'[u] = told[u] /\ (u \in unseen' <=> u \in unseen)
        /\ u \notin dropped => (u \in page'.processing <=> u \in page.processing)
  BY <1>1, <1>3
<1>9. t = Head(events).thread
  OBVIOUS
<1>. HIDE DEF t
<1>. QED BY <1>1, <1>4, <1>5, <1>6, <1>7, <1>8, <1>9, HandleKeeps

LEMMA ItemKeeps ==
  ASSUME LInv, SInv, OnEvent, NEW starts \in BOOLEAN,
         Head(events).kind = IF starts THEN "itemStarted" ELSE "itemCompleted",
         handleItemUpdate(Head(events).thread, Head(events).n, starts)
  PROVE  SInv'
<1>. DEFINE e == Head(events)
            t == e.thread
            n == e.n
            x == thread[t]
            q == events
<1>1. /\ q # <<>> /\ events' = Tail(q) /\ q \in Seq(Events)
      /\ UNCHANGED <<thread, overtaken, dropped>> /\ calls' = passed(t)
      /\ unseen' = IF starts THEN unseen \ {t} ELSE unseen
      /\ told' = [told EXCEPT ![t] = @ \cup {n}]
  BY WorldIs DEF OnEvent, handleItemUpdate
<1>2. /\ t \in Threads /\ n \in Items /\ x \in ExternalThread /\ x.said \in Nat
  BY <1>1, HeadIs, EventIs, ThreadIs
<1>3. /\ page'.turn = page.turn /\ page'.items = [page.items EXCEPT ![t] = prepareThreadItems(@ \cup {n})]
      /\ t \notin dropped => (t \in page'.processing <=> t \in page.processing \/ starts)
      /\ \A u \in Threads \ {t} :
           u \notin dropped => (u \in page'.processing <=> u \in page.processing)
  <2>. DEFINE a == ensureThread(page, t)
              m == IF starts THEN markProcessing(a, t, TRUE) ELSE a
  <2>1. a \in Pages /\ SameShown(page, a, dropped)
    BY <1>2, EnsureIs
  <2>2. page' = upsertItem(m, t, n)
    BY DEF handleItemUpdate
  <2>. HIDE DEF a, t, n
  <2>3. /\ m \in Pages /\ SameShown(a, m, {t})
        /\ t \in m.processing <=> t \in a.processing \/ starts
    <3>1. SameShown(a, a, {t})
      BY DEF SameShown
    <3>. QED BY <1>2, <2>1, <3>1, MarkIs
  <2>. HIDE DEF m
  <2>4. /\ page'.items = [m.items EXCEPT ![t] = prepareThreadItems(@ \cup {n})]
        /\ page'.turn = m.turn
        /\ page'.processing = m.processing
    BY <1>2, <2>2, <2>3, UpsertIs
  <2>. QED BY <1>2, <2>1, <2>3, <2>4 DEF SameShown
<1>4. /\ told'[t] = told[t] \cup {n}
      /\ page'.items[t] = prepareThreadItems(page.items[t] \cup {n})
      /\ \A u \in Threads \ {t} : told'[u] = told[u] /\ page'.items[u] = page.items[u]
  BY <1>1, <1>2, <1>3, PageOK, HistoryIs
<1>5. EventInv(q, 1, x) /\ e = q[1]
  BY <1>1, HeadIs
<1>6. n \in 1..x.said /\ (starts /\ ~x.runs => Ahead(q, 1, LastEnd(t, x)))
  BY <1>5 DEF EventInv, ItemKinds
<1>7. /\ \A d : Ahead(q, 1, d) <=> Ahead(events', 0, d)
      /\ \A m : (\A kind \in ItemKinds : event(kind, t, m) # e) =>
                  (ItemAhead(q, 0, t, m) <=> ItemAhead(events', 0, t, m))
  <2>1. \A i \in Nat : \A d : Ahead(q, i + 1, d) <=> Ahead(Tail(q), i, d)
    BY <1>1, AheadTail
  <2>2. \A d : Ahead(q, 0 + 1, d) <=> Ahead(Tail(q), 0, d)
    BY <2>1
  <2>. QED BY <1>1, <2>2, ItemTail
<1>8. SaidInv(x, told'[t], page'.items[t])
  <2>1. SaidInv(x, told[t], page.items[t])
    BY <1>1, HeadIs
  <2>2. page'.items[t] \subseteq page.items[t] \cup {n}
    BY <1>4 DEF prepareThreadItems
  <2>. QED BY <1>4, <1>6, <2>1, <2>2 DEF SaidInv
<1>9. t \notin overtaken => ItemsInv(events', t, told'[t], page'.items[t])
  <2>. DEFINE S == page.items[t] \cup {n}
              T == told[t] \cup {n}
  <2>1. T \in SUBSET Items /\ S \in SUBSET T
    BY <1>1, <1>2, HeadIs, HistoryIs DEF SaidInv
  <2>2. told[t] \in SUBSET T
    OBVIOUS
  <2>3. /\ \A m \in S : m \in prepareThreadItems(T) => m \in prepareThreadItems(S)
        /\ \A m \in told[t] : m \in prepareThreadItems(T) => m \in prepareThreadItems(told[t])
        /\ prepareThreadItems(T) \subseteq T
    <3>. HIDE DEF S, T
    <3>. QED BY <2>1, <2>2, PrepareKeeps
  <2>4. ASSUME t \notin overtaken, NEW m \in prepareThreadItems(T)
        PROVE  m \in page'.items[t] \/ ItemAhead(events', 0, t, m)
    <3>1. CASE m = n
      BY <1>4, <2>3, <2>4, <3>1
    <3>2. CASE m # n
      <4>1. m \in prepareThreadItems(told[t])
        BY <2>3, <2>4, <3>2
      <4>2. m \in page.items[t] \/ ItemAhead(q, 0, t, m)
        BY <1>1, <2>4, <4>1, HeadIs DEF ItemsInv
      <4>3. \A kind \in ItemKinds : event(kind, t, m) # e
        BY <3>2, EventFields
      <4>. QED BY <1>4, <1>7, <2>3, <2>4, <4>2, <4>3
    <3>. QED BY <3>1, <3>2
  <2>. QED BY <1>4, <2>4 DEF ItemsInv
<1>10. t \notin overtaken \cup dropped =>
         TurnInv(events', t, x, t \in page'.processing, page'.turn[t], t \in unseen')
  <2>1. t \notin overtaken \cup dropped =>
          TurnInv(events', t, x, t \in page.processing, page.turn[t], t \in unseen)
    BY <1>1, HeadIs, TailKeeps
  <2>. QED BY <1>1, <1>3, <1>6, <1>7, <2>1 DEF TurnInv
<1>11. \A i \in Slots : calls'[i].asks = "resume" =>
         calls[i].asks = "resume" /\ calls'[i] = passed(t)[i]
  BY <1>1, PassedAsks
<1>12. \A u \in Threads \ {t} :
         /\ page'.items[u] = page.items[u] /\ page'.turn[u] = page.turn[u]
         /\ told'[u] = told[u] /\ (u \in unseen' <=> u \in unseen)
         /\ u \notin dropped => (u \in page'.processing <=> u \in page.processing)
  BY <1>1, <1>3, <1>4
<1>13. t = Head(events).thread
  OBVIOUS
<1>. HIDE DEF t
<1>. QED BY <1>1, <1>8, <1>9, <1>10, <1>11, <1>12, <1>13, HandleKeeps

LEMMA OnEventKeeps ==
  ASSUME LInv, SInv, OnEvent
  PROVE  SInv'
<1>. USE PageOK
<1>. DEFINE e == Head(events)
            t == e.thread
<1>1. /\ events # <<>> /\ events' = Tail(events) /\ t \in Threads
      /\ UNCHANGED <<thread, overtaken, dropped>>
      /\ e.kind \in {"started", "archived", "unarchived"} => unseen' = unseen
  BY HeadIs DEF OnEvent
<1>2. Good(ensureThread(page, t), dropped) /\ SameShown(page, ensureThread(page, t), dropped)
  BY <1>1, EnsureGood, EnsureSame
<1>3. \A i \in Slots : passed(t)[i].asks = calls[i].asks
  BY PassedAsks
<1>4. CASE e.kind = "started" /\ onThreadStarted(t)
  <2>1. /\ page' = link(ensureThread(page, t), {t}) \/ page' = page
        /\ calls' = passed(t) /\ told' = told
    BY <1>4 DEF onThreadStarted
  <2>2. SameShown(ensureThread(page, t), link(ensureThread(page, t), {t}), dropped)
    BY <1>2, LinkSame DEF Good
  <2>3. SameShown(page, page', dropped)
    <3>1. SameShown(page, link(ensureThread(page, t), {t}), dropped)
      BY <1>2, <2>2, SameAfter
    <3>2. SameShown(page, page, dropped)
      BY DEF SameShown
    <3>. QED BY <2>1, <3>1, <3>2
  <2>. QED BY <1>1, <1>3, <1>4, <2>1, <2>3, OtherEventKeeps
<1>5. CASE e.kind = "archived" /\ onThreadArchived(t)
  <2>1. SameShown(page, page', dropped) /\ told' = told
    BY <1>5, HideSame DEF onThreadArchived
  <2>2. \A i \in Slots : calls'[i].asks = "resume" =>
          calls[i].asks = "resume" /\ calls'[i] = passed(t)[i]
    <3>1. CASE calls' = passed(t)
      BY <1>3, <3>1
    <3>2. ASSUME NEW d \in archiveOneOf(descendants(t)), NEW i \in Slots,
                 calls' = [passed(t) EXCEPT ![i] = d]
          PROVE  \A j \in Slots : calls'[j].asks = "resume" =>
                   calls[j].asks = "resume" /\ calls'[j] = passed(t)[j]
      <4>1. d.asks = "cascade"
        BY DEF archiveOneOf, newCall
      <4>2. /\ \A j \in Slots \ {i} : calls'[j] = passed(t)[j]
            /\ calls'[i] = d
        BY <3>2 DEF passed
      <4>. QED BY <1>3, <4>1, <4>2
    <3>. QED BY <1>5, <3>1, <3>2 DEF onThreadArchived
  <2>. QED BY <1>1, <1>5, <2>1, <2>2, OtherEventKeeps
<1>6. CASE e.kind = "unarchived" /\ onThreadUnarchived(t)
  <2>1. page' = ensureThread(page, t) /\ calls' = passed(t) /\ told' = told
    BY <1>6 DEF onThreadUnarchived
  <2>. QED BY <1>1, <1>2, <1>3, <1>6, <2>1, OtherEventKeeps
<1>7. CASE e.kind = "turnStarted" /\ onTurnStarted(t, e.n)
  BY <1>7, TurnStartedKeeps
<1>8. CASE e.kind = "turnCompleted" /\ onTurnCompleted(t, e.n)
  BY <1>8, TurnCompletedKeeps
<1>9. CASE e.kind = "itemStarted" /\ handleItemUpdate(t, e.n, TRUE)
  BY <1>9, ItemKeeps
<1>10. CASE e.kind = "itemCompleted" /\ handleItemUpdate(t, e.n, FALSE)
  BY <1>10, ItemKeeps
<1>. QED BY <1>4, <1>5, <1>6, <1>7, <1>8, <1>9, <1>10 DEF OnEvent

-------------------------------------------------------------------------------
LEMMA InitSInv == Init => SInv
<1>. SUFFICES ASSUME Init PROVE SInv
  OBVIOUS
<1>1. Len(events) = 0
  BY DEF Init
<1>2. EventsInv
  BY <1>1 DEF EventsInv
<1>3. SaysInv /\ ShownInv /\ RunsInv
  <2>1. ASSUME NEW t \in Threads
        PROVE  /\ thread[t].runs <=> t \in unseen
               /\ t \in unseen => thread[t].turns # 0
               /\ ~thread[t].exists => thread[t].said = 0 /\ t \notin unseen
               /\ told[t] = {} /\ page.items[t] = {} /\ page.turn[t] = 0
               /\ t \notin page.processing
    <3>1. PICK archive \in SUBSET (First \ unseen) :
            thread = [u \in Threads |-> [exists |-> u \in First, archived |-> u \in archive,
                        said |-> IF u \in First THEN Said ELSE 0,
                        turns |-> IF u \in unseen THEN 1 ELSE 0, runs |-> u \in unseen]]
      BY DEF Init
    <3>2. thread[t] = [exists |-> t \in First, archived |-> t \in archive,
                         said |-> IF t \in First THEN Said ELSE 0,
                         turns |-> IF t \in unseen THEN 1 ELSE 0, runs |-> t \in unseen]
      BY <3>1
    <3>3. unseen \subseteq First
      BY DEF Init
    <3>4. /\ told[t] = {} /\ page.items[t] = {} /\ page.turn[t] = 0
          /\ t \notin page.processing
      BY DEF Init
    <3>5. /\ t \in unseen => thread[t].turns # 0
          /\ ~(t \in First) => thread[t].said = 0 /\ ~(t \in unseen)
      BY <3>2, <3>3
    <3>. DEFINE old == t \in unseen
                there == t \in First
    <3>6. old \in BOOLEAN /\ there \in BOOLEAN /\ thread[t].runs = old /\ thread[t].exists = there
      BY <3>2
    <3>7. (old <=> t \in unseen) /\ (there <=> t \in First)
      OBVIOUS
    <3>. HIDE DEF old, there
    <3>. QED BY <3>4, <3>5, <3>6, <3>7
  <2>2. prepareThreadItems({}) = {}
    BY DEF prepareThreadItems
  <2>. QED BY <2>1, <2>2 DEF SaysInv, SaidInv, ShownInv, ItemsInv, RunsInv, TurnInv
<1>4. ResumesInv
  <2>1. \A i \in Slots : calls[i].asks = "list"
    BY DEF Init, NoCall, newCall
  <2>. QED BY <2>1 DEF ResumesInv
<1>. QED BY <1>2, <1>3, <1>4 DEF SInv

LEMMA NextSInv == LInv /\ LInv' /\ SInv /\ [Next]_vars => SInv'
<1>. SUFFICES ASSUME LInv, LInv', SInv, [Next]_vars PROVE SInv'
  OBVIOUS
<1>1. CASE Begin
  BY <1>1, UserKeeps, HappensKeeps DEF Begin
<1>2. CASE Serve
  BY <1>2, ServeKeeps
<1>3. CASE Answered
  BY <1>3, AnsweredKeeps
<1>4. CASE Fails
  BY <1>4, FailsKeeps
<1>5. CASE OnEvent
  BY <1>5, OnEventKeeps
<1>6. CASE UNCHANGED vars
  <2>1. UNCHANGED <<thread, events, calls, page, told, overtaken, dropped, unseen>>
    BY <1>6 DEF vars, historyVars
  <2>. QED BY <2>1 DEF SInv, EventsInv, SaysInv, ShownInv, RunsInv, ResumesInv
<1>. QED BY <1>1, <1>2, <1>3, <1>4, <1>5, <1>6 DEF Next

\* The events and the answers on their way account for what the page does not show yet.
THEOREM ShownInvariant == Spec => [](LInv /\ SInv)
<1>1. Init => LInv /\ SInv
  BY InitLInv, InitSInv
<1>2. (LInv /\ SInv) /\ [Next]_vars => (LInv /\ SInv)'
  BY NextLInv, NextSInv
<1>. QED BY <1>1, <1>2, PTL DEF Spec

LEMMA QuietAhead ==
  ASSUME Quiet
  PROVE  \A i, e : ~Ahead(events, i, e)
<1>1. Len(events) = 0
  BY DEF Quiet
<1>. QED BY <1>1 DEF Ahead

\* Once calls and events are handled, a thread is shown as running exactly when it runs,
\* but for those whose events overtook an answer, or that an older list took off, or that
\* run since before the page was loaded and were only listed.
THEOREM RunningIsShown == Spec => []ShownAsRunning
<1>1. SInv => ShownAsRunning
  <2>. SUFFICES ASSUME SInv, Quiet, 
                       NEW t \in Threads \ (overtaken \cup dropped \cup unseen)
                PROVE  t \in page.processing <=> thread[t].runs
    BY DEF ShownAsRunning
  <2>1. TurnInv(events, t, thread[t], t \in page.processing, page.turn[t], t \in unseen)
    BY DEF SInv, RunsInv
  <2>. QED BY <2>1, QuietAhead DEF TurnInv
<1>. QED BY <1>1, ShownInvariant, PTL

\* And the latest items that the page was told of, by answers and events, are shown, but
\* in threads whose events overtook an answer.
THEOREM ItemsAreShown == Spec => []ItemsShown
<1>1. SInv => ItemsShown
  <2>. SUFFICES ASSUME SInv, Quiet, NEW t \in Threads \ overtaken,
                       NEW n \in prepareThreadItems(told[t])
                PROVE  n \in page.items[t]
    BY DEF ItemsShown
  <2>1. ItemsInv(events, t, told[t], page.items[t])
    BY DEF SInv, ShownInv
  <2>. QED BY <2>1, QuietAhead DEF ItemsInv, ItemAhead
<1>. QED BY <1>1, ShownInvariant, PTL
===============================================================================

------------------------------- MODULE Terminals -------------------------------
(***************************************************************************)
(* The terminals of one workspace: the sessions of the server              *)
(* (terminal.ts), the tabs of the browser (useTerminalTabs.ts,             *)
(* useTerminalController.ts), the session of the tab in view               *)
(* (useTerminalSession.ts), and the script of a new worktree, which has a  *)
(* terminal of its own (useWorktreeSetupScript.ts).                        *)
(*                                                                         *)
(* The browser's calls are HTTP requests, so they are handled, and their   *)
(* answers arrive, in any order; the end of a shell is told by an event,   *)
(* which is lost while the browser has no socket.  A tab is in view if it  *)
(* is the active one and the panel is shown.  What shells print, and the   *)
(* titles of tabs, are left out.                                           *)
(***************************************************************************)
EXTENDS Naturals

CONSTANTS
  Tabs,          \* terminals the user opens; an id is used once
  SetupTab,      \* terminal of the script of the worktree, the same each time
  MaxShells      \* bound on the shells that run at once

ASSUME TerminalsAssumption ==
  SetupTab \notin Tabs /\ "none" \notin Tabs \cup {SetupTab} /\ MaxShells \in Nat \ {0}

Terms == Tabs \cup {SetupTab}
NoTerm == "none"
Shells == 1..MaxShells

VARIABLES
  sessions,  \* of the server: the shell of a terminal, or 0
  shellOf,   \* external: the terminal that a shell which runs was started for, or none
  tabs,      \* tabsByWorkspace, which localStorage has too
  active,    \* activeTerminalIdByWorkspace, which localStorage has too
  shown,     \* the panel is open
  restored,  \* restoredTerminalIdsByWorkspace
  opened,    \* openedSessionsRef
  setup,     \* where maybeRunWorktreeSetupScript() is
  calls,     \* calls on their way to the server, and their answers
  exits,     \* terminal-exit events on their way
  used,      \* ids of tabs that were used
  ending,    \* history: shells that were told to end
  late       \* history: shells started for a terminal that had no tab

sessionVars == <<sessions, shellOf>>
tabVars == <<tabs, active, shown, restored, used>>
terminalVars == <<sessionVars, tabVars, opened, setup, calls, exits, ending, late>>

\* A call: what it asks, the terminal, whether the page that made it is gone, who made
\* it, and whether it waits for the server or was answered.
Call == [asks : {"open", "restore", "write", "close"}, term : Terms, old : BOOLEAN,
         by : {"tab", "setup"}, at : {"sent", "ok", "missing"}]

TerminalsTypeOK ==
  /\ sessions \in [Terms -> 0..MaxShells] /\ shellOf \in [Shells -> Terms \cup {NoTerm}]
  /\ tabs \subseteq Terms /\ active \in Terms \cup {NoTerm} /\ shown \in BOOLEAN
  /\ restored \subseteq tabs /\ opened \subseteq Terms /\ used \subseteq Tabs
  /\ setup \in {"idle", "closing", "opening"}
  /\ calls \subseteq Call /\ exits \subseteq Terms
  /\ ending \subseteq Shells /\ late \subseteq Shells

TerminalsInit ==
  /\ sessions = [t \in Terms |-> 0] /\ shellOf = [k \in Shells |-> NoTerm]
  /\ tabs = {} /\ active = NoTerm /\ shown = FALSE
  /\ restored = {} /\ opened = {} /\ setup = "idle" /\ calls = {} /\ exits = {}
  /\ used = {} /\ ending = {} /\ late = {}

-------------------------------------------------------------------------------
\* The server

newCall(asks, t, by) == [asks |-> asks, term |-> t, old |-> FALSE, by |-> by, at |-> "sent"]

\* The server answers a call.  The answer is dropped here if nothing depends on it: the
\* page that asked is gone, or a tab wrote or closed a session, which worked.
dropped(c, outcome) ==
  \/ c.old
  \/ c.by = "tab" /\ (c.asks = "close" \/ <<c.asks, outcome>> = <<"write", "ok">>)

answers(c, outcome) ==
  calls' = (calls \ {c}) \cup (IF dropped(c, outcome) THEN {} ELSE {[c EXCEPT !.at = outcome]})

startsShell(t) ==
  \E k \in Shells :
    /\ shellOf[k] = NoTerm /\ \A j \in 1..(k - 1) : shellOf[j] # NoTerm
    /\ sessions' = [sessions EXCEPT ![t] = k]
    /\ shellOf' = [shellOf EXCEPT ![k] = t]
    /\ late' = IF t \in tabs THEN late ELSE late \cup {k}

openSession(c) ==
  /\ c.at = "sent" /\ c.asks \in {"open", "restore"}
  /\ IF sessions[c.term] # 0
     THEN answers(c, "ok") /\ UNCHANGED <<sessionVars, late>>
     ELSE IF c.asks = "restore"
     THEN answers(c, "missing") /\ UNCHANGED <<sessionVars, late>>
     ELSE answers(c, "ok") /\ startsShell(c.term)
  /\ UNCHANGED <<tabVars, opened, setup, exits, ending>>

\* terminal_write, and terminal_resize, which fails in the same way
writeSession(c) ==
  /\ c.at = "sent" /\ c.asks = "write"
  /\ answers(c, IF sessions[c.term] = 0 THEN "missing" ELSE "ok")
  /\ UNCHANGED <<sessionVars, tabVars, opened, setup, exits, ending, late>>

closeSession(c) ==
  /\ c.at = "sent" /\ c.asks = "close"
  /\ answers(c, IF sessions[c.term] = 0 THEN "missing" ELSE "ok")
  /\ sessions' = [sessions EXCEPT ![c.term] = 0]
  /\ ending' = IF sessions[c.term] = 0 THEN ending ELSE ending \cup {sessions[c.term]}
  /\ UNCHANGED <<shellOf, tabVars, opened, setup, exits, late>>

\* Mutant: the end of any shell ends the session of its terminal.
isCurrentAny(k) == TRUE

\* The session that a shell's end is about: its own one, if it is still there.
isCurrent(k) == sessions[shellOf[k]] = k

running == {k \in Shells : shellOf[k] # NoTerm}

\* A shell ends, by itself or because it was told to; the event is lost if the browser
\* has no socket.
onExit(k) ==
  /\ k \in running
  /\ shellOf' = [shellOf EXCEPT ![k] = NoTerm]
  /\ ending' = ending \ {k} /\ late' = late \ {k}
  /\ IF isCurrent(k)
     THEN /\ sessions' = [sessions EXCEPT ![shellOf[k]] = 0]
          /\ exits' \in {exits, exits \cup {shellOf[k]}}
     ELSE UNCHANGED <<sessions, exits>>
  /\ UNCHANGED <<tabVars, opened, setup, calls>>

-------------------------------------------------------------------------------
\* The browser

\* Mutant: the tab goes and its session stays.
closeCallsNone(t, by) == {}

closeCalls(t, by) == {newCall("close", t, by)}

\* cleanupTerminalSession() and the call of handleTerminalClose(), which are also what
\* restartTerminalSession() does
restartSession(t, by, others) ==
  /\ opened' = opened \ {t}
  /\ calls' = others \cup closeCalls(t, by)

stillRestored(t) == restored \ {t}

\* closeTerminal(): the last of the other tabs is the one in view if this one was.
closeTerminal(t, others) ==
  /\ tabs' = tabs \ {t}
  /\ restored' = stillRestored(t)
  /\ IF active # t THEN active' = active
     ELSE IF tabs' = {} THEN active' = NoTerm
     ELSE active' \in tabs'
  /\ restartSession(t, "tab", others)
  /\ UNCHANGED used

closesPanel(t) == shown' = (shown /\ tabs # {t})

createTerminal(t) ==
  /\ t \in Tabs \ used
  /\ tabs' = tabs \cup {t} /\ active' = t /\ shown' = TRUE /\ used' = used \cup {t}
  /\ UNCHANGED <<sessionVars, restored, opened, setup, calls, exits, ending, late>>

onCloseTerminal(t) ==
  /\ t \in tabs
  /\ closeTerminal(t, calls)
  /\ closesPanel(t)
  /\ UNCHANGED <<sessionVars, setup, exits, ending, late>>

setActiveTerminal(t) ==
  /\ shown /\ t \in tabs \ {active} /\ active' = t
  /\ UNCHANGED <<sessionVars, tabs, shown, restored, used, opened, setup, calls, exits,
                 ending, late>>

toggleTerminal ==
  /\ tabs # {} /\ shown' = ~shown
  /\ UNCHANGED <<sessionVars, tabs, active, restored, used, opened, setup, calls, exits,
                 ending, late>>

\* Mutant: restoreOnly is not sent.
openRequestNew(t) == newCall("open", t, "tab")

\* What the tab in view asks for
openRequest(t) == newCall(IF t \in restored THEN "restore" ELSE "open", t, "tab")

opening(t) ==
  \E c \in calls : c.term = t /\ c.by = "tab" /\ ~c.old /\ c.asks \in {"open", "restore"}

\* The effect that opens the session of the tab in view.  It runs again whenever the
\* controller renders; bound: it makes one call at a time for a terminal.
openActive ==
  /\ shown /\ active \in tabs \ opened
  /\ ~opening(active)
  /\ calls' = calls \cup {openRequest(active)}
  /\ UNCHANGED <<sessionVars, tabVars, opened, setup, exits, ending, late>>

typeInTerminal ==
  /\ shown /\ active \in opened
  /\ calls' = calls \cup {newCall("write", active, "tab")}
  /\ UNCHANGED <<sessionVars, tabVars, opened, setup, exits, ending, late>>

\* An answer to a call of the tab arrives.
sessionOpened(c) ==
  /\ c.asks \in {"open", "restore"} /\ c.at = "ok" /\ c.by = "tab"
  /\ opened' = opened \cup {c.term}
  /\ restored' = restored \ {c.term}
  /\ calls' = calls \ {c}
  /\ UNCHANGED <<sessionVars, tabs, active, shown, used, setup, exits, ending, late>>

missingRestored(c) ==
  /\ c.asks = "restore" /\ c.at = "missing"
  /\ closeTerminal(c.term, calls \ {c})
  /\ shown' = FALSE
  /\ UNCHANGED <<sessionVars, setup, exits, ending, late>>

writeFailed(c) ==
  /\ c.asks = "write" /\ c.at = "missing"
  /\ calls' = calls \ {c}
  /\ opened' = opened \ {c.term}
  /\ UNCHANGED <<sessionVars, tabVars, setup, exits, ending, late>>

\* A terminal-exit event arrives.
onSessionExit(t) ==
  /\ t \in exits /\ exits' = exits \ {t}
  /\ closeTerminal(t, calls)
  /\ closesPanel(t)
  /\ UNCHANGED <<sessionVars, setup, ending, late>>

\* maybeRunWorktreeSetupScript(): it restarts its terminal and opens it itself.
runSetupScript ==
  /\ setup = "idle" /\ setup' = "closing"
  /\ tabs' = tabs \cup {SetupTab} /\ active' = SetupTab /\ shown' = TRUE
  /\ restored' = restored \ {SetupTab}
  /\ restartSession(SetupTab, "setup", calls)
  /\ UNCHANGED <<sessionVars, used, exits, ending, late>>

setupClosed(c) ==
  /\ c.by = "setup" /\ c.asks = "close" /\ c.at # "sent"
  /\ calls' = (calls \ {c}) \cup {newCall("open", SetupTab, "setup")}
  /\ setup' = "opening"
  /\ UNCHANGED <<sessionVars, tabVars, opened, exits, ending, late>>

\* The script is written to the shell; whether that works changes nothing here.
setupOpened(c) ==
  /\ c.by = "setup" /\ c.asks = "open" /\ c.at # "sent"
  /\ calls' = calls \ {c}
  /\ setup' = "idle"
  /\ UNCHANGED <<sessionVars, tabVars, opened, exits, ending, late>>

\* The page is loaded again: what was sent still reaches the server.
refreshPage ==
  /\ restored' = tabs /\ opened' = {} /\ setup' = "idle" /\ exits' = {}
  /\ calls' = {[c EXCEPT !.old = TRUE] : c \in {d \in calls : d.at = "sent"}}
  /\ UNCHANGED <<sessionVars, tabs, active, shown, used, ending, late>>

\* The server ends, the shells with it, and is started again; calls fail.
TerminalsRestart ==
  /\ sessions' = [t \in Terms |-> 0] /\ shellOf' = [k \in Shells |-> NoTerm]
  /\ calls' = {} /\ exits' = {} /\ setup' = "idle" /\ ending' = {} /\ late' = {}
  /\ UNCHANGED <<tabVars, opened>>

\* The server ends its sessions when it is told to end.
TerminalsClose ==
  /\ ending' = ending \cup {sessions[t] : t \in {u \in Terms : sessions[u] # 0}}
  /\ sessions' = [t \in Terms |-> 0]
  /\ UNCHANGED <<shellOf, tabVars, opened, setup, calls, exits, late>>

\* The server does not know the workspace any more: a call fails, and the script with it.
refused(c) ==
  /\ c.at = "sent" /\ calls' = calls \ {c}
  /\ setup' = IF c.by = "setup" /\ ~c.old THEN "idle" ELSE setup
  /\ UNCHANGED <<sessionVars, tabVars, opened, exits, ending, late>>

TerminalsStart ==
  \/ \E t \in Tabs : createTerminal(t)
  \/ \E t \in Terms : onCloseTerminal(t) \/ setActiveTerminal(t)
  \/ toggleTerminal \/ typeInTerminal \/ runSetupScript \/ refreshPage
  \/ \E k \in Shells \ ending : onExit(k)

TerminalsServe == \E c \in calls : openSession(c) \/ writeSession(c) \/ closeSession(c)

TerminalsRefuse == \E c \in calls : refused(c)

TerminalsStep ==
  \/ \E c \in calls : \/ sessionOpened(c) \/ missingRestored(c) \/ writeFailed(c)
                      \/ setupClosed(c) \/ setupOpened(c)
  \/ \E k \in ending : onExit(k)
  \/ \E t \in Terms : onSessionExit(t)
  \/ openActive

-------------------------------------------------------------------------------
\* Every shell that runs is the one of its terminal's session, so that the user or the
\* server can end it, unless it was told to end.
ShellsTracked == \A k \in running : sessions[shellOf[k]] = k \/ k \in ending

\* A session belongs to a tab, or its end is on its way, unless its shell was started
\* by a call that reached the server after the tab was closed.
SessionHasTab ==
  \A t \in Terms : sessions[t] # 0 =>
    \/ t \in tabs \/ sessions[t] \in late
    \/ \E c \in calls : c.term = t /\ c.asks = "close" /\ c.at = "sent"

\* README: "Terminal tabs restore after a browser refresh only if the backend session
\* is still alive": a tab that waits to be restored gets no new shell, except for a
\* call made before the page was loaded again.
RestoredOnlyIfAlive ==
  [][\A t \in restored : sessions'[t] \notin {0, sessions[t]} =>
       \E c \in calls \ calls' : c.term = t /\ c.old]_terminalVars
===============================================================================

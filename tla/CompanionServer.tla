---------------------------- MODULE CompanionServer ----------------------------
(***************************************************************************)
(* The companion server as far as its parts meet: the workspaces           *)
(* (Workspaces), the app-server clients that serve them (ClientPool), the  *)
(* terminals of one of them (Terminals) and a prompt in the background     *)
(* (BackgroundPrompt).  A workspace that is removed gets no service any    *)
(* more; a shutdown closes clients and terminals, in that order and while  *)
(* calls are still served; a crash, and a rejection nobody handles, end    *)
(* everything at once (CodexCompanionServer in codex.ts, and the shutdown  *)
(* in http/index.ts).                                                      *)
(*                                                                         *)
(* Bound: what people, processes and the world begin is counted, and costs *)
(* more when it is about another part than before (SwitchCost), so that    *)
(* long runs of one part and shorter ones of several are explored.  What   *)
(* was begun goes on in any order and at no cost.                          *)
(***************************************************************************)
EXTENDS Workspaces, ClientPool, Terminals, BackgroundPrompt

CONSTANTS
  Home,        \* the workspace whose terminals these are
  Budget,      \* bound on what begins
  SwitchCost   \* what it costs to go on with another part

ASSUME CompanionAssumption ==
  /\ Projects \subseteq Ids /\ Home \in Ids
  /\ Budget \in Nat /\ SwitchCost \in Nat

VARIABLES budget, part

vars == <<workspaceVars, poolVars, terminalVars, promptVars, budget, part>>

TypeOK ==
  /\ WorkspacesTypeOK /\ PoolTypeOK /\ TerminalsTypeOK /\ PromptTypeOK
  /\ budget \in 0..Budget /\ part \in {"any", "workspaces", "clients", "terminals", "prompt"}

Init ==
  /\ WorkspacesInit /\ PoolInit(known \cap Projects) /\ TerminalsInit /\ PromptInit
  /\ budget = Budget /\ part = "any"

-------------------------------------------------------------------------------
\* Something begins in a part.
begins_in(p) ==
  LET cost == IF part \in {p, "any"} THEN 1 ELSE 1 + SwitchCost IN
  /\ budget >= cost
  /\ budget' = budget - cost
  /\ part' = p

onlyWorkspaces == UNCHANGED <<poolVars, terminalVars, promptVars>>
onlyClients == UNCHANGED <<workspaceVars, terminalVars, promptVars>>
onlyTerminals == UNCHANGED <<workspaceVars, poolVars, promptVars>>
onlyPrompt == UNCHANGED <<workspaceVars, poolVars, terminalVars>>

Begin ==
  \/ begins_in("workspaces") /\ (WorkspacesStart \/ notWritten) /\ onlyWorkspaces
  \/ begins_in("clients") /\ PoolStart(known \cap Projects) /\ onlyClients
  \/ begins_in("terminals") /\ TerminalsStart /\ onlyTerminals
  \/ begins_in("prompt") /\ PromptStart /\ onlyPrompt

\* remove_workspace, as far as the clients are concerned too
Remove ==
  /\ begins_in("workspaces")
  /\ \E i \in Ids : removeWorkspaceCascade(i) /\ disconnectWorkspace(i)
  /\ UNCHANGED <<terminalVars, promptVars>>

GoOn ==
  /\ \/ WorkspacesStep /\ onlyWorkspaces
     \/ PoolStep /\ onlyClients
     \/ TerminalsStep /\ onlyTerminals
     \/ Home \in known /\ TerminalsServe /\ onlyTerminals
     \/ Home \notin known /\ TerminalsRefuse /\ onlyTerminals
     \/ PromptStep /\ onlyPrompt
  /\ UNCHANGED <<budget, part>>

\* CodexCompanionServer.close()
Close ==
  /\ ~appClosed /\ begins_in(part)
  /\ PoolClose /\ TerminalsClose
  /\ UNCHANGED <<workspaceVars, promptVars>>

\* The server ends and is started again.
Restart ==
  /\ \/ begins_in(part)
     \/ unhandledRejection /\ UNCHANGED <<budget, part>>
  /\ WorkspacesRestart /\ PoolRestart /\ TerminalsRestart /\ PromptRestart

Next == Begin \/ Remove \/ GoOn \/ Close \/ Restart

Spec == Init /\ [][Next]_vars

-------------------------------------------------------------------------------
\* A terminal session belongs to a tab, as long as the workspace is there.
TerminalHasTab == Home \in known => SessionHasTab
===============================================================================

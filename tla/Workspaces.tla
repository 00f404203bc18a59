------------------------------ MODULE Workspaces ------------------------------
(***************************************************************************)
(* The workspaces of the companion server (codex.ts) and their worktrees   *)
(* (codexWorkspaceGitRpc.ts).  Calls add a directory, a copy of one or a   *)
(* worktree, rename the branch of a worktree, and remove a workspace; they *)
(* interleave at every command of git and every access to the disk.  Every *)
(* change is followed by a write of all workspaces; the writes of a file   *)
(* end in the order they were asked for (JsonStorage).                     *)
(*                                                                         *)
(* Directories and branches are numbered: where the code appends "-2",     *)
(* "-3", ... to a name that is taken, the model takes the next number.     *)
(* All worktrees are of one repository, whose own workspace is not one of  *)
(* the Ids and stays.  git is external; nobody else uses the repository.   *)
(***************************************************************************)
EXTENDS Naturals, Sequences

CONSTANTS
  Ids,       \* workspaces the server can come to know, numbered
  Ops,       \* calls that can be in progress at once
  MaxNames   \* bound on the numbers of directories and branches

ASSUME WorkspacesAssumption ==
  /\ {1, 2} \subseteq Ids /\ Ids \subseteq Nat \ {0}
  /\ MaxNames \in Nat \ {0, 1}

VARIABLES
  known,     \* keys of workspacesById
  object,    \* the workspaces: directory, and branch of a worktree or 0
  writes,    \* writes of workspaces.json that have not ended: what they write, and
             \* the workspaces whose removals await them
  saved,     \* workspaces.json
  op,        \* the calls
  dirs,      \* external: directories that exist
  head,      \* external: the branch checked out in a worktree, 0 in no worktree
  branches,  \* external: branches of the repository
  removed,   \* history: workspaces whose removal has been answered
  cut,       \* history: directories of worktrees whose branch was renamed behind the
             \* back of the server, because of a crash, of a write of the renaming that
             \* failed before a restart, or of renamings that overlap
  unsaved    \* history: the last write that ended failed

serverVars == <<known, object, writes, saved, op>>
gitVars == <<dirs, head, branches>>
historyVars == <<removed, cut, unsaved>>
workspaceVars == <<serverVars, gitVars, historyVars>>

Names == 1..MaxNames
Record == [path : 0..MaxNames, branch : 0..MaxNames]
File == [known : SUBSET Ids, object : [Ids -> Record]]
NoOp == [at |-> "idle", id |-> 0, name |-> 0, branch |-> 0]
Stages == {"idle", "looking", "cloning", "copying", "naming", "asking", "adding",
           "creating", "added", "choosing", "renaming", "renamed"}

WorkspacesTypeOK ==
  /\ known \subseteq Ids /\ object \in [Ids -> Record]
  /\ writes \in Seq([file : File, removes : SUBSET Ids]) /\ saved \in File
  /\ op \in [Ops -> [at : Stages, id : Ids \cup {0}, name : 0..MaxNames + 1,
                     branch : 0..MaxNames]]
  /\ dirs \subseteq Names /\ head \in [Names -> 0..MaxNames] /\ branches \subseteq Names
  /\ removed \subseteq Ids /\ cut \subseteq Names /\ unsaved \in BOOLEAN

\* The server has just started: it knows nothing, or a worktree and a directory.
WorkspacesInit ==
  LET nothing == [known |-> {}, object |-> [i \in Ids |-> [path |-> 0, branch |-> 0]]]
      two == [known |-> {1, 2},
              object |-> [nothing.object EXCEPT ![1] = [path |-> 1, branch |-> 1],
                                                ![2] = [path |-> 2, branch |-> 0]]]
  IN
  /\ saved \in {nothing, two}
  /\ known = saved.known /\ object = saved.object
  /\ dirs = {object[i].path : i \in known}
  /\ head = [p \in Names |-> IF known # {} /\ p = 1 THEN 1 ELSE 0]
  /\ branches = {1} \cap known
  /\ writes = <<>> /\ op = [o \in Ops |-> NoOp]
  /\ removed = {} /\ cut = {} /\ unsaved = FALSE

-------------------------------------------------------------------------------
begin(o, call) ==
  /\ op[o].at = "idle"
  /\ op' = [op EXCEPT ![o] = call]

goesOn(o, stage) == op' = [op EXCEPT ![o].at = stage]

ends(o) == op' = [op EXCEPT ![o] = NoOp]

\* persistWorkspaces(), of the workspaces as they are by then
persistWorkspaces(k, obj, removes) ==
  writes' = Append(writes, [file |-> [known |-> k, object |-> obj], removes |-> removes])

\* A workspace with a new id is added to the map and the file.
setWorkspace(o, record) ==
  \E i \in Ids :
    /\ object[i].path = 0 /\ \A j \in Ids : j < i => object[j].path # 0
    /\ known' = known \cup {i}
    /\ object' = [object EXCEPT ![i] = record]
    /\ persistWorkspaces(known', object', {})

\* The directory is that of no workspace.  The code looks when the directory has been
\* found on the disk.
isNew(p) == \A i \in known : object[i].path # p

addWorkspaceFromPath(o, p) ==
  /\ p \in dirs
  /\ begin(o, [NoOp EXCEPT !.at = "looking", !.name = p])
  /\ UNCHANGED <<known, object, writes, saved, gitVars, historyVars>>

handleAddWorkspaceFromGitUrl(o, p) ==
  /\ p \in Names
  /\ begin(o, [NoOp EXCEPT !.at = "cloning", !.name = p])
  /\ UNCHANGED <<known, object, writes, saved, gitVars, historyVars>>

\* External: git clone, which fails if the directory exists
cloned(o) ==
  /\ op[o].at = "cloning"
  /\ IF op[o].name \in dirs THEN ends(o) /\ UNCHANGED dirs
     ELSE goesOn(o, "looking") /\ dirs' = dirs \cup {op[o].name}
  /\ UNCHANGED <<known, object, writes, saved, head, branches, historyVars>>

found(o) ==
  /\ op[o].at = "looking"
  /\ IF isNew(op[o].name)
     THEN setWorkspace(o, [path |-> op[o].name, branch |-> 0])
     ELSE UNCHANGED <<known, object, writes>>
  /\ ends(o)
  /\ UNCHANGED <<saved, gitVars, historyVars>>

addCloneWorkspace(o, p) ==
  /\ p \in Names
  /\ begin(o, [NoOp EXCEPT !.at = "copying", !.name = p])
  /\ UNCHANGED <<known, object, writes, saved, gitVars, historyVars>>

copied(o) ==
  /\ op[o].at = "copying"
  /\ dirs' = dirs \cup {op[o].name}
  /\ setWorkspace(o, [path |-> op[o].name, branch |-> 0])
  /\ ends(o)
  /\ UNCHANGED <<saved, head, branches, historyVars>>

handleAddWorktree(o, b) ==
  /\ b \in Names
  /\ begin(o, [NoOp EXCEPT !.at = "naming", !.name = 1, !.branch = b])
  /\ UNCHANGED <<known, object, writes, saved, gitVars, historyVars>>

\* The loop that looks for a directory that does not exist
named(o) ==
  /\ op[o].at = "naming" /\ op[o].name \in Names
  /\ IF op[o].name \in dirs THEN op' = [op EXCEPT ![o].name = @ + 1]
     ELSE goesOn(o, "asking")
  /\ UNCHANGED <<known, object, writes, saved, gitVars, historyVars>>

\* git show-ref: whether the branch exists decides on the command that follows.
asked(o) ==
  /\ op[o].at = "asking"
  /\ goesOn(o, IF op[o].branch \in branches THEN "adding" ELSE "creating")
  /\ UNCHANGED <<known, object, writes, saved, gitVars, historyVars>>

\* External: git worktree add, of an existing branch or, with -b, of a new one.  It
\* fails if by now the directory exists, the branch is checked out or, when it is to
\* be created, exists.
gitWorktreeAdd(o) ==
  LET p == op[o].name
      b == op[o].branch
      works == /\ p \notin dirs
               /\ IF op[o].at = "adding" THEN \A q \in Names : head[q] # b
                  ELSE b \notin branches
  IN
  /\ op[o].at \in {"adding", "creating"}
  /\ IF works
     THEN /\ dirs' = dirs \cup {p}
          /\ head' = [head EXCEPT ![p] = b]
          /\ branches' = branches \cup {b}
          /\ goesOn(o, "added")
     ELSE ends(o) /\ UNCHANGED gitVars
  /\ UNCHANGED <<known, object, writes, saved, historyVars>>

added(o) ==
  /\ op[o].at = "added"
  /\ setWorkspace(o, [path |-> op[o].name, branch |-> op[o].branch])
  /\ ends(o)
  /\ UNCHANGED <<saved, gitVars, historyVars>>

handleRenameWorktree(o, i, b) ==
  /\ i \in known /\ object[i].branch # 0 /\ b \in Names
  /\ begin(o, [NoOp EXCEPT !.at = "choosing", !.id = i, !.name = b])
  /\ UNCHANGED <<known, object, writes, saved, gitVars, historyVars>>

\* The loop that looks for a branch that does not exist; the branch that is renamed is
\* the one that the workspace has by then.
chosen(o) ==
  /\ op[o].at = "choosing" /\ op[o].name \in Names
  /\ op' = IF op[o].name \in branches THEN [op EXCEPT ![o].name = @ + 1]
           ELSE [op EXCEPT ![o].at = "renaming", ![o].branch = object[op[o].id].branch]
  /\ UNCHANGED <<known, object, writes, saved, gitVars, historyVars>>

\* External: git branch -m
gitBranchRename(o) ==
  LET from == op[o].branch
      to == op[o].name
      i == op[o].id
      overlap == \/ object[i].path \in cut \/ object[i].branch # from
                 \/ \E q \in Ops : op[q].at = "renamed" /\ op[q].id = i
  IN
  /\ op[o].at = "renaming"
  /\ IF from \in branches /\ to \notin branches
     THEN /\ branches' = (branches \ {from}) \cup {to}
          /\ head' = [p \in Names |-> IF head[p] = from THEN to ELSE head[p]]
          /\ goesOn(o, "renamed")
          /\ cut' = IF overlap THEN cut \cup {object[i].path} \cup {p \in Names : head[p] = from}
                     ELSE cut
     ELSE ends(o) /\ UNCHANGED <<branches, head, cut>>
  /\ UNCHANGED <<known, object, writes, saved, dirs, removed, unsaved>>

\* Mutant: the workspace keeps the old name.
actualBranchOld(o) == object[op[o].id].branch

\* The branch that the workspace is given
actualBranch(o) == op[o].name

\* Mutant: the call puts the workspace it holds into the map.
stillKnownAgain(o) == known \cup {op[o].id}

\* The map a call writes back to: the workspace may have left it.
stillKnown(o) == known

renamed(o) ==
  /\ op[o].at = "renamed"
  /\ object' = [object EXCEPT ![op[o].id].branch = actualBranch(o)]
  /\ known' = stillKnown(o)
  /\ persistWorkspaces(known', object', {})
  /\ ends(o)
  /\ UNCHANGED <<saved, gitVars, historyVars>>

removeWorkspaceCascade(i) ==
  /\ i \in known
  /\ known' = known \ {i}
  /\ persistWorkspaces(known', object, {i})
  /\ UNCHANGED <<object, saved, op, gitVars, historyVars>>

\* A write is made; a removal is answered when its write has been.
written ==
  /\ writes # <<>>
  /\ saved' = Head(writes).file
  /\ writes' = Tail(writes)
  /\ removed' = removed \cup Head(writes).removes
  /\ unsaved' = FALSE
  /\ UNCHANGED <<known, object, op, gitVars, cut>>

\* A write fails, whichever step of it does: the file is as before, and the call that
\* waits for it answers an error.  The change stays in memory.
notWritten ==
  /\ writes # <<>>
  /\ writes' = Tail(writes)
  /\ unsaved' = TRUE
  /\ UNCHANGED <<known, object, saved, op, gitVars, removed, cut>>

\* The server ends, by a crash or not, and is started again: initialize().  It has lost
\* what was not in the file; nothing is if no call and no write was in progress and the
\* last write was made.
WorkspacesRestart ==
  LET idle == writes = <<>> /\ ~unsaved /\ \A o \in Ops : op[o].at = "idle"
      behind == {saved.object[i].path :
                   i \in {j \in saved.known : saved.object[j].branch # 0 /\
                            head[saved.object[j].path] # saved.object[j].branch}}
  IN
  /\ known' = saved.known
  /\ object' = [i \in Ids |-> IF i \in saved.known THEN saved.object[i] ELSE object[i]]
  /\ writes' = <<>>
  /\ op' = [o \in Ops |-> NoOp]
  /\ cut' = IF idle THEN cut ELSE cut \cup behind
  /\ unsaved' = FALSE
  /\ UNCHANGED <<saved, gitVars, removed>>

WorkspacesStart ==
  \E o \in Ops, n \in Names :
    \/ addWorkspaceFromPath(o, n) \/ addCloneWorkspace(o, n) \/ handleAddWorktree(o, n)
    \/ handleAddWorkspaceFromGitUrl(o, n)
    \/ \E i \in Ids : handleRenameWorktree(o, i, n)

WorkspacesStep ==
  \/ \E o \in Ops : \/ found(o) \/ cloned(o) \/ copied(o) \/ named(o) \/ asked(o) \/ gitWorktreeAdd(o)
                    \/ added(o) \/ chosen(o) \/ gitBranchRename(o) \/ renamed(o)
  \/ written

WorkspacesSpec ==
  WorkspacesInit /\ [][\/ WorkspacesStart \/ WorkspacesStep \/ WorkspacesRestart
                       \/ notWritten \/ \E i \in Ids : removeWorkspaceCascade(i)]_workspaceVars

-------------------------------------------------------------------------------
\* The branch that the server has for a worktree is the one git has checked out
\* there, except while the answer of a renaming is on its way, and of worktrees with a
\* renaming whose write a crash cut off, or the disk refused and a restart then lost,
\* or that overlapped another one.
BranchRecorded ==
  \A i \in known :
    \/ object[i].branch = 0 \/ object[i].path \in cut
    \/ head[object[i].path] = object[i].branch
    \/ \E o \in Ops : op[o].at = "renamed" /\ op[o].id = i

\* A workspace whose removal was answered, without an error, never comes back, whatever calls about it
\* were in progress and whenever the server is started again.
RemovedStays == removed \cap (known \cup saved.known) = {}
===============================================================================

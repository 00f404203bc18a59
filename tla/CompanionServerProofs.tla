-------------------------- MODULE CompanionServerProofs -------------------------
(***************************************************************************)
(* Theorems about the companion server, for any workspaces, calls,         *)
(* arguments, tabs and bounds.  The first three sections prove what every  *)
(* step of a part keeps, whatever the others do: the workspaces            *)
(* (Workspaces), the pool of clients, as long as only workspaces are       *)
(* served (ClientPool), and the terminals (Terminals).  In the last        *)
(* section every step of the server is seen to be a step of each part or   *)
(* none of it.                                                             *)
(***************************************************************************)
EXTENDS CompanionServer, SequenceTheorems, TLAPS

--------------------------------------------------------------------------------
\* Workspaces

USE DEF Names

WorkspacesNext ==
  \/ WorkspacesStart \/ WorkspacesStep \/ WorkspacesRestart
  \/ notWritten \/ \E i \in Ids : removeWorkspaceCascade(i)

WriteOf == [file : File, removes : SUBSET Ids]
OpOf == [at : Stages, id : Ids \cup {0}, name : 0..MaxNames + 1, branch : 0..MaxNames]

\* Stages in which a call has found a name, those in which it is about a workspace the
\* server knew when it began, and those in which it makes a worktree.
Named == {"looking", "cloning", "copying", "asking", "adding", "creating", "added",
          "renaming", "renamed"}
Renames == {"choosing", "renaming", "renamed"}
Makes == {"naming", "asking", "adding", "creating", "added"}

OpsInv ==
  \A o \in Ops :
    /\ op[o].at \in Named => op[o].name \in Names
    /\ op[o].at \in Renames => op[o].id \in Ids /\ object[op[o].id].path # 0
    /\ op[o].at \in Makes => op[o].branch \in Names

\* A workspace that the server has, has had or will have has a directory, so that
\* its number is not given away again.
PathInv ==
  /\ \A i \in known \cup removed : object[i].path # 0
  /\ \A i \in saved.known : object[i].path # 0 /\ saved.object[i].path # 0
  /\ \A n \in 1..Len(writes) :
       /\ \A i \in writes[n].file.known :
            object[i].path # 0 /\ writes[n].file.object[i].path # 0
       /\ \A i \in writes[n].removes : object[i].path # 0

\* A removed workspace is in no later state of the file: each write has left out
\* what the writes before it, and it itself, removed.
RemovedInv ==
  /\ removed \cap known = {} /\ removed \cap saved.known = {}
  /\ \A n \in 1..Len(writes) : /\ removed \cap writes[n].file.known = {}
                               /\ writes[n].removes \cap known = {}
  /\ \A n, m \in 1..Len(writes) :
       n <= m => writes[n].removes \cap writes[m].file.known = {}

WInv == WorkspacesTypeOK /\ OpsInv /\ PathInv /\ RemovedInv

\* The types of what a step reads.
LEMMA Types ==
  ASSUME WorkspacesTypeOK
  PROVE  /\ known \subseteq Ids /\ object \in [Ids -> Record]
         /\ \A i \in Ids : object[i] \in Record
         /\ writes \in Seq(WriteOf) /\ saved \in File
         /\ op \in [Ops -> OpOf] /\ \A o \in Ops : op[o] \in OpOf
         /\ dirs \subseteq Names /\ head \in [Names -> 0..MaxNames] /\ branches \subseteq Names
         /\ removed \subseteq Ids /\ cut \subseteq Names /\ unsaved \in BOOLEAN
BY DEF WorkspacesTypeOK, WriteOf, OpOf

\* One write more.
LEMMA PersistFacts ==
  ASSUME WorkspacesTypeOK, NEW k \in SUBSET Ids, NEW obj \in [Ids -> Record],
         NEW rem \in SUBSET Ids, persistWorkspaces(k, obj, rem)
  PROVE  /\ writes' \in Seq(WriteOf) /\ Len(writes) \in Nat
         /\ Len(writes') = Len(writes) + 1
         /\ \A n \in 1..Len(writes) : writes'[n] = writes[n]
         /\ writes'[Len(writes) + 1] = [file |-> [known |-> k, object |-> obj], removes |-> rem]
<1> DEFINE w == [file |-> [known |-> k, object |-> obj], removes |-> rem]
<1>1. w \in WriteOf
  BY DEF WriteOf, File
<1>2. writes \in Seq(WriteOf) /\ writes' = Append(writes, w)
  BY Types DEF persistWorkspaces
<1> HIDE DEF w
<1>3. /\ writes' \in Seq(WriteOf) /\ Len(writes) \in Nat
      /\ Len(writes') = Len(writes) + 1
      /\ \A n \in 1..Len(writes) : writes'[n] = writes[n]
      /\ writes'[Len(writes) + 1] = w
  BY <1>1, <1>2, AppendProperties
<1>. QED BY <1>3 DEF w

\* A step that persists what it made of the workspaces keeps the invariant, if it
\* took no number twice and took nothing back.
LEMMA PersistStep ==
  ASSUME WInv, NEW rem \in SUBSET Ids, known' \subseteq Ids, object' \in [Ids -> Record],
         persistWorkspaces(known', object', rem),
         \A i \in Ids : object[i].path # 0 => object'[i].path # 0,
         \A i \in known' : object'[i].path # 0,
         \A i \in known' : i \in known \/ object[i].path = 0,
         rem \subseteq known, rem \cap known' = {},
         UNCHANGED <<saved, removed>>
  PROVE  PathInv' /\ RemovedInv' /\ writes' \in Seq(WriteOf)
<1> DEFINE N == Len(writes)
<1>1. /\ writes' \in Seq(WriteOf) /\ N \in Nat /\ Len(writes') = N + 1
      /\ \A n \in 1..N : writes'[n] = writes[n]
      /\ writes'[N + 1].file.known = known' /\ writes'[N + 1].file.object = object'
      /\ writes'[N + 1].removes = rem
  <2>1. PICK k \in SUBSET Ids, obj \in [Ids -> Record] : k = known' /\ obj = object'
    OBVIOUS
  <2>2. WorkspacesTypeOK /\ rem \in SUBSET Ids /\ persistWorkspaces(k, obj, rem)
    BY <2>1, Types DEF WInv
  <2>3. /\ writes' \in Seq(WriteOf) /\ N \in Nat /\ Len(writes') = N + 1
        /\ \A n \in 1..N : writes'[n] = writes[n]
        /\ writes'[N + 1] = [file |-> [known |-> k, object |-> obj], removes |-> rem]
    BY <2>2, PersistFacts
  <2>. QED BY <2>1, <2>3
<1>2. ASSUME NEW n \in 1..Len(writes')
      PROVE  \/ n \in 1..N /\ writes'[n] = writes[n]
             \/ n = N + 1 /\ writes'[n].file.known = known' /\ writes'[n].file.object = object'
                /\ writes'[n].removes = rem
  BY <1>1
<1>3. known \subseteq Ids /\ removed \subseteq Ids /\ saved \in File /\ writes \in Seq(WriteOf)
      /\ \A n \in 1..N : /\ writes[n].file.known \subseteq Ids /\ writes[n].removes \subseteq Ids
  <2>1. writes \in Seq(WriteOf)
    BY Types DEF WInv
  <2>2. \A n \in 1..N : writes[n] \in WriteOf
    BY <2>1
  <2>. QED BY <2>1, <2>2, Types DEF WInv, WriteOf, File
<1>4. PathInv'
  <2>1. (\A i \in known \cup removed : object[i].path # 0)'
    BY <1>3 DEF WInv, PathInv
  <2>2. (\A i \in saved.known : object[i].path # 0 /\ saved.object[i].path # 0)'
    BY <1>3 DEF WInv, PathInv, File
  <2>3. ASSUME NEW n \in 1..Len(writes')
        PROVE  /\ \A i \in writes'[n].file.known :
                    object'[i].path # 0 /\ writes'[n].file.object[i].path # 0
               /\ \A i \in writes'[n].removes : object'[i].path # 0
    BY <1>2, <1>3 DEF WInv, PathInv
  <2>. QED BY <2>1, <2>2, <2>3 DEF PathInv
<1>5. RemovedInv'
  <2>0. \A i \in Ids : \/ i \in removed \/ \E n \in 1..N : i \in writes[n].removes
                       => i \notin known'
    BY <1>3 DEF WInv, PathInv, RemovedInv
  <2>1. (removed \cap known = {} /\ removed \cap saved.known = {})'
    BY <1>3, <2>0 DEF WInv, RemovedInv
  <2>2. ASSUME NEW n \in 1..Len(writes')
        PROVE  removed' \cap writes'[n].file.known = {} /\ writes'[n].removes \cap known' = {}
    BY <1>2, <1>3, <2>0 DEF WInv, RemovedInv
  <2>3. ASSUME NEW n \in 1..Len(writes'), NEW m \in 1..Len(writes'), n <= m
        PROVE  writes'[n].removes \cap writes'[m].file.known = {}
    BY <1>1, <1>2, <1>3, <2>0, <2>3 DEF WInv, RemovedInv
  <2>. QED BY <2>1, <2>2, <2>3 DEF RemovedInv
<1>. QED BY <1>1, <1>4, <1>5

\* A call goes on, and keeps what is known of the calls.
LEMMA OpStep ==
  ASSUME WInv, NEW o \in Ops, NEW next \in OpOf, op' = [op EXCEPT ![o] = next],
         next.at \in Named => next.name \in Names,
         next.at \in Renames => next.id \in Ids /\ object'[next.id].path # 0,
         next.at \in Makes => next.branch \in Names,
         \A i \in Ids : object[i].path # 0 => object'[i].path # 0
  PROVE  op' \in [Ops -> OpOf] /\ OpsInv'
<1>1. op \in [Ops -> OpOf]
  BY Types DEF WInv
<1>2. \A q \in Ops : op'[q] = IF q = o THEN next ELSE op[q]
  BY <1>1
<1>3. ASSUME NEW q \in Ops
      PROVE  /\ op'[q].at \in Named => op'[q].name \in Names
             /\ op'[q].at \in Renames => op'[q].id \in Ids /\ object'[op'[q].id].path # 0
             /\ op'[q].at \in Makes => op'[q].branch \in Names
  BY <1>2 DEF WInv, OpsInv
<1>. QED BY <1>1, <1>3 DEF OpsInv

\* A step that leaves the workspaces and their file alone.
LEMMA QuietStep ==
  ASSUME WInv, UNCHANGED <<known, object, writes, saved, removed, unsaved>>,
         op' \in [Ops -> OpOf], OpsInv',
         dirs' \subseteq Names, head' \in [Names -> 0..MaxNames], branches' \subseteq Names,
         cut' \subseteq Names
  PROVE  WInv'
<1>1. WorkspacesTypeOK'
  BY DEF WInv, WorkspacesTypeOK, OpOf
<1>2. PathInv' /\ RemovedInv'
  BY DEF WInv, PathInv, RemovedInv
<1>. QED BY <1>1, <1>2 DEF WInv

LEMMA NoOpType ==
  NoOp \in OpOf /\ NoOp.at \notin Named /\ NoOp.at \notin Renames /\ NoOp.at \notin Makes
BY WorkspacesAssumption DEF NoOp, OpOf, Stages, Named, Renames, Makes

\* A call ends.
LEMMA EndStep ==
  ASSUME WInv, NEW o \in Ops, ends(o), \A i \in Ids : object[i].path # 0 => object'[i].path # 0
  PROVE  op' \in [Ops -> OpOf] /\ OpsInv'
BY OpStep, NoOpType DEF ends

\* A call goes on to a stage in which no more is known of it than before.
LEMMA StageStep ==
  ASSUME WInv, NEW o \in Ops, NEW stage \in Stages, goesOn(o, stage),
         stage \in Named => op[o].at \in Named, stage \in Renames => op[o].at \in Renames,
         stage \in Makes => op[o].at \in Makes,
         \A i \in Ids : object[i].path # 0 => object'[i].path # 0
  PROVE  op' \in [Ops -> OpOf] /\ OpsInv'
<1> DEFINE next == [op[o] EXCEPT !.at = stage]
<1>1. op \in [Ops -> OpOf] /\ op[o] \in OpOf
  BY Types DEF WInv
<1>2. /\ next \in OpOf /\ next.at = stage /\ next.name = op[o].name /\ next.id = op[o].id
      /\ next.branch = op[o].branch
      /\ op' = [op EXCEPT ![o] = next]
  BY <1>1 DEF OpOf, goesOn
<1>3. /\ stage \in Named => op[o].name \in Names
      /\ stage \in Renames => op[o].id \in Ids /\ object'[op[o].id].path # 0
      /\ stage \in Makes => op[o].branch \in Names
  BY DEF WInv, OpsInv
<1> HIDE DEF next
<1>. QED BY <1>2, <1>3, OpStep

-------------------------------------------------------------------------------
\* Calls begin.
LEMMA StartStep ==
  ASSUME WInv, WorkspacesStart
  PROVE  WInv'
<1>1. PICK o \in Ops, n \in Names :
        \/ addWorkspaceFromPath(o, n) \/ addCloneWorkspace(o, n) \/ handleAddWorktree(o, n)
        \/ handleAddWorkspaceFromGitUrl(o, n)
        \/ \E i \in Ids : handleRenameWorktree(o, i, n)
  BY DEF WorkspacesStart
<1>2. MaxNames \in Nat /\ 1 \in Names /\ n \in 0..MaxNames + 1 /\ n \in 0..MaxNames
      /\ 1 \in 0..MaxNames + 1
  BY WorkspacesAssumption
<1>3. UNCHANGED <<known, object, writes, saved, gitVars, historyVars>>
  BY <1>1 DEF addWorkspaceFromPath, addCloneWorkspace, handleAddWorktree,
              handleAddWorkspaceFromGitUrl, handleRenameWorktree
<1>4. \E next \in OpOf :
        /\ op' = [op EXCEPT ![o] = next]
        /\ next.at \in Named => next.name \in Names
        /\ next.at \in Renames => next.id \in Ids /\ object'[next.id].path # 0
        /\ next.at \in Makes => next.branch \in Names
  <2>1. CASE addWorkspaceFromPath(o, n)
    <3> DEFINE next == [NoOp EXCEPT !.at = "looking", !.name = n]
    <3>1. next \in OpOf /\ next.at \notin Renames \cup Makes /\ next.name = n
      BY <1>2, NoOpType DEF OpOf, Stages, Renames, Makes, NoOp
    <3>. QED BY <2>1, <3>1 DEF addWorkspaceFromPath, begin
  <2>2. CASE addCloneWorkspace(o, n)
    <3> DEFINE next == [NoOp EXCEPT !.at = "copying", !.name = n]
    <3>1. next \in OpOf /\ next.at \notin Renames \cup Makes /\ next.name = n
      BY <1>2, NoOpType DEF OpOf, Stages, Renames, Makes, NoOp
    <3>. QED BY <2>2, <3>1 DEF addCloneWorkspace, begin
  <2>3. CASE handleAddWorktree(o, n)
    <3> DEFINE next == [NoOp EXCEPT !.at = "naming", !.name = 1, !.branch = n]
    <3>1. next \in OpOf /\ next.at \notin Renames \cup Named /\ next.branch = n
      BY <1>2, NoOpType DEF OpOf, Stages, Renames, Named, NoOp
    <3>. QED BY <2>3, <3>1 DEF handleAddWorktree, begin
  <2>4. CASE handleAddWorkspaceFromGitUrl(o, n)
    <3> DEFINE next == [NoOp EXCEPT !.at = "cloning", !.name = n]
    <3>1. next \in OpOf /\ next.at \notin Renames \cup Makes /\ next.name = n
      BY <1>2, NoOpType DEF OpOf, Stages, Renames, Makes, NoOp
    <3>. QED BY <2>4, <3>1 DEF handleAddWorkspaceFromGitUrl, begin
  <2>5. ASSUME NEW i \in Ids, handleRenameWorktree(o, i, n)
        PROVE  \E next \in OpOf :
                 /\ op' = [op EXCEPT ![o] = next]
                 /\ next.at \in Named => next.name \in Names
                 /\ next.at \in Renames => next.id \in Ids /\ object'[next.id].path # 0
                 /\ next.at \in Makes => next.branch \in Names
    <3> DEFINE next == [NoOp EXCEPT !.at = "choosing", !.id = i, !.name = n]
    <3>1. next \in OpOf /\ next.at \notin Named \cup Makes /\ next.id = i
      BY <1>2, NoOpType DEF OpOf, Stages, Named, Makes, NoOp
    <3>2. object[i].path # 0
      BY <2>5 DEF handleRenameWorktree, WInv, PathInv
    <3>. QED BY <1>3, <2>5, <3>1, <3>2 DEF handleRenameWorktree, begin
  <2>. QED BY <1>1, <2>1, <2>2, <2>3, <2>4, <2>5
<1>5. op' \in [Ops -> OpOf] /\ OpsInv'
  BY <1>3, <1>4, OpStep
<1>. QED BY <1>3, <1>5, QuietStep, Types DEF WInv, gitVars, historyVars

-------------------------------------------------------------------------------
\* Calls look for names, and git runs for them.
LEMMA QuietSteps ==
  ASSUME WInv, NEW o \in Ops,
         cloned(o) \/ named(o) \/ asked(o) \/ gitWorktreeAdd(o) \/ chosen(o) \/ gitBranchRename(o)
  PROVE  WInv'
<1>1. UNCHANGED <<known, object, writes, saved, removed, unsaved>>
  BY DEF cloned, named, asked, gitWorktreeAdd, chosen, gitBranchRename, gitVars, historyVars
<1>2. /\ op \in [Ops -> OpOf] /\ op[o] \in OpOf /\ object \in [Ids -> Record]
      /\ \A i \in Ids : object[i] \in Record
      /\ head \in [Names -> 0..MaxNames]
      /\ dirs \subseteq Names /\ branches \subseteq Names /\ cut \subseteq Names
      /\ MaxNames \in Nat /\ op[o].branch \in 0..MaxNames
  BY Types, WorkspacesAssumption DEF WInv, OpOf
<1>3. /\ op[o].at \in Named => op[o].name \in Names
      /\ op[o].at \in Renames => op[o].id \in Ids /\ object[op[o].id].path # 0
      /\ op[o].at \in Makes => op[o].branch \in Names
  BY DEF WInv, OpsInv
<1>4. CASE cloned(o)
  <2>1. op' \in [Ops -> OpOf] /\ OpsInv'
    BY <1>1, <1>4, EndStep, StageStep DEF cloned, Stages, Named, Renames, Makes
  <2>2. dirs' \subseteq Names
    BY <1>2, <1>3, <1>4 DEF cloned, Named
  <2>. QED BY <1>1, <1>2, <1>4, <2>1, <2>2, QuietStep DEF cloned, historyVars
<1>5. CASE named(o)
  <2>1. CASE op[o].name \in dirs
    <3> DEFINE next == [op[o] EXCEPT !.name = @ + 1]
    <3>0. op[o].name + 1 \in 0..MaxNames + 1
      BY <1>2, <1>5 DEF named
    <3>1. /\ next \in OpOf /\ next.at = "naming" /\ op' = [op EXCEPT ![o] = next]
          /\ next.branch \in Names
      BY <1>2, <1>3, <1>5, <2>1, <3>0 DEF OpOf, named, Makes
    <3> HIDE DEF next
    <3>2. op' \in [Ops -> OpOf] /\ OpsInv'
      BY <1>1, <3>1, OpStep DEF Named, Renames
    <3>. QED BY <1>1, <1>2, <1>5, <3>2, QuietStep DEF named, gitVars, historyVars
  <2>2. CASE op[o].name \notin dirs
    <3> DEFINE next == [op[o] EXCEPT !.at = "asking"]
    <3>1. /\ next \in OpOf /\ next.at = "asking" /\ op' = [op EXCEPT ![o] = next]
          /\ next.name \in Names /\ next.branch \in Names
      BY <1>2, <1>3, <1>5, <2>2 DEF OpOf, named, goesOn, Stages, Makes
    <3> HIDE DEF next
    <3>2. op' \in [Ops -> OpOf] /\ OpsInv'
      BY <1>1, <3>1, OpStep DEF Renames
    <3>. QED BY <1>1, <1>2, <1>5, <3>2, QuietStep DEF named, gitVars, historyVars
  <2>. QED BY <2>1, <2>2
<1>6. CASE asked(o)
  <2>1. op' \in [Ops -> OpOf] /\ OpsInv'
    BY <1>1, <1>6, StageStep DEF asked, Stages, Named, Renames, Makes
  <2>. QED BY <1>1, <1>2, <1>6, <2>1, QuietStep DEF asked, gitVars, historyVars
<1>7. CASE gitWorktreeAdd(o)
  <2>1. op[o].at \in Named \cap Makes /\ op[o].name \in Names /\ op[o].branch \in Names
    BY <1>3, <1>7 DEF gitWorktreeAdd, Named, Makes
  <2>2. op' \in [Ops -> OpOf] /\ OpsInv'
    <3>1. goesOn(o, "added") \/ ends(o)
      BY <1>7 DEF gitWorktreeAdd
    <3>. QED BY <1>1, <2>1, <3>1, EndStep, StageStep DEF Stages, Named, Renames, Makes
  <2>3. \/ UNCHANGED gitVars
        \/ /\ dirs' = dirs \cup {op[o].name}
           /\ head' = [head EXCEPT ![op[o].name] = op[o].branch]
           /\ branches' = branches \cup {op[o].branch}
    BY <1>2, <1>7 DEF gitWorktreeAdd
  <2>. QED BY <1>1, <1>2, <1>7, <2>1, <2>2, <2>3, QuietStep DEF gitWorktreeAdd, gitVars, historyVars
<1>8. CASE chosen(o)
  <2>1. CASE op[o].name \in branches
    <3> DEFINE next == [op[o] EXCEPT !.name = @ + 1]
    <3>0. op[o].name + 1 \in 0..MaxNames + 1
      BY <1>2, <1>8 DEF chosen
    <3>1. /\ next \in OpOf /\ next.at = "choosing" /\ op' = [op EXCEPT ![o] = next]
          /\ next.id = op[o].id
      BY <1>2, <1>8, <2>1, <3>0 DEF OpOf, chosen
    <3> HIDE DEF next
    <3>2. op[o].id \in Ids /\ object[op[o].id].path # 0
      BY <1>3, <1>8 DEF chosen, Renames
    <3>3. op' \in [Ops -> OpOf] /\ OpsInv'
      BY <1>1, <3>1, <3>2, OpStep DEF Named, Makes
    <3>. QED BY <1>1, <1>2, <1>8, <3>3, QuietStep DEF chosen, gitVars, historyVars
  <2>2. CASE op[o].name \notin branches
    <3> DEFINE next == [op[o] EXCEPT !.at = "renaming", !.branch = object[op[o].id].branch]
    <3>1. op[o].id \in Ids /\ object[op[o].id].path # 0
      BY <1>3, <1>8 DEF chosen, Renames
    <3>2. object[op[o].id].branch \in 0..MaxNames
      BY <1>2, <3>1 DEF Record
    <3>3. /\ next \in OpOf /\ next.at = "renaming" /\ op' = [op EXCEPT ![o] = next]
          /\ next.id = op[o].id /\ next.name \in Names
      BY <1>2, <1>8, <2>2, <3>2 DEF OpOf, chosen, Stages
    <3> HIDE DEF next
    <3>4. op' \in [Ops -> OpOf] /\ OpsInv'
      BY <1>1, <3>1, <3>3, OpStep DEF Makes
    <3>. QED BY <1>1, <1>2, <1>8, <3>4, QuietStep DEF chosen, gitVars, historyVars
  <2>. QED BY <2>1, <2>2
<1>9. CASE gitBranchRename(o)
  <2>1. op[o].at = "renaming" /\ op[o].name \in Names /\ op[o].id \in Ids /\ object[op[o].id].path # 0
    BY <1>3, <1>9 DEF gitBranchRename, Named, Renames
  <2>2. op' \in [Ops -> OpOf] /\ OpsInv'
    <3>1. goesOn(o, "renamed") \/ ends(o)
      BY <1>9 DEF gitBranchRename
    <3>. QED BY <1>1, <2>1, <3>1, EndStep, StageStep DEF Stages, Named, Renames, Makes
  <2>3. object[op[o].id].path \in Names
    BY <1>2, <2>1 DEF Record
  <2>4. /\ UNCHANGED dirs
        /\ branches' \subseteq branches \cup {op[o].name}
        /\ head' = head \/ head' = [p \in Names |-> IF head[p] = op[o].branch THEN op[o].name
                                                     ELSE head[p]]
        /\ cut' \subseteq cut \cup {object[op[o].id].path} \cup Names
    BY <1>9 DEF gitBranchRename
  <2>5. head' \in [Names -> 0..MaxNames]
    BY <1>2, <2>1, <2>4, SMTT(30)
  <2>. QED BY <1>1, <1>2, <2>1, <2>2, <2>3, <2>4, <2>5, QuietStep
<1>. QED BY <1>4, <1>5, <1>6, <1>7, <1>8, <1>9

-------------------------------------------------------------------------------
\* A step that persists the workspaces and ends a call.
LEMMA ServedStep ==
  ASSUME WInv, NEW o \in Ops, PathInv' /\ RemovedInv' /\ writes' \in Seq(WriteOf),
         known' \subseteq Ids, object' \in [Ids -> Record], ends(o),
         \A i \in Ids : object[i].path # 0 => object'[i].path # 0,
         UNCHANGED <<saved, removed, cut, unsaved, head, branches>>, dirs' \subseteq Names
  PROVE  WInv'
<1>1. op' \in [Ops -> OpOf] /\ OpsInv'
  BY EndStep
<1>2. WorkspacesTypeOK'
  BY <1>1, Types DEF WInv, WorkspacesTypeOK, OpOf, WriteOf
<1>. QED BY <1>1, <1>2 DEF WInv

\* A workspace is added: it takes a number that none has had.
LEMMA SetStep ==
  ASSUME WInv, NEW o \in Ops, NEW record \in Record, record.path # 0,
         setWorkspace(o, record), ends(o),
         UNCHANGED <<saved, removed, cut, unsaved, head, branches>>, dirs' \subseteq Names
  PROVE  WInv'
<1>1. PICK i \in Ids : /\ object[i].path = 0
                       /\ known' = known \cup {i}
                       /\ object' = [object EXCEPT ![i] = record]
                       /\ persistWorkspaces(known', object', {})
  BY DEF setWorkspace
<1>2. known \subseteq Ids /\ object \in [Ids -> Record]
  BY Types DEF WInv
<1>3. known' \subseteq Ids /\ object' \in [Ids -> Record]
  BY <1>1, <1>2
<1>4. \A j \in Ids : object'[j] = IF j = i THEN record ELSE object[j]
  BY <1>1, <1>2
<1>5. /\ \A j \in Ids : object[j].path # 0 => object'[j].path # 0
      /\ \A j \in known' : object'[j].path # 0
      /\ \A j \in known' : j \in known \/ object[j].path = 0
  BY <1>1, <1>2, <1>3, <1>4 DEF WInv, PathInv
<1>6. PathInv' /\ RemovedInv' /\ writes' \in Seq(WriteOf)
  <2>1. /\ {} \in SUBSET Ids /\ {} \subseteq known /\ {} \cap known' = {}
        /\ UNCHANGED <<saved, removed>>
    OBVIOUS
  <2>. QED BY <1>1, <1>3, <1>5, <2>1, PersistStep
<1>. QED BY <1>3, <1>5, <1>6, ServedStep

LEMMA ServedSteps ==
  ASSUME WInv, NEW o \in Ops, found(o) \/ copied(o) \/ added(o) \/ renamed(o)
  PROVE  WInv'
<1>1. /\ op \in [Ops -> OpOf] /\ op[o] \in OpOf /\ object \in [Ids -> Record]
      /\ known \subseteq Ids /\ dirs \subseteq Names /\ MaxNames \in Nat
  BY Types, WorkspacesAssumption DEF WInv
<1>2. /\ op[o].at \in Named => op[o].name \in Names
      /\ op[o].at \in Renames => op[o].id \in Ids /\ object[op[o].id].path # 0
      /\ op[o].at \in Makes => op[o].branch \in Names
  BY DEF WInv, OpsInv
<1>3. CASE found(o)
  <2>1. op[o].name \in Names
    BY <1>2, <1>3 DEF found, Named
  <2>2. CASE isNew(op[o].name)
    <3>1. [path |-> op[o].name, branch |-> 0] \in Record
      BY <1>1, <2>1 DEF Record
    <3>. QED BY <1>1, <1>3, <2>1, <2>2, <3>1, SetStep DEF found, gitVars, historyVars
  <2>3. CASE ~isNew(op[o].name)
    <3>1. UNCHANGED <<known, object, writes, saved, removed, unsaved>>
      BY <1>3, <2>3 DEF found, historyVars
    <3>2. op' \in [Ops -> OpOf] /\ OpsInv'
      BY <1>3, <3>1, EndStep DEF found
    <3>. QED BY <1>1, <1>3, <3>1, <3>2, QuietStep, Types DEF found, gitVars, historyVars, WInv
  <2>. QED BY <2>2, <2>3
<1>4. CASE copied(o)
  <2>1. op[o].name \in Names
    BY <1>2, <1>4 DEF copied, Named
  <2>2. [path |-> op[o].name, branch |-> 0] \in Record
    BY <1>1, <2>1 DEF Record
  <2>3. dirs' \subseteq Names
    BY <1>1, <1>4, <2>1 DEF copied
  <2>. QED BY <1>4, <2>1, <2>2, <2>3, SetStep DEF copied, historyVars
<1>5. CASE added(o)
  <2>1. op[o].name \in Names
    BY <1>2, <1>5 DEF added, Named
  <2>2. [path |-> op[o].name, branch |-> op[o].branch] \in Record
    BY <1>1, <2>1 DEF Record, OpOf
  <2>. QED BY <1>1, <1>5, <2>1, <2>2, SetStep DEF added, gitVars, historyVars
<1>6. CASE renamed(o)
  <2>1. op[o].id \in Ids /\ op[o].name \in Names
    BY <1>2, <1>6 DEF renamed, Renames, Named
  <2>2. /\ known' = known /\ persistWorkspaces(known', object', {})
        /\ object' = [object EXCEPT ![op[o].id].branch = op[o].name]
        /\ ends(o) /\ UNCHANGED <<saved, gitVars, historyVars>>
    BY <1>6 DEF renamed, actualBranch, stillKnown
  <2>3. /\ object' \in [Ids -> Record] /\ known' \subseteq Ids
        /\ \A j \in Ids : object'[j].path = object[j].path
    BY <1>1, <2>1, <2>2 DEF Record
  <2>4. \A j \in known' : object'[j].path # 0
    BY <1>1, <2>2, <2>3 DEF WInv, PathInv
  <2>5. PathInv' /\ RemovedInv' /\ writes' \in Seq(WriteOf)
    <3>1. /\ {} \in SUBSET Ids /\ {} \subseteq known /\ {} \cap known' = {}
          /\ UNCHANGED <<saved, removed>>
      BY <2>2 DEF historyVars
    <3>2. /\ \A i \in Ids : object[i].path # 0 => object'[i].path # 0
          /\ \A i \in known' : i \in known \/ object[i].path = 0
      BY <2>2, <2>3
    <3>. QED BY <2>2, <2>3, <2>4, <3>1, <3>2, PersistStep
  <2>. QED BY <1>1, <2>2, <2>3, <2>5, ServedStep DEF gitVars, historyVars
<1>. QED BY <1>3, <1>4, <1>5, <1>6

\* A workspace is removed from the map; its removal is not answered yet.
LEMMA RemoveStep ==
  ASSUME WInv, NEW i \in Ids, removeWorkspaceCascade(i)
  PROVE  WInv'
<1>1. /\ i \in known /\ known' = known \ {i} /\ UNCHANGED <<object, saved, op, gitVars, historyVars>>
      /\ persistWorkspaces(known', object', {i})
  BY DEF removeWorkspaceCascade
<1>2. known \subseteq Ids /\ object \in [Ids -> Record]
  BY Types DEF WInv
<1>3. PathInv' /\ RemovedInv' /\ writes' \in Seq(WriteOf)
  <2>1. \A j \in known' : object'[j].path # 0
    BY <1>1 DEF WInv, PathInv
  <2>. QED BY <1>1, <1>2, <2>1, PersistStep DEF historyVars
<1>4. WorkspacesTypeOK'
  BY <1>1, <1>2, <1>3 DEF WInv, WorkspacesTypeOK, WriteOf, gitVars, historyVars
<1>5. OpsInv'
  BY <1>1 DEF WInv, OpsInv
<1>. QED BY <1>3, <1>4, <1>5 DEF WInv

\* The oldest write ends: what it removed is in no later one, and not known.
LEMMA WrittenStep ==
  ASSUME WInv, written
  PROVE  WInv'
<1>1. writes \in Seq(WriteOf) /\ writes # <<>> /\ Len(writes) \in Nat
  BY Types DEF WInv, written
<1>2. /\ Head(writes) = writes[1] /\ Head(writes) \in WriteOf
      /\ Tail(writes) \in Seq(WriteOf) /\ Len(Tail(writes)) = Len(writes) - 1
      /\ \A n \in 1..Len(Tail(writes)) : Tail(writes)[n] = writes[n + 1]
      /\ 1 \in 1..Len(writes)
  <2>1. Head(writes) \in WriteOf /\ Tail(writes) \in Seq(WriteOf)
        /\ Len(Tail(writes)) = Len(writes) - 1
        /\ \A n \in 1..Len(Tail(writes)) : Tail(writes)[n] = writes[n + 1]
    BY <1>1, HeadTailProperties
  <2>. QED BY <1>1, <2>1
<1>3. /\ saved' = writes[1].file /\ writes' = Tail(writes)
      /\ removed' = removed \cup writes[1].removes /\ unsaved' = FALSE
      /\ UNCHANGED <<known, object, op, gitVars, cut>>
  BY <1>2 DEF written
<1>4. /\ writes' \in Seq(WriteOf) /\ saved' \in File /\ removed' \subseteq Ids
      /\ \A n \in 1..Len(writes') : n + 1 \in 1..Len(writes) /\ writes'[n] = writes[n + 1]
  BY <1>1, <1>2, <1>3, Types DEF WInv, WriteOf
<1>5. WorkspacesTypeOK'
  BY <1>3, <1>4 DEF WInv, WorkspacesTypeOK, WriteOf, gitVars
<1>6. OpsInv'
  BY <1>3 DEF WInv, OpsInv
<1>7. PathInv'
  BY <1>2, <1>3, <1>4 DEF WInv, PathInv
<1>8. RemovedInv'
  <2>1. \A n \in 1..Len(writes') :
          /\ removed' \cap writes'[n].file.known = {}
          /\ writes'[n].removes \cap known' = {}
    BY <1>2, <1>3, <1>4 DEF WInv, RemovedInv
  <2>2. ASSUME NEW n \in 1..Len(writes'), NEW m \in 1..Len(writes'), n <= m
        PROVE  writes'[n].removes \cap writes'[m].file.known = {}
    BY <1>4, <2>2, SMTT(30) DEF WInv, RemovedInv
  <2>3. (removed \cap known = {} /\ removed \cap saved.known = {})'
    BY <1>2, <1>3 DEF WInv, RemovedInv
  <2>. QED BY <2>1, <2>2, <2>3 DEF RemovedInv
<1>. QED BY <1>5, <1>6, <1>7, <1>8 DEF WInv

\* The oldest write fails: the later ones are what they were.
LEMMA NotWrittenStep ==
  ASSUME WInv, notWritten
  PROVE  WInv'
<1>1. writes \in Seq(WriteOf) /\ writes # <<>> /\ Len(writes) \in Nat
  BY Types DEF WInv, notWritten
<1>2. /\ Tail(writes) \in Seq(WriteOf) /\ Len(Tail(writes)) = Len(writes) - 1
      /\ \A n \in 1..Len(Tail(writes)) : Tail(writes)[n] = writes[n + 1]
  BY <1>1, HeadTailProperties
<1>3. /\ writes' = Tail(writes) /\ unsaved' = TRUE
      /\ UNCHANGED <<known, object, saved, op, gitVars, removed, cut>>
  BY DEF notWritten
<1>4. /\ writes' \in Seq(WriteOf)
      /\ \A n \in 1..Len(writes') : n + 1 \in 1..Len(writes) /\ writes'[n] = writes[n + 1]
  BY <1>1, <1>2, <1>3
<1>5. WorkspacesTypeOK'
  BY <1>3, <1>4 DEF WInv, WorkspacesTypeOK, WriteOf, gitVars
<1>6. OpsInv'
  BY <1>3 DEF WInv, OpsInv
<1>7. PathInv'
  BY <1>3, <1>4 DEF WInv, PathInv
<1>8. RemovedInv'
  <2>1. \A n \in 1..Len(writes') :
          /\ removed' \cap writes'[n].file.known = {}
          /\ writes'[n].removes \cap known' = {}
    BY <1>3, <1>4 DEF WInv, RemovedInv
  <2>2. ASSUME NEW n \in 1..Len(writes'), NEW m \in 1..Len(writes'), n <= m
        PROVE  writes'[n].removes \cap writes'[m].file.known = {}
    BY <1>4, <2>2, SMTT(30) DEF WInv, RemovedInv
  <2>. QED BY <1>3, <2>1, <2>2 DEF WInv, RemovedInv
<1>. QED BY <1>5, <1>6, <1>7, <1>8 DEF WInv

\* The server starts again with what the file has.
LEMMA RestartStep ==
  ASSUME WInv, WorkspacesRestart
  PROVE  WInv'
<1>1. /\ known' = saved.known /\ writes' = <<>> /\ op' = [o \in Ops |-> NoOp]
      /\ object' = [i \in Ids |-> IF i \in saved.known THEN saved.object[i] ELSE object[i]]
      /\ unsaved' = FALSE /\ UNCHANGED <<saved, gitVars, removed>>
  BY DEF WorkspacesRestart
<1>2. /\ saved \in File /\ saved.known \subseteq Ids /\ saved.object \in [Ids -> Record]
      /\ object \in [Ids -> Record] /\ known \subseteq Ids
  BY Types DEF WInv, File
<1>3. object' \in [Ids -> Record]
      /\ \A i \in Ids : object'[i] = IF i \in saved.known THEN saved.object[i] ELSE object[i]
  BY <1>1, <1>2
<1>4. cut' \subseteq Names
  <2>1. cut \subseteq Names
    BY Types DEF WInv
  <2>2. ASSUME NEW j \in saved.known
        PROVE  saved.object[j].path \in Names
    <3>1. saved.object[j] \in Record /\ saved.object[j].path # 0
      BY <1>2 DEF WInv, PathInv
    <3>. QED BY <3>1, WorkspacesAssumption DEF Record
  <2>. QED BY <2>1, <2>2 DEF WorkspacesRestart
<1>5. op' \in [Ops -> OpOf] /\ OpsInv'
  BY <1>1, NoOpType DEF OpsInv
<1>6. writes' \in Seq(WriteOf) /\ Len(writes') = 0
  BY <1>1
<1>7. WorkspacesTypeOK'
  BY <1>1, <1>2, <1>3, <1>4, <1>5, <1>6 DEF WInv, WorkspacesTypeOK, OpOf, WriteOf, gitVars
<1>8. PathInv'
  <2>1. removed \subseteq Ids
    BY Types DEF WInv
  <2>2. (\A i \in known \cup removed : object[i].path # 0)'
    BY <1>1, <1>2, <1>3, <2>1 DEF WInv, PathInv
  <2>3. (\A i \in saved.known : object[i].path # 0 /\ saved.object[i].path # 0)'
    BY <1>1, <1>2, <1>3 DEF WInv, PathInv
  <2>. QED BY <1>6, <2>2, <2>3 DEF PathInv
<1>9. RemovedInv'
  BY <1>1, <1>6 DEF WInv, RemovedInv
<1>. QED BY <1>5, <1>7, <1>8, <1>9 DEF WInv

-------------------------------------------------------------------------------
LEMMA WorkspacesStart_WInv ==
  ASSUME WorkspacesInit
  PROVE  WInv
<1> DEFINE nothing == [known |-> {}, object |-> [i \in Ids |-> [path |-> 0, branch |-> 0]]]
           two == [known |-> {1, 2},
                   object |-> [nothing.object EXCEPT ![1] = [path |-> 1, branch |-> 1],
                                                     ![2] = [path |-> 2, branch |-> 0]]]
<1>1. MaxNames \in Nat /\ MaxNames >= 2 /\ 1 \in Ids /\ 2 \in Ids
  BY WorkspacesAssumption
<1>2. nothing \in File /\ nothing.known = {}
  BY <1>1 DEF File, Record
<1>3. /\ two \in File /\ two.known = {1, 2}
      /\ two.object[1].path = 1 /\ two.object[2].path = 2
  BY <1>1 DEF File, Record
<1>4. /\ saved \in {nothing, two} /\ known = saved.known /\ object = saved.object
      /\ dirs = {object[i].path : i \in known}
      /\ head = [p \in Names |-> IF known # {} /\ p = 1 THEN 1 ELSE 0]
      /\ branches = {1} \cap known
      /\ writes = <<>> /\ op = [o \in Ops |-> NoOp] /\ removed = {} /\ cut = {}
      /\ unsaved = FALSE
  BY DEF WorkspacesInit
<1> HIDE DEF nothing, two
<1>5. /\ saved \in File /\ known \subseteq {1, 2} /\ object \in [Ids -> Record]
      /\ \A i \in known : object[i].path \in 1..2
  BY <1>1, <1>2, <1>3, <1>4 DEF File
<1>6. op \in [Ops -> OpOf] /\ OpsInv
  BY <1>4, NoOpType DEF OpsInv
<1>7. dirs \subseteq Names
  BY <1>1, <1>4, <1>5
<1>8. head \in [Names -> 0..MaxNames] /\ branches \subseteq Names
  BY <1>1, <1>4
<1>9. writes \in Seq(WriteOf) /\ Len(writes) = 0
  BY <1>4
<1>10. WorkspacesTypeOK
  BY <1>1, <1>4, <1>5, <1>6, <1>7, <1>8, <1>9 DEF WorkspacesTypeOK, OpOf, WriteOf
<1>11. PathInv /\ RemovedInv
  BY <1>4, <1>5, <1>9 DEF PathInv, RemovedInv
<1>. QED BY <1>6, <1>10, <1>11 DEF WInv

\* Every step of the module keeps the invariant, and so does one that is not its own.
LEMMA WorkspacesKept ==
  ASSUME WInv, [WorkspacesNext]_workspaceVars
  PROVE  WInv'
<1>1. CASE WorkspacesStart
  BY <1>1, StartStep
<1>2. CASE WorkspacesStep
  BY <1>2, QuietSteps, ServedSteps, WrittenStep DEF WorkspacesStep
<1>3. CASE WorkspacesRestart
  BY <1>3, RestartStep
<1>4. CASE notWritten \/ \E i \in Ids : removeWorkspaceCascade(i)
  BY <1>4, NotWrittenStep, RemoveStep
<1>5. CASE UNCHANGED workspaceVars
  <2>1. UNCHANGED <<known, object, writes, saved, op, dirs, head, branches, removed, cut, unsaved>>
    BY <1>5 DEF workspaceVars, serverVars, gitVars, historyVars
  <2>. QED BY <2>1 DEF WInv, WorkspacesTypeOK, OpsInv, PathInv, RemovedInv
<1>. QED BY <1>1, <1>2, <1>3, <1>4, <1>5 DEF WorkspacesNext

\* A workspace keeps its directory, and one that comes to be known takes a number that
\* none has had, unless the server starts again.
LEMMA PathsKept ==
  ASSUME WInv, [WorkspacesNext]_workspaceVars
  PROVE  /\ \A i \in Ids : object[i].path # 0 => object'[i].path # 0
         /\ (\/ WorkspacesStart \/ WorkspacesStep
             \/ notWritten \/ \E i \in Ids : removeWorkspaceCascade(i)
             \/ UNCHANGED workspaceVars)
              => \A i \in known' : i \in known \/ object[i].path = 0
<1>0. object \in [Ids -> Record] /\ known \subseteq Ids
  BY Types DEF WInv
<1>1. CASE UNCHANGED <<known, object>>
  BY <1>1
<1>2. ASSUME NEW o \in Ops, NEW record \in Record, record.path # 0, setWorkspace(o, record)
      PROVE  /\ \A i \in Ids : object[i].path # 0 => object'[i].path # 0
             /\ \A i \in known' : i \in known \/ object[i].path = 0
  BY <1>0, <1>2 DEF setWorkspace
<1>3. ASSUME NEW o \in Ops
      PROVE  /\ op[o].at \in Named => op[o].name \in Names
             /\ op[o].branch \in 0..MaxNames
             /\ op[o].at \in Renames => op[o].id \in Ids
             /\ \A n \in Names, b \in 0..MaxNames : [path |-> n, branch |-> b] \in Record /\ n # 0
             /\ 0 \in 0..MaxNames
  BY Types, WorkspacesAssumption DEF WInv, OpsInv, OpOf, Record
<1>4. ASSUME NEW o \in Ops, found(o) \/ copied(o) \/ added(o)
      PROVE  /\ \A i \in Ids : object[i].path # 0 => object'[i].path # 0
             /\ \A i \in known' : i \in known \/ object[i].path = 0
  <2>1. op[o].name \in Names
    BY <1>3, <1>4 DEF found, copied, added, Named
  <2>2. \/ UNCHANGED <<known, object>>
        \/ setWorkspace(o, [path |-> op[o].name, branch |-> 0])
        \/ setWorkspace(o, [path |-> op[o].name, branch |-> op[o].branch])
    BY <1>4 DEF found, copied, added
  <2>. QED BY <1>2, <1>3, <2>1, <2>2
<1>5. ASSUME NEW o \in Ops, renamed(o)
      PROVE  /\ \A i \in Ids : object[i].path # 0 => object'[i].path # 0
             /\ known' = known
  BY <1>0, <1>3, <1>5 DEF renamed, Renames, stillKnown, Record
<1>6. ASSUME \/ WorkspacesStart \/ WorkspacesStep
             \/ notWritten \/ \E i \in Ids : removeWorkspaceCascade(i)
             \/ UNCHANGED workspaceVars
      PROVE  /\ \A i \in Ids : object[i].path # 0 => object'[i].path # 0
             /\ \A i \in known' : i \in known \/ object[i].path = 0
  <2>1. CASE WorkspacesStart
    BY <1>1, <2>1 DEF WorkspacesStart, addWorkspaceFromPath, addCloneWorkspace, handleAddWorktree,
                      handleAddWorkspaceFromGitUrl, handleRenameWorktree
  <2>2. CASE WorkspacesStep
    BY <1>1, <1>4, <1>5, <2>2 DEF WorkspacesStep, cloned, named, asked, gitWorktreeAdd, chosen,
                                  gitBranchRename, written
  <2>3. CASE notWritten \/ \E i \in Ids : removeWorkspaceCascade(i)
    BY <2>3 DEF removeWorkspaceCascade, notWritten
  <2>4. CASE UNCHANGED workspaceVars
    BY <1>1, <2>4 DEF workspaceVars, serverVars
  <2>. QED BY <1>6, <2>1, <2>2, <2>3, <2>4
<1>7. ASSUME WorkspacesRestart
      PROVE  \A i \in Ids : object[i].path # 0 => object'[i].path # 0
  BY <1>0, <1>7, Types DEF WorkspacesRestart, WInv, PathInv
<1>. QED BY <1>6, <1>7 DEF WorkspacesNext

-------------------------------------------------------------------------------
(***************************************************************************)
(* The branches of worktrees.                                              *)
(***************************************************************************)

\* A file says of the workspaces in it which directory they have and whether they are
\* worktrees, and the newest one says all that the server knows.
FileOK(f) ==
  \A i \in f.known : /\ f.object[i].path = object[i].path
                     /\ f.object[i].branch # 0 <=> object[i].branch # 0
Current(f) == f.known = known /\ \A i \in known : f.object[i] = object[i]
FilesInv ==
  /\ FileOK(saved) /\ \A n \in 1..Len(writes) : FileOK(writes[n].file)
  /\ writes = <<>> /\ ~unsaved => Current(saved)
  /\ writes # <<>> => Current(writes[Len(writes)].file)

\* A worktree has a directory of its own, and a branch that no other has checked out.
TreesInv ==
  /\ \A i \in Ids : object[i].branch # 0 => object[i].path \in dirs
  /\ \A i, j \in Ids : object[i].branch # 0 /\ object[j].branch # 0 /\ object[i].path = object[j].path
                         => i = j
  /\ \A p \in Names : head[p] # 0 => head[p] \in branches
  /\ \A p, q \in Names : head[p] # 0 /\ head[p] = head[q] => p = q

\* A worktree that git has made and the server does not know yet
AddedInv ==
  \A o \in Ops : op[o].at = "added" =>
    /\ op[o].name \in dirs
    /\ op[o].name \in cut \/ head[op[o].name] = op[o].branch
    /\ \A i \in Ids : object[i].branch # 0 => object[i].path # op[o].name
    /\ \A q \in Ops : op[q].at = "added" /\ op[q].name = op[o].name => q = o

\* A branch that git has renamed and the server does not know yet
RenamesInv ==
  \A o \in Ops : op[o].at \in Renames =>
    /\ object[op[o].id].branch # 0
    /\ op[o].at = "renamed" =>
         object[op[o].id].path \in cut \/ head[object[op[o].id].path] = op[o].name

\* A workspace that the server knows, or that a call is about
Live(i) == i \in known \/ \E o \in Ops : op[o].at \in Renames /\ op[o].id = i

RecordedInv ==
  \A i \in Ids : Live(i) =>
    \/ object[i].branch = 0 \/ object[i].path \in cut
    \/ head[object[i].path] = object[i].branch
    \/ \E o \in Ops : op[o].at = "renamed" /\ op[o].id = i

BInv == FilesInv /\ TreesInv /\ AddedInv /\ RenamesInv /\ RecordedInv

\* A step after which the server knows the same and git has the same, and in which no
\* worktree is made and no branch renamed.
LEMMA CallGoesOn ==
  ASSUME WInv, BInv, NEW o \in Ops, NEW next \in OpOf, op' = [op EXCEPT ![o] = next],
         UNCHANGED <<known, object, writes, saved, unsaved, head, branches, cut>>, dirs \subseteq dirs',
         op[o].at # "renamed", next.at \notin {"added", "renamed"},
         next.at \in Renames => /\ object[next.id].branch # 0
                                /\ \/ next.id \in known
                                   \/ op[o].at \in Renames /\ op[o].id = next.id
  PROVE  BInv'
<1>1. \A q \in Ops : op'[q] = IF q = o THEN next ELSE op[q]
  BY Types DEF WInv
<1>2. FilesInv'
  BY DEF BInv, FilesInv, FileOK, Current
<1>3. TreesInv'
  BY DEF BInv, TreesInv
<1>4. AddedInv'
  BY <1>1 DEF BInv, AddedInv
<1>5. RenamesInv'
  BY <1>1 DEF BInv, RenamesInv
<1>6. RecordedInv'
  <2>. SUFFICES ASSUME NEW i \in Ids, Live(i)'
                PROVE  \/ object[i].branch = 0 \/ object[i].path \in cut
                       \/ head[object[i].path] = object[i].branch
                       \/ \E q \in Ops : op'[q].at = "renamed" /\ op'[q].id = i
    BY DEF RecordedInv
  <2>1. Live(i)
    BY <1>1 DEF Live
  <2>. QED BY <1>1, <2>1 DEF BInv, RecordedInv
<1>. QED BY <1>2, <1>3, <1>4, <1>5, <1>6 DEF BInv

LEMMA NoCallGoesOn ==
  ASSUME BInv, UNCHANGED <<known, object, writes, saved, unsaved, head, branches, cut, op, dirs>>
  PROVE  BInv'
BY DEF BInv, FilesInv, FileOK, Current, TreesInv, AddedInv, RenamesInv, RecordedInv, Live

LEMMA BStart ==
  ASSUME WInv, BInv, WorkspacesStart
  PROVE  BInv'
<1>1. PICK o \in Ops, n \in Names :
        \/ addWorkspaceFromPath(o, n) \/ addCloneWorkspace(o, n) \/ handleAddWorktree(o, n)
        \/ handleAddWorkspaceFromGitUrl(o, n)
        \/ \E i \in Ids : handleRenameWorktree(o, i, n)
  BY DEF WorkspacesStart
<1>2. MaxNames \in Nat /\ 1 \in Names /\ n \in 0..MaxNames + 1 /\ n \in 0..MaxNames
      /\ 1 \in 0..MaxNames + 1
  BY WorkspacesAssumption
<1>3. UNCHANGED <<known, object, writes, saved, unsaved, head, branches, cut, dirs>> /\ op[o].at = "idle"
  BY <1>1 DEF addWorkspaceFromPath, addCloneWorkspace, handleAddWorktree,
              handleAddWorkspaceFromGitUrl, handleRenameWorktree, begin, gitVars, historyVars
<1>4. \E next \in OpOf :
        /\ op' = [op EXCEPT ![o] = next]
        /\ next.at \notin {"added", "renamed"}
        /\ next.at \in Renames => object[next.id].branch # 0 /\ next.id \in known
  <2>1. ASSUME NEW i \in Ids, handleRenameWorktree(o, i, n)
        PROVE  \E next \in OpOf :
                 /\ op' = [op EXCEPT ![o] = next]
                 /\ next.at \notin {"added", "renamed"}
                 /\ next.at \in Renames => object[next.id].branch # 0 /\ next.id \in known
    <3> DEFINE next == [NoOp EXCEPT !.at = "choosing", !.id = i, !.name = n]
    <3>1. next \in OpOf /\ next.at = "choosing" /\ next.id = i
      BY <1>2, NoOpType DEF OpOf, Stages, NoOp
    <3>. QED BY <2>1, <3>1 DEF handleRenameWorktree, begin
  <2>2. ASSUME NEW next \in OpOf, next.at \notin Renames, next.at # "added", begin(o, next)
        PROVE  \E nxt \in OpOf :
                 /\ op' = [op EXCEPT ![o] = nxt]
                 /\ nxt.at \notin {"added", "renamed"}
                 /\ nxt.at \in Renames => object[nxt.id].branch # 0 /\ nxt.id \in known
    BY <2>2 DEF begin, Renames
  <2>3. CASE ~\E i \in Ids : handleRenameWorktree(o, i, n)
    <3>1. \A at \in {"looking", "copying", "cloning"} :
            /\ [NoOp EXCEPT !.at = at, !.name = n] \in OpOf
            /\ [NoOp EXCEPT !.at = at, !.name = n].at = at
      BY <1>2, NoOpType DEF OpOf, Stages, NoOp
    <3>2. /\ [NoOp EXCEPT !.at = "naming", !.name = 1, !.branch = n] \in OpOf
          /\ [NoOp EXCEPT !.at = "naming", !.name = 1, !.branch = n].at = "naming"
      BY <1>2, NoOpType DEF OpOf, Stages, NoOp
    <3>3. CASE handleAddWorktree(o, n)
      BY <2>2, <3>2, <3>3 DEF handleAddWorktree, Renames
    <3>4. CASE addWorkspaceFromPath(o, n) \/ addCloneWorkspace(o, n)
                 \/ handleAddWorkspaceFromGitUrl(o, n)
      BY <2>2, <3>1, <3>4 DEF addWorkspaceFromPath, addCloneWorkspace,
                              handleAddWorkspaceFromGitUrl, Renames
    <3>. QED BY <1>1, <2>3, <3>3, <3>4
  <2>. QED BY <2>1, <2>3
<1>. QED BY <1>3, <1>4, CallGoesOn

\* Calls that end, or look further for a name.
LEMMA BEnds ==
  ASSUME WInv, BInv, NEW o \in Ops, ends(o), op[o].at # "renamed",
         UNCHANGED <<known, object, writes, saved, unsaved, head, branches, cut>>, dirs \subseteq dirs'
  PROVE  BInv'
BY CallGoesOn, NoOpType DEF ends, NoOp, Renames

LEMMA BLooks ==
  ASSUME WInv, BInv, NEW o \in Ops, cloned(o) \/ named(o) \/ asked(o) \/ chosen(o)
  PROVE  BInv'
<1>1. /\ op \in [Ops -> OpOf] /\ op[o] \in OpOf /\ op[o].at # "renamed"
      /\ UNCHANGED <<known, object, writes, saved, unsaved, head, branches, cut>> /\ dirs \subseteq dirs'
  BY Types DEF WInv, cloned, named, asked, chosen, gitVars, historyVars
<1>2. CASE ends(o)
  BY <1>1, <1>2, BEnds
<1>3. CASE \E stage \in {"looking", "asking", "adding", "creating"} : goesOn(o, stage)
  <2>1. PICK stage \in {"looking", "asking", "adding", "creating"} : goesOn(o, stage)
    BY <1>3
  <2> DEFINE next == [op[o] EXCEPT !.at = stage]
  <2>2. next \in OpOf /\ next.at = stage /\ op' = [op EXCEPT ![o] = next]
    BY <1>1, <2>1 DEF OpOf, Stages, goesOn
  <2> HIDE DEF next
  <2>3. next.at \notin {"added", "renamed"} /\ next.at \notin Renames
    BY <2>1, <2>2 DEF Renames
  <2>. QED BY <1>1, <2>2, <2>3, CallGoesOn
<1>4. CASE op[o].name \in Names /\ op' = [op EXCEPT ![o].name = @ + 1]
           /\ op[o].at \in {"naming", "choosing"}
  <2> DEFINE next == [op[o] EXCEPT !.name = @ + 1]
  <2>1. op[o].name + 1 \in 0..MaxNames + 1
    BY <1>4, WorkspacesAssumption
  <2>2. next \in OpOf /\ next.at = op[o].at /\ next.id = op[o].id /\ op' = [op EXCEPT ![o] = next]
    BY <1>1, <1>4, <2>1 DEF OpOf
  <2> HIDE DEF next
  <2>3. /\ next.at \notin {"added", "renamed"}
        /\ next.at \in Renames => object[next.id].branch # 0 /\ op[o].at \in Renames
    BY <1>4, <2>2 DEF BInv, RenamesInv, Renames
  <2>. QED BY <1>1, <2>2, <2>3, CallGoesOn
<1>5. CASE op[o].at = "choosing" /\ op[o].name \in Names
           /\ op' = [op EXCEPT ![o].at = "renaming", ![o].branch = object[op[o].id].branch]
  <2> DEFINE next == [op[o] EXCEPT !.at = "renaming", !.branch = object[op[o].id].branch]
  <2>1. op[o].id \in Ids /\ object[op[o].id].branch \in 0..MaxNames
    BY <1>5, Types DEF WInv, OpsInv, Renames, Record
  <2>2. next \in OpOf /\ next.at = "renaming" /\ next.id = op[o].id /\ op' = [op EXCEPT ![o] = next]
    BY <1>1, <1>5, <2>1 DEF OpOf, Stages
  <2> HIDE DEF next
  <2>3. object[next.id].branch # 0 /\ op[o].at \in Renames
    BY <1>5, <2>2 DEF BInv, RenamesInv, Renames
  <2>. QED BY <1>1, <2>2, <2>3, CallGoesOn
<1>. QED BY <1>2, <1>3, <1>4, <1>5 DEF cloned, named, asked, chosen

\* git worktree add: the worktree is at a directory of its own, on a branch of its own.
LEMMA BAdds ==
  ASSUME WInv, BInv, NEW o \in Ops, gitWorktreeAdd(o)
  PROVE  BInv'
<1> DEFINE p == op[o].name
           b == op[o].branch
<1>1. /\ op \in [Ops -> OpOf] /\ op[o] \in OpOf /\ p \in Names /\ b \in Names
      /\ head \in [Names -> 0..MaxNames] /\ op[o].at # "renamed"
      /\ \A i \in Ids : object[i] \in Record
      /\ UNCHANGED <<known, object, writes, saved, removed, cut, unsaved>>
  BY Types DEF WInv, OpsInv, gitWorktreeAdd, Named, Makes, historyVars
<1>2. CASE ends(o) /\ UNCHANGED gitVars
  BY <1>1, <1>2, BEnds DEF gitVars
<1>3. CASE /\ p \notin dirs
           /\ (\A q \in Names : head[q] # b) \/ b \notin branches
           /\ dirs' = dirs \cup {p} /\ head' = [head EXCEPT ![p] = b]
           /\ branches' = branches \cup {b} /\ goesOn(o, "added")
  <2>1. \A q \in Ops : op'[q] = IF q = o THEN [op[o] EXCEPT !.at = "added"] ELSE op[q]
    BY <1>1, <1>3 DEF goesOn
  <2>2. /\ op'[o].at = "added" /\ op'[o].name = p /\ op'[o].branch = b
        /\ \A q \in Ops : q # o => op'[q] = op[q]
    BY <1>1, <2>1 DEF OpOf
  <2>3. \A q \in Names : head'[q] = IF q = p THEN b ELSE head[q]
    BY <1>1, <1>3
  <2>4. \A q \in Names : head[q] # b
    BY <1>1, <1>3 DEF BInv, TreesInv
  <2>5. FilesInv'
    BY <1>1 DEF BInv, FilesInv, FileOK, Current
  <2>6. TreesInv'
    BY <1>1, <1>3, <2>3, <2>4 DEF BInv, TreesInv
  <2>7. \A i \in Ids : object[i].branch # 0 => object[i].path # p /\ object[i].path \in Names
    BY <1>3, Types DEF BInv, TreesInv, WInv
  <2>8. AddedInv'
    <3>. SUFFICES ASSUME NEW q \in Ops, op'[q].at = "added"
                  PROVE  /\ op'[q].name \in dirs'
                         /\ op'[q].name \in cut \/ head'[op'[q].name] = op'[q].branch
                         /\ \A i \in Ids : object[i].branch # 0 => object[i].path # op'[q].name
                         /\ \A r \in Ops : op'[r].at = "added" /\ op'[r].name = op'[q].name => r = q
      BY <1>1 DEF AddedInv
    <3>1. \A r \in Ops : r # o /\ op[r].at = "added" => op[r].name \in dirs /\ op[r].name # p
                                                        /\ op[r].name \in Names
      BY <1>3, Types DEF BInv, AddedInv, WInv
    <3>2. CASE q = o
      BY <1>1, <1>3, <2>2, <2>3, <2>7, <3>1, <3>2
    <3>3. CASE q # o
      BY <1>1, <1>3, <2>2, <2>3, <2>7, <3>1, <3>3 DEF BInv, AddedInv
    <3>. QED BY <3>2, <3>3
  <2>9. RenamesInv'
    <3>. SUFFICES ASSUME NEW q \in Ops, op'[q].at \in Renames
                  PROVE  /\ object[op'[q].id].branch # 0
                         /\ op'[q].at = "renamed" =>
                              \/ object[op'[q].id].path \in cut
                              \/ head'[object[op'[q].id].path] = op'[q].name
      BY <1>1 DEF RenamesInv
    <3>1. q # o /\ op'[q] = op[q]
      BY <2>2 DEF Renames
    <3>2. op[q].id \in Ids
      BY <3>1 DEF WInv, OpsInv
    <3>. QED BY <2>3, <2>7, <3>1, <3>2 DEF BInv, RenamesInv
  <2>10. RecordedInv'
    <3>. SUFFICES ASSUME NEW i \in Ids, Live(i)'
                  PROVE  \/ object[i].branch = 0 \/ object[i].path \in cut
                         \/ head'[object[i].path] = object[i].branch
                         \/ \E q \in Ops : op'[q].at = "renamed" /\ op'[q].id = i
      BY <1>1 DEF RecordedInv
    <3>1. Live(i)
      BY <1>1, <2>2 DEF Live, Renames
    <3>. QED BY <1>1, <2>2, <2>3, <2>7, <3>1 DEF BInv, RecordedInv
  <2>. QED BY <2>5, <2>6, <2>8, <2>9, <2>10 DEF BInv
<1>. QED BY <1>2, <1>3 DEF gitWorktreeAdd

\* git branch -m: one worktree has the branch checked out, that of the workspace the call
\* is about, or renamings overlap.
LEMMA BRenames ==
  ASSUME WInv, BInv, NEW o \in Ops, gitBranchRename(o)
  PROVE  BInv'
<1> DEFINE from == op[o].branch
           to == op[o].name
           i0 == op[o].id
<1>1. /\ op \in [Ops -> OpOf] /\ op[o] \in OpOf /\ to \in Names /\ i0 \in Ids
      /\ head \in [Names -> 0..MaxNames] /\ op[o].at = "renaming"
      /\ branches \subseteq Names /\ 0 \notin Names /\ object[i0].branch # 0
      /\ UNCHANGED <<known, object, writes, saved, removed, unsaved, dirs>>
  BY Types, WorkspacesAssumption DEF WInv, OpsInv, gitBranchRename, Named, Renames, BInv, RenamesInv
<1>2. CASE ends(o) /\ UNCHANGED <<branches, head, cut>>
  BY <1>1, <1>2, BEnds
<1>3. CASE /\ from \in branches /\ to \notin branches
           /\ branches' = (branches \ {from}) \cup {to}
           /\ head' = [p \in Names |-> IF head[p] = from THEN to ELSE head[p]]
           /\ goesOn(o, "renamed")
           /\ \/ cut' = cut \cup {object[i0].path} \cup {p \in Names : head[p] = from}
              \/ /\ cut' = cut /\ object[i0].path \notin cut /\ object[i0].branch = from
                 /\ ~\E q \in Ops : op[q].at = "renamed" /\ op[q].id = i0
  <2>1. \A q \in Ops : op'[q] = IF q = o THEN [op[o] EXCEPT !.at = "renamed"] ELSE op[q]
    BY <1>1, <1>3 DEF goesOn
  <2>2. /\ op'[o].at = "renamed" /\ op'[o].name = to /\ op'[o].id = i0
        /\ \A q \in Ops : q # o => op'[q] = op[q]
    BY <1>1, <2>1 DEF OpOf
  <2>3. /\ \A p \in Names : head'[p] = IF head[p] = from THEN to ELSE head[p]
        /\ \A p \in Names : head[p] # to
        /\ from # 0 /\ to # 0
    BY <1>1, <1>3 DEF BInv, TreesInv
  <2>4. \A i \in Ids : object[i].branch # 0 => object[i].path \in Names
    BY Types DEF BInv, TreesInv, WInv
  <2>5. FilesInv'
    BY <1>1 DEF BInv, FilesInv, FileOK, Current
  <2>6. TreesInv'
    BY <1>1, <1>3, <2>3 DEF BInv, TreesInv
  <2>7. cut \subseteq cut'
    BY <1>3
  \* A worktree whose branch is renamed is the workspace's own, or is in cut'.
  <2>8. ASSUME NEW p \in Names, head[p] = from, p \notin cut'
        PROVE  p = object[i0].path /\ ~\E q \in Ops : op[q].at = "renamed" /\ op[q].id = i0
    <3>1. /\ cut' = cut /\ object[i0].path \notin cut /\ object[i0].branch = from
          /\ ~\E q \in Ops : op[q].at = "renamed" /\ op[q].id = i0
      BY <1>3, <2>8
    <3>2. Live(i0)
      BY <1>1 DEF Live, Renames
    <3>3. head[object[i0].path] = from
      BY <1>1, <3>1, <3>2 DEF BInv, RecordedInv
    <3>. QED BY <1>1, <2>3, <2>4, <2>8, <3>1, <3>3 DEF BInv, TreesInv
  <2>9. object[i0].path \in cut' \/ head'[object[i0].path] = to
    <3>1. CASE object[i0].path \in cut'
      BY <3>1
    <3>2. CASE object[i0].path \notin cut'
      <4>1. /\ object[i0].path \notin cut /\ object[i0].branch = from
            /\ ~\E q \in Ops : op[q].at = "renamed" /\ op[q].id = i0
        BY <1>3, <3>2
      <4>2. Live(i0)
        BY <1>1 DEF Live, Renames
      <4>3. head[object[i0].path] = from
        BY <1>1, <4>1, <4>2 DEF BInv, RecordedInv
      <4>. QED BY <1>1, <2>3, <2>4, <4>3
    <3>. QED BY <3>1, <3>2
  <2>10. AddedInv'
    <3>. SUFFICES ASSUME NEW q \in Ops, op'[q].at = "added"
                  PROVE  /\ op'[q].name \in dirs
                         /\ op'[q].name \in cut' \/ head'[op'[q].name] = op'[q].branch
                         /\ \A i \in Ids : object[i].branch # 0 => object[i].path # op'[q].name
                         /\ \A r \in Ops : op'[r].at = "added" /\ op'[r].name = op'[q].name => r = q
      BY <1>1 DEF AddedInv
    <3>1. q # o /\ op'[q] = op[q]
      BY <2>2
    <3>2. /\ op[q].name \in dirs /\ op[q].name \in Names
          /\ op[q].name \in cut \/ head[op[q].name] = op[q].branch
          /\ \A i \in Ids : object[i].branch # 0 => object[i].path # op[q].name
          /\ \A r \in Ops : op[r].at = "added" /\ op[r].name = op[q].name => r = q
      BY <3>1, Types DEF BInv, AddedInv, WInv
    <3>3. head[op[q].name] = from => op[q].name \in cut'
      BY <1>1, <2>8, <3>2
    <3>4. \A r \in Ops : op'[r].at = "added" => r # o /\ op'[r] = op[r]
      BY <2>2
    <3>5. op[q].name \in cut' \/ head'[op[q].name] = op[q].branch
      BY <2>3, <2>7, <3>2, <3>3
    <3>. QED BY <3>1, <3>2, <3>4, <3>5
  <2>11. RenamesInv'
    <3>. SUFFICES ASSUME NEW q \in Ops, op'[q].at \in Renames
                  PROVE  /\ object[op'[q].id].branch # 0
                         /\ op'[q].at = "renamed" =>
                              \/ object[op'[q].id].path \in cut'
                              \/ head'[object[op'[q].id].path] = op'[q].name
      BY <1>1 DEF RenamesInv
    <3>1. CASE q = o
      BY <1>1, <2>2, <2>9, <3>1
    <3>2. CASE q # o
      <4>1. /\ op'[q] = op[q] /\ op[q].id \in Ids /\ object[op[q].id].branch # 0
            /\ op[q].at = "renamed" => \/ object[op[q].id].path \in cut
                                       \/ head[object[op[q].id].path] = op[q].name
        BY <2>2, <3>2 DEF BInv, RenamesInv, WInv, OpsInv
      <4>2. ASSUME op[q].at = "renamed", head[object[op[q].id].path] = from,
                   object[op[q].id].path \notin cut'
            PROVE  FALSE
        <5>1. object[op[q].id].path = object[i0].path
          BY <2>4, <2>8, <4>1, <4>2
        <5>2. op[q].id = i0
          BY <1>1, <4>1, <5>1 DEF BInv, TreesInv
        <5>. QED BY <2>4, <2>8, <4>1, <4>2, <5>2
      <4>. QED BY <2>3, <2>4, <2>7, <4>1, <4>2
    <3>. QED BY <3>1, <3>2
  <2>12. RecordedInv'
    <3>. SUFFICES ASSUME NEW i \in Ids, Live(i)'
                  PROVE  \/ object[i].branch = 0 \/ object[i].path \in cut'
                         \/ head'[object[i].path] = object[i].branch
                         \/ \E q \in Ops : op'[q].at = "renamed" /\ op'[q].id = i
      BY <1>1 DEF RecordedInv
    <3>1. Live(i)
      BY <1>1, <2>2 DEF Live, Renames
    <3>2. CASE \E q \in Ops : op[q].at = "renamed" /\ op[q].id = i
      BY <1>1, <2>2, <3>2
    <3>3. CASE object[i].branch # 0 /\ head[object[i].path] = object[i].branch
      <4>1. CASE head[object[i].path] = from /\ object[i].path \notin cut'
        <5>1. i = i0
          BY <1>1, <2>4, <2>8, <3>3, <4>1 DEF BInv, TreesInv
        <5>. QED BY <2>2, <5>1
      <4>2. CASE head[object[i].path] # from
        BY <2>3, <2>4, <3>3, <4>2
      <4>. QED BY <4>1, <4>2
    <3>. QED BY <2>7, <3>1, <3>2, <3>3 DEF BInv, RecordedInv
  <2>. QED BY <2>5, <2>6, <2>10, <2>11, <2>12 DEF BInv
<1>. QED BY <1>2, <1>3 DEF gitBranchRename

\* A step that persists the workspaces leaves files that say what they said.
LEMMA BPersist ==
  ASSUME WInv, BInv, NEW rem \in SUBSET Ids, known' \subseteq Ids, object' \in [Ids -> Record],
         persistWorkspaces(known', object', rem), UNCHANGED saved,
         \A i \in Ids : object[i].path # 0 =>
            object'[i].path = object[i].path /\ (object'[i].branch # 0 <=> object[i].branch # 0)
  PROVE  FilesInv'
<1>1. PICK k \in SUBSET Ids, obj \in [Ids -> Record] : k = known' /\ obj = object'
  OBVIOUS
<1>2. WorkspacesTypeOK /\ rem \in SUBSET Ids /\ persistWorkspaces(k, obj, rem)
  BY <1>1, Types DEF WInv
<1>3. /\ writes' \in Seq(WriteOf) /\ Len(writes) \in Nat /\ Len(writes') = Len(writes) + 1
      /\ \A n \in 1..Len(writes) : writes'[n] = writes[n]
      /\ writes'[Len(writes) + 1] = [file |-> [known |-> k, object |-> obj], removes |-> rem]
  BY <1>2, PersistFacts
<1>4. /\ saved.known \subseteq Ids
      /\ \A n \in 1..Len(writes) : writes[n].file.known \subseteq Ids
  <2>1. writes \in Seq(WriteOf)
    BY Types DEF WInv
  <2>2. \A n \in 1..Len(writes) : writes[n] \in WriteOf
    BY <2>1
  <2>. QED BY <2>2, Types DEF WInv, WriteOf, File
<1>5. FileOK(saved)'
  BY <1>4 DEF FileOK, BInv, FilesInv, WInv, PathInv
<1>6. ASSUME NEW n \in 1..Len(writes')
      PROVE  FileOK(writes[n].file)'
  <2>1. CASE n \in 1..Len(writes)
    BY <1>3, <1>4, <2>1 DEF FileOK, BInv, FilesInv, WInv, PathInv
  <2>2. CASE n = Len(writes) + 1
    BY <1>1, <1>3, <2>2 DEF FileOK
  <2>. QED BY <1>3, <2>1, <2>2
<1>7. Current(writes[Len(writes)].file)' /\ writes' # <<>>
  BY <1>1, <1>3 DEF Current
<1>. QED BY <1>5, <1>6, <1>7 DEF FilesInv

LEMMA BSet ==
  ASSUME WInv, BInv, NEW o \in Ops, NEW record \in Record, record.path # 0,
         setWorkspace(o, record), ends(o), op[o].at \notin Renames,
         UNCHANGED <<saved, cut, head, branches>>, dirs \subseteq dirs',
         \/ record.branch = 0
         \/ op[o].at = "added" /\ record.path = op[o].name /\ record.branch = op[o].branch
  PROVE  BInv'
<1>1. PICK i \in Ids : /\ object[i].path = 0
                       /\ known' = known \cup {i}
                       /\ object' = [object EXCEPT ![i] = record]
                       /\ persistWorkspaces(known', object', {})
  BY DEF setWorkspace
<1>2. /\ known \subseteq Ids /\ object \in [Ids -> Record] /\ op \in [Ops -> OpOf]
      /\ dirs \subseteq Names /\ 0 \notin Names
  BY Types DEF WInv
<1>3. /\ known' \subseteq Ids /\ object' \in [Ids -> Record] /\ object'[i] = record
      /\ \A j \in Ids : j # i => object'[j] = object[j]
  BY <1>1, <1>2
<1>4. object[i].branch = 0 /\ ~Live(i)
  BY <1>1, <1>2 DEF BInv, TreesInv, WInv, PathInv, OpsInv, Live
<1>5. op'[o] = NoOp /\ \A q \in Ops : q # o => op'[q] = op[q]
  BY <1>2 DEF ends
<1>6. NoOp.at = "idle"
  BY DEF NoOp
<1>7. FilesInv'
  BY <1>1, <1>3, BPersist
<1>8. \A j, k \in Ids : object'[j].branch # 0 /\ object'[k].branch # 0
         /\ object'[j].path = object'[k].path => j = k
  BY <1>1, <1>2, <1>3, <1>4 DEF BInv, TreesInv, AddedInv
<1>9. TreesInv'
  <2>1. ASSUME NEW j \in Ids, object'[j].branch # 0
        PROVE  object'[j].path \in dirs'
    BY <1>3, <2>1 DEF BInv, TreesInv, AddedInv
  <2>. QED BY <1>8, <2>1 DEF BInv, TreesInv
<1>10. AddedInv'
  <2>. SUFFICES ASSUME NEW q \in Ops, op'[q].at = "added"
                PROVE  /\ op'[q].name \in dirs'
                       /\ op'[q].name \in cut' \/ head'[op'[q].name] = op'[q].branch
                       /\ \A j \in Ids : object'[j].branch # 0 => object'[j].path # op'[q].name
                       /\ \A r \in Ops : op'[r].at = "added" /\ op'[r].name = op'[q].name => r = q
    BY DEF AddedInv
  <2>1. q # o /\ op'[q] = op[q] /\ op[q].at = "added"
    BY <1>5, <1>6
  <2>2. object'[i].branch # 0 => object'[i].path # op[q].name
    BY <1>3, <2>1 DEF BInv, AddedInv
  <2>3. \A r \in Ops : op'[r].at = "added" => op'[r] = op[r]
    BY <1>5, <1>6
  <2>. QED BY <1>3, <2>1, <2>2, <2>3 DEF BInv, AddedInv
<1>11. RenamesInv'
  <2>. SUFFICES ASSUME NEW q \in Ops, op'[q].at \in Renames
                PROVE  /\ object'[op'[q].id].branch # 0
                       /\ op'[q].at = "renamed" =>
                            \/ object'[op'[q].id].path \in cut
                            \/ head[object'[op'[q].id].path] = op'[q].name
    BY DEF RenamesInv
  <2>1. q # o /\ op'[q] = op[q]
    BY <1>5, <1>6 DEF Renames
  <2>2. op[q].id \in Ids /\ op[q].id # i
    BY <1>1, <2>1 DEF WInv, OpsInv
  <2>. QED BY <1>3, <2>1, <2>2 DEF BInv, RenamesInv
<1>12. RecordedInv'
  <2>. SUFFICES ASSUME NEW j \in Ids, Live(j)'
                PROVE  \/ object'[j].branch = 0 \/ object'[j].path \in cut
                       \/ head[object'[j].path] = object'[j].branch
                       \/ \E q \in Ops : op'[q].at = "renamed" /\ op'[q].id = j
    BY DEF RecordedInv
  <2>1. CASE j = i
    BY <1>3, <2>1 DEF BInv, AddedInv
  <2>2. CASE j # i
    <3>1. Live(j)
      BY <1>1, <1>5, <1>6, <2>2 DEF Live, Renames
    <3>. QED BY <1>3, <1>5, <2>2, <3>1 DEF BInv, RecordedInv, Renames
  <2>. QED BY <2>1, <2>2
<1>. QED BY <1>7, <1>9, <1>10, <1>11, <1>12 DEF BInv

LEMMA BServed ==
  ASSUME WInv, BInv, NEW o \in Ops, found(o) \/ copied(o) \/ added(o)
  PROVE  BInv'
<1>1. /\ op[o] \in OpOf /\ op[o].name \in Names /\ op[o].at \notin Renames
      /\ \A n \in Names, b \in 0..MaxNames : [path |-> n, branch |-> b] \in Record /\ n # 0
      /\ 0 \in 0..MaxNames /\ op[o].branch \in 0..MaxNames
      /\ ends(o) /\ UNCHANGED <<saved, cut, unsaved, head, branches>> /\ dirs \subseteq dirs'
  BY Types, WorkspacesAssumption, SMTT(30) DEF WInv, OpsInv, OpOf, Record, found, copied, added, Named, Renames,
     gitVars, historyVars
<1>2. CASE added(o)
  <2>1. /\ [path |-> op[o].name, branch |-> op[o].branch] \in Record
        /\ setWorkspace(o, [path |-> op[o].name, branch |-> op[o].branch]) /\ op[o].at = "added"
        /\ op[o].name # 0
    BY <1>1, <1>2 DEF added
  <2>. QED BY <1>1, <2>1, BSet
<1>3. CASE setWorkspace(o, [path |-> op[o].name, branch |-> 0])
  <2>1. [path |-> op[o].name, branch |-> 0] \in Record /\ op[o].name # 0
    BY <1>1
  <2>. QED BY <1>1, <1>3, <2>1, BSet
<1>4. CASE UNCHANGED <<known, object, writes>>
  BY <1>1, <1>4, BEnds DEF Renames
<1>. QED BY <1>2, <1>3, <1>4 DEF found, copied

\* The server is told of a new branch.
LEMMA BRenamed ==
  ASSUME WInv, BInv, NEW o \in Ops, renamed(o)
  PROVE  BInv'
<1> DEFINE i == op[o].id
<1>1. /\ op \in [Ops -> OpOf] /\ op[o].at = "renamed" /\ i \in Ids /\ op[o].name \in Names
      /\ object \in [Ids -> Record] /\ known \subseteq Ids /\ 0 \notin Names
      /\ object[i].branch # 0
      /\ object[i].path \in cut \/ head[object[i].path] = op[o].name
  BY Types DEF WInv, OpsInv, renamed, Renames, Named, BInv, RenamesInv
<1>2. /\ known' = known /\ persistWorkspaces(known', object', {})
      /\ object' = [object EXCEPT ![i].branch = op[o].name]
      /\ ends(o) /\ UNCHANGED <<saved, dirs, head, branches, cut>>
  BY DEF renamed, actualBranch, stillKnown, gitVars, historyVars
<1>3. /\ object' \in [Ids -> Record] /\ known' \subseteq Ids
      /\ \A j \in Ids : object'[j].path = object[j].path
      /\ \A j \in Ids : j # i => object'[j] = object[j]
      /\ object'[i].branch = op[o].name
  <2>1. op[o].name \in 0..MaxNames
    BY <1>1, WorkspacesAssumption
  <2>. QED BY <1>1, <1>2, <2>1 DEF Record
<1>4. \A j \in Ids : object'[j].branch # 0 <=> object[j].branch # 0
  BY <1>1, <1>3
<1>5. op'[o].at = "idle" /\ \A q \in Ops : q # o => op'[q] = op[q]
  BY <1>1, <1>2 DEF ends, NoOp
<1>6. FilesInv'
  BY <1>2, <1>3, <1>4, BPersist
<1>7. TreesInv'
  BY <1>2, <1>3, <1>4, SMTT(30) DEF BInv, TreesInv
<1>8. AddedInv'
  BY <1>2, <1>3, <1>4, <1>5 DEF BInv, AddedInv
<1>9. RenamesInv'
  <2>. SUFFICES ASSUME NEW q \in Ops, op'[q].at \in Renames
                PROVE  /\ object'[op'[q].id].branch # 0
                       /\ op'[q].at = "renamed" =>
                            \/ object'[op'[q].id].path \in cut
                            \/ head[object'[op'[q].id].path] = op'[q].name
    BY <1>2 DEF RenamesInv
  <2>1. q # o /\ op'[q] = op[q] /\ op[q].id \in Ids
    BY <1>5 DEF Renames, WInv, OpsInv
  <2>. QED BY <1>3, <1>4, <2>1 DEF BInv, RenamesInv
<1>10. RecordedInv'
  <2>. SUFFICES ASSUME NEW j \in Ids, Live(j)'
                PROVE  \/ object'[j].branch = 0 \/ object'[j].path \in cut
                       \/ head[object'[j].path] = object'[j].branch
                       \/ \E q \in Ops : op'[q].at = "renamed" /\ op'[q].id = j
    BY <1>2 DEF RecordedInv
  <2>1. CASE j = i
    BY <1>1, <1>3, <2>1
  <2>2. CASE j # i
    <3>1. Live(j)
      BY <1>2, <1>5, <2>2 DEF Live, Renames
    <3>. QED BY <1>3, <1>5, <2>2, <3>1 DEF BInv, RecordedInv
  <2>. QED BY <2>1, <2>2
<1>. QED BY <1>6, <1>7, <1>8, <1>9, <1>10 DEF BInv

LEMMA BRemove ==
  ASSUME WInv, BInv, NEW i \in Ids, removeWorkspaceCascade(i)
  PROVE  BInv'
<1>1. /\ i \in known /\ known' = known \ {i}
      /\ UNCHANGED <<object, saved, op, dirs, head, branches, cut>>
      /\ persistWorkspaces(known', object', {i})
  BY DEF removeWorkspaceCascade, gitVars, historyVars
<1>2. known' \subseteq Ids /\ object' \in [Ids -> Record] /\ {i} \in SUBSET Ids
  BY <1>1, Types DEF WInv
<1>3. FilesInv'
  BY <1>1, <1>2, BPersist
<1>4. TreesInv' /\ AddedInv' /\ RenamesInv'
  BY <1>1 DEF BInv, TreesInv, AddedInv, RenamesInv
<1>5. RecordedInv'
  BY <1>1 DEF BInv, RecordedInv, Live
<1>. QED BY <1>3, <1>4, <1>5 DEF BInv

LEMMA BWritten ==
  ASSUME WInv, BInv, written
  PROVE  BInv'
<1>1. writes \in Seq(WriteOf) /\ writes # <<>> /\ Len(writes) \in Nat
  BY Types DEF WInv, written
<1>2. /\ Head(writes) = writes[1] /\ 1 \in 1..Len(writes)
      /\ Tail(writes) \in Seq(WriteOf) /\ Len(Tail(writes)) = Len(writes) - 1
      /\ \A n \in 1..Len(Tail(writes)) : Tail(writes)[n] = writes[n + 1]
  <2>1. Tail(writes) \in Seq(WriteOf) /\ Len(Tail(writes)) = Len(writes) - 1
        /\ \A n \in 1..Len(Tail(writes)) : Tail(writes)[n] = writes[n + 1]
    BY <1>1, HeadTailProperties
  <2>. QED BY <1>1, <2>1
<1>3. /\ saved' = writes[1].file /\ writes' = Tail(writes)
      /\ UNCHANGED <<known, object, op, dirs, head, branches, cut>>
  BY <1>2 DEF written, gitVars
<1>4. FilesInv'
  <2>1. FileOK(saved)' /\ \A n \in 1..Len(writes') : FileOK(writes[n].file)'
    <3>1. \A n \in 1..Len(writes') : n + 1 \in 1..Len(writes) /\ writes'[n] = writes[n + 1]
      BY <1>1, <1>2, <1>3
    <3>. QED BY <1>2, <1>3, <3>1 DEF BInv, FilesInv, FileOK
  <2>2. CASE Len(writes) = 1
    <3>1. writes' = <<>> /\ Current(writes[1].file)
      BY <1>1, <1>2, <1>3, <2>2 DEF BInv, FilesInv
    <3>. QED BY <1>3, <2>1, <3>1 DEF FilesInv, Current
  <2>3. CASE Len(writes) > 1
    <3>1. /\ writes' # <<>> /\ Len(writes') \in 1..Len(writes')
          /\ writes'[Len(writes')] = writes[Len(writes)]
      <4>1. PICK N \in Nat : N = Len(writes) /\ N > 1
        BY <1>1, <2>3
      <4>2. Len(writes') = N - 1
        BY <1>2, <1>3, <4>1
      <4>3. writes' # <<>>
        BY <4>1, <4>2
      <4>4. N - 1 \in 1..(N - 1) /\ (N - 1) + 1 = N
        BY <4>1
      <4>5. writes'[N - 1] = writes[(N - 1) + 1]
        BY <1>2, <1>3, <4>1, <4>2, <4>4
      <4>. QED BY <4>1, <4>2, <4>3, <4>4, <4>5
    <3>2. Current(writes[Len(writes)].file)
      BY <1>1 DEF BInv, FilesInv
    <3>. QED BY <1>3, <2>1, <3>1, <3>2 DEF FilesInv, Current
  <2>. QED BY <1>1, <1>2, <2>2, <2>3
<1>5. TreesInv' /\ AddedInv' /\ RenamesInv'
  BY <1>3 DEF BInv, TreesInv, AddedInv, RenamesInv
<1>6. RecordedInv'
  BY <1>3 DEF BInv, RecordedInv, Live
<1>. QED BY <1>4, <1>5, <1>6 DEF BInv

LEMMA BNotWritten ==
  ASSUME WInv, BInv, notWritten
  PROVE  BInv'
<1>1. writes \in Seq(WriteOf) /\ writes # <<>> /\ Len(writes) \in Nat
  BY Types DEF WInv, notWritten
<1>2. /\ Tail(writes) \in Seq(WriteOf) /\ Len(Tail(writes)) = Len(writes) - 1
      /\ \A n \in 1..Len(Tail(writes)) : Tail(writes)[n] = writes[n + 1]
  BY <1>1, HeadTailProperties
<1>3. /\ writes' = Tail(writes) /\ unsaved'
      /\ UNCHANGED <<known, object, saved, op, dirs, head, branches, cut>>
  BY DEF notWritten, gitVars
<1>4. FilesInv'
  <2>1. FileOK(saved)' /\ \A n \in 1..Len(writes') : FileOK(writes[n].file)'
    <3>1. \A n \in 1..Len(writes') : n + 1 \in 1..Len(writes) /\ writes'[n] = writes[n + 1]
      BY <1>1, <1>2, <1>3
    <3>. QED BY <1>3, <3>1 DEF BInv, FilesInv, FileOK
  <2>2. ASSUME writes' # <<>>
        PROVE  Current(writes[Len(writes)].file)'
    <3>1. PICK N \in Nat : N = Len(writes)
      BY <1>1
    <3>2. writes' \in Seq(WriteOf) /\ Len(writes') = N - 1 /\ Len(writes') # 0
      BY <1>2, <1>3, <2>2, <3>1, HeadTailProperties
    <3>3. N - 1 \in 1..(N - 1) /\ (N - 1) + 1 = N
      BY <3>1, <3>2
    <3>4. writes'[N - 1] = writes[(N - 1) + 1]
      BY <1>2, <1>3, <3>1, <3>3
    <3>5. Current(writes[N].file)
      BY <1>1, <3>1 DEF BInv, FilesInv
    <3>. QED BY <1>3, <3>2, <3>3, <3>4, <3>5 DEF Current
  <2>. QED BY <1>3, <2>1, <2>2 DEF FilesInv
<1>5. TreesInv' /\ AddedInv' /\ RenamesInv'
  BY <1>3 DEF BInv, TreesInv, AddedInv, RenamesInv
<1>6. RecordedInv'
  BY <1>3 DEF BInv, RecordedInv, Live
<1>. QED BY <1>4, <1>5, <1>6 DEF BInv

\* The server starts again: what it has of a worktree is behind git if a renaming was cut
\* off, and is what it had if nothing was going on.
LEMMA BRestart ==
  ASSUME WInv, BInv, WorkspacesRestart
  PROVE  BInv'
<1> DEFINE idle == writes = <<>> /\ ~unsaved /\ \A o \in Ops : op[o].at = "idle"
<1>1. /\ known' = saved.known /\ writes' = <<>> /\ op' = [o \in Ops |-> NoOp]
      /\ object' = [i \in Ids |-> IF i \in saved.known THEN saved.object[i] ELSE object[i]]
      /\ UNCHANGED <<saved, dirs, head, branches>> /\ cut \subseteq cut'
      /\ idle \/ \A i \in saved.known : saved.object[i].branch # 0
                    /\ head[saved.object[i].path] # saved.object[i].branch
                       => saved.object[i].path \in cut'
  BY DEF WorkspacesRestart, gitVars
<1>2. saved \in File /\ saved.known \subseteq Ids /\ object \in [Ids -> Record]
  BY Types DEF WInv, File
<1>3. \A i \in Ids : object'[i] = IF i \in saved.known THEN saved.object[i] ELSE object[i]
  BY <1>1
<1>4. \A i \in Ids : /\ object'[i].path = object[i].path
                     /\ object'[i].branch # 0 <=> object[i].branch # 0
  BY <1>2, <1>3 DEF BInv, FilesInv, FileOK
<1>5. \A o \in Ops : op'[o].at = "idle"
  BY <1>1 DEF NoOp
<1>6. FilesInv'
  <2>1. Len(writes') = 0
    BY <1>1
  <2>2. FileOK(saved)' /\ Current(saved)'
    BY <1>1, <1>2, <1>3 DEF FileOK, Current
  <2>. QED BY <1>1, <2>1, <2>2 DEF FilesInv
<1>7. TreesInv'
  BY <1>1, <1>4 DEF BInv, TreesInv
<1>8. AddedInv' /\ RenamesInv'
  BY <1>5 DEF AddedInv, RenamesInv, Renames
<1>9. RecordedInv'
  <2>. SUFFICES ASSUME NEW i \in Ids, Live(i)', object'[i].branch # 0, object'[i].path \notin cut'
                PROVE  head[object'[i].path] = object'[i].branch
    BY <1>1 DEF RecordedInv
  <2>1. i \in saved.known /\ object'[i] = saved.object[i]
    BY <1>1, <1>3, <1>5 DEF Live, Renames
  <2>2. CASE ~idle
    BY <1>1, <2>1, <2>2
  <2>3. CASE idle
    <3>1. i \in known /\ saved.object[i] = object[i]
      BY <2>1, <2>3 DEF BInv, FilesInv, Current
    <3>2. Live(i) /\ object[i].path \notin cut /\ object[i].branch # 0
      BY <1>1, <2>1, <3>1 DEF Live
    <3>. QED BY <2>1, <2>3, <3>1, <3>2 DEF BInv, RecordedInv
  <2>. QED BY <2>2, <2>3
<1>. QED BY <1>6, <1>7, <1>8, <1>9 DEF BInv

LEMMA WorkspacesStart_BInv ==
  ASSUME WorkspacesInit
  PROVE  BInv
<1> DEFINE nothing == [known |-> {}, object |-> [i \in Ids |-> [path |-> 0, branch |-> 0]]]
           two == [known |-> {1, 2},
                   object |-> [nothing.object EXCEPT ![1] = [path |-> 1, branch |-> 1],
                                                     ![2] = [path |-> 2, branch |-> 0]]]
<1>1. MaxNames \in Nat /\ MaxNames >= 2 /\ 1 \in Ids /\ 2 \in Ids
  BY WorkspacesAssumption
<1>2. nothing.known = {} /\ \A i \in Ids : nothing.object[i].branch = 0
  OBVIOUS
<1>3. /\ two.known = {1, 2} /\ two.object[1] = [path |-> 1, branch |-> 1]
      /\ two.object[2] = [path |-> 2, branch |-> 0]
      /\ \A i \in Ids : i # 1 => two.object[i].branch = 0
  BY <1>1
<1>4. /\ saved \in {nothing, two} /\ known = saved.known /\ object = saved.object
      /\ dirs = {object[i].path : i \in known}
      /\ head = [p \in Names |-> IF known # {} /\ p = 1 THEN 1 ELSE 0]
      /\ branches = {1} \cap known
      /\ writes = <<>> /\ op = [o \in Ops |-> NoOp] /\ removed = {} /\ cut = {}
      /\ unsaved = FALSE
  BY DEF WorkspacesInit
<1> HIDE DEF nothing, two
<1>5. \/ known = {} /\ branches = {} /\ \A i \in Ids : object[i].branch = 0
      \/ /\ known = {1, 2} /\ branches = {1} /\ dirs = {object[1].path, object[2].path}
         /\ object[1] = [path |-> 1, branch |-> 1]
         /\ \A i \in Ids : i # 1 => object[i].branch = 0
  BY <1>2, <1>3, <1>4
<1>6. \A o \in Ops : op[o].at = "idle"
  BY <1>4 DEF NoOp
<1>7. FilesInv
  BY <1>4 DEF FilesInv, FileOK, Current
<1>8. TreesInv
  BY <1>1, <1>4, <1>5 DEF TreesInv
<1>9. AddedInv /\ RenamesInv
  BY <1>6 DEF AddedInv, RenamesInv, Renames
<1>10. RecordedInv
  <2>1. CASE \A i \in Ids : object[i].branch = 0
    BY <2>1 DEF RecordedInv
  <2>2. CASE /\ known = {1, 2} /\ object[1] = [path |-> 1, branch |-> 1]
             /\ \A i \in Ids : i # 1 => object[i].branch = 0
    <3>1. 1 \in Names /\ head[1] = 1
      <4>1. 1 \in Names
        BY <1>1 DEF Names
      <4>. HIDE DEF Names
      <4>. QED BY <1>4, <2>2, <4>1
    <3>. QED BY <2>2, <3>1 DEF RecordedInv
  <2>. QED BY <1>5, <2>1, <2>2
<1>. QED BY <1>7, <1>8, <1>9, <1>10 DEF BInv

\* Every step of the module keeps what is known of branches.
LEMMA BranchesKept ==
  ASSUME WInv, BInv, [WorkspacesNext]_workspaceVars
  PROVE  BInv'
<1>1. CASE WorkspacesStart
  BY <1>1, BStart
<1>2. CASE WorkspacesStep
  BY <1>2, BLooks, BAdds, BRenames, BServed, BRenamed, BWritten DEF WorkspacesStep
<1>3. CASE WorkspacesRestart
  BY <1>3, BRestart
<1>4. CASE notWritten \/ \E i \in Ids : removeWorkspaceCascade(i)
  BY <1>4, BNotWritten, BRemove
<1>5. CASE UNCHANGED workspaceVars
  BY <1>5, NoCallGoesOn DEF workspaceVars, serverVars, gitVars, historyVars
<1>. QED BY <1>1, <1>2, <1>3, <1>4, <1>5 DEF WorkspacesNext

LEMMA BInvRecords ==
  ASSUME WInv, BInv
  PROVE  BranchRecorded
<1>1. known \subseteq Ids
  BY Types DEF WInv
<1>. QED BY <1>1 DEF BInv, RecordedInv, Live, BranchRecorded

--------------------------------------------------------------------------------
\* The pool of clients

USE DEF Clients, NoArgs

Settings == {"settings", "override"}
CallOf ==
  [at : {"idle", "reading", "read", "holding", "waiting"},
   project : Projects \cup {NoProject}, args : Args \cup {NoArgs}, client : 0..MaxClients,
   answers : Approval \cup {NoApproval}, seen : SUBSET Args, changed : SUBSET Settings]
ClientOf == [args : Args \cup {NoArgs}, runs : BOOLEAN, starts : 0..MaxStarts]

PoolNext(served) ==
  PoolStart(served) \/ PoolStep \/ PoolClose \/ PoolRestart

\* A client that runs was started, and the pool keeps a client under its arguments.
PoolKept ==
  /\ \A k \in Clients : client[k].runs => client[k].starts >= 1
  /\ \A a \in Args : pool[a] # 0 => client[pool[a]].args = a
  /\ \A r \in asking : r.start <= client[r.client].starts

\* The process that asked is there, is that of a client the server has, and has the
\* arguments of the workspace.
Reached(r) ==
  /\ client[r.client].runs /\ client[r.client].starts = r.start
  /\ client[r.client].args = inForce(codexArgs, runtimeArgs, r.project)
  /\ r.client \notin stray

\* What is known of a call.
Sound(x) ==
  /\ x.at = "idle" => x = NoCall
  /\ x.at # "idle" => /\ x.project \in Projects
                      /\ inForce(codexArgs, runtimeArgs, x.project) \in x.seen
                      /\ x.answers # NoApproval => x.answers.project = x.project
  /\ x.at \in {"reading", "read"} => x.client = 0
  /\ x.at = "read" => /\ x.args \in Args
                      /\ x.args = codexArgs \/ "settings" \in x.changed
                      /\ \/ inForce(x.args, runtimeArgs, x.project) \in x.seen
                         \/ x.changed = Settings
  /\ x.at \in {"holding", "waiting"} => x.client \in Clients
  /\ x.at = "waiting" => x.answers = NoApproval
  /\ x.client # 0 => /\ client[x.client].args \in Args
                     /\ client[x.client].args \in x.seen \/ x.changed = Settings
  /\ x.answers # NoApproval => x.answers.start <= client[x.answers.client].starts
  /\ x.at = "holding" /\ x.answers # NoApproval /\ x.changed = {}
       /\ x.client # x.answers.client => ~Reached(x.answers)

CallsSound == \A c \in Calls : Sound(call[c])

PInv ==
  PoolTypeOK /\ ProcessesKnown /\ PoolKept /\ CallsSound /\ AnswerReachesAsker

\* The types of what a step reads.
LEMMA PoolTypes ==
  ASSUME PoolTypeOK
  PROVE  /\ codexArgs \in Args /\ runtimeArgs \in [Projects -> Args \cup {NoArgs}]
         /\ pool \in [Args -> 0..MaxClients] /\ users \in [Args -> SUBSET Projects]
         /\ client \in [Clients -> ClientOf] /\ \A k \in Clients : client[k] \in ClientOf
         /\ call \in [Calls -> CallOf] /\ \A c \in Calls : call[c] \in CallOf
         /\ connected \subseteq Projects /\ asking \subseteq Approval
         /\ appClosed \in BOOLEAN /\ stray \subseteq Clients /\ wrongAnswers \subseteq Approval
         /\ NoArgs \notin Args /\ 0 \notin Clients /\ MaxClients \in Nat /\ MaxStarts \in Nat
BY ClientPoolAssumption DEF PoolTypeOK, CallOf, ClientOf, Settings

LEMMA ApprovalType ==
  ASSUME NEW r \in Approval
  PROVE  /\ r # NoApproval /\ r.client \in Clients /\ r.start \in 1..MaxStarts
         /\ r.project \in Projects
BY ClientPoolAssumption DEF Approval, NoApproval

LEMMA InForceType ==
  ASSUME NEW s \in Args, NEW o \in [Projects -> Args \cup {NoArgs}], NEW p \in Projects
  PROVE  inForce(s, o, p) \in Args
BY DEF inForce

LEMMA NoCallSound == NoCall \in CallOf /\ Sound(NoCall)
BY ClientPoolAssumption DEF NoCall, CallOf, Sound, NoProject, NoApproval

-------------------------------------------------------------------------------
\* What a step may do to the clients while calls use them.
ClientsGrow ==
  /\ client' \in [Clients -> ClientOf] /\ stray \subseteq stray'
  /\ \A k \in Clients :
       /\ client[k].args \in Args => client'[k].args = client[k].args
       /\ client[k].starts <= client'[k].starts
       /\ client'[k].runs => \/ client'[k].starts > client[k].starts
                             \/ client[k].runs /\ client'[k].starts = client[k].starts

LEMMA SoundKept ==
  ASSUME PInv, ClientsGrow, UNCHANGED settingsVars, NEW x \in CallOf, Sound(x)
  PROVE  Sound(x)'
<1>1. UNCHANGED <<codexArgs, runtimeArgs>>
  BY DEF settingsVars
<1>2. /\ \A k \in Clients : client[k] \in ClientOf /\ client'[k] \in ClientOf
      /\ NoArgs \notin Args /\ 0 \notin Clients
      /\ x.client \in Clients \cup {0}
  BY PoolTypes DEF PInv, ClientsGrow, CallOf
<1>3. x.client # 0 => client'[x.client].args = client[x.client].args
  BY <1>2 DEF Sound, ClientsGrow
<1>4. x.answers # NoApproval => x.answers \in Approval
  BY DEF CallOf
<1>5. ASSUME x.answers # NoApproval
      PROVE  x.answers.start <= client'[x.answers.client].starts
  <2>1. x.answers.client \in Clients /\ x.answers.start \in 1..MaxStarts
    BY <1>4, <1>5, ApprovalType
  <2>2. x.answers.start <= client[x.answers.client].starts
    BY <1>5 DEF Sound
  <2>. QED BY <1>2, <2>1, <2>2 DEF ClientsGrow, ClientOf
<1>6. ASSUME x.at = "holding", x.answers # NoApproval, x.changed = {},
             x.client # x.answers.client, Reached(x.answers)'
      PROVE  FALSE
  <2>1. x.answers.client \in Clients /\ x.answers.start \in 1..MaxStarts
    BY <1>4, <1>6, ApprovalType
  <2>2. x.answers.start <= client[x.answers.client].starts /\ ~Reached(x.answers)
    BY <1>6 DEF Sound
  <2>3. /\ client'[x.answers.client].runs /\ client'[x.answers.client].starts = x.answers.start
        /\ client'[x.answers.client].args = inForce(codexArgs, runtimeArgs, x.answers.project)
        /\ x.answers.client \notin stray
    BY <1>1, <1>6 DEF Reached, inForce, ClientsGrow
  <2>4. /\ client[x.answers.client].runs
        /\ client[x.answers.client].starts = x.answers.start
    BY <1>2, <2>1, <2>2, <2>3 DEF ClientsGrow, ClientOf
  <2>5. client[x.answers.client].args \in Args
    BY <1>2, <2>1, <2>3, <2>4 DEF PInv, ProcessesKnown, kept, inPool, ClientOf
  <2>6. Reached(x.answers)
    BY <2>1, <2>3, <2>4, <2>5 DEF Reached, ClientsGrow
  <2>. QED BY <2>2, <2>6
<1>. QED BY <1>1, <1>2, <1>3, <1>5, <1>6 DEF Sound, inForce

LEMMA OthersSound ==
  ASSUME PInv, ClientsGrow, UNCHANGED settingsVars, NEW d \in Calls, call'[d] = call[d]
  PROVE  Sound(call[d])'
<1>1. PICK x \in CallOf : x = call[d]
  BY PoolTypes DEF PInv
<1>2. Sound(x)
  BY <1>1 DEF PInv, CallsSound
<1>3. Sound(x)'
  BY <1>2, SoundKept
<1>4. x = call'[d]
  BY <1>1
<1>. QED BY <1>3, <1>4 DEF Sound, Reached, inForce

\* One call goes on, or ends.
LEMMA CallStep ==
  ASSUME PInv, ClientsGrow, UNCHANGED settingsVars, NEW c \in Calls, NEW next \in CallOf,
         call' = [call EXCEPT ![c] = next], Sound(next)'
  PROVE  call' \in [Calls -> CallOf] /\ CallsSound'
<1>1. call \in [Calls -> CallOf]
  BY PoolTypes DEF PInv
<1>2. ASSUME NEW d \in Calls
      PROVE  Sound(call[d])'
  <2>1. CASE d = c
    <3>1. call'[d] = next
      BY <1>1, <2>1
    <3>. QED BY <3>1 DEF Sound, Reached, inForce
  <2>2. CASE d # c
    <3>1. call'[d] = call[d]
      BY <1>1, <2>2
    <3>. QED BY <3>1, OthersSound
  <2>. QED BY <2>1, <2>2
<1>. QED BY <1>1, <1>2 DEF CallsSound

\* No call goes on.
LEMMA NoCallStep ==
  ASSUME PInv, ClientsGrow, UNCHANGED <<settingsVars, call>>
  PROVE  call' \in [Calls -> CallOf] /\ CallsSound'
<1>1. call' \in [Calls -> CallOf]
  BY PoolTypes DEF PInv
<1>2. ASSUME NEW d \in Calls
      PROVE  Sound(call[d])'
  BY OthersSound
<1>. QED BY <1>1, <1>2 DEF CallsSound

\* The clients stay as they are.
LEMMA SameClients ==
  ASSUME PInv, UNCHANGED <<client, stray>>
  PROVE  ClientsGrow
<1>1. client \in [Clients -> ClientOf]
  BY PoolTypes DEF PInv
<1>2. \A k \in Clients : client[k].starts \in Nat
  BY <1>1, ClientPoolAssumption DEF ClientOf
<1>. QED BY <1>1, <1>2 DEF ClientsGrow

\* The type invariant and what is known of the pool, in the words of the lemmas.
LEMMA PoolTypesKept ==
  ASSUME PInv, client' \in [Clients -> ClientOf], call' \in [Calls -> CallOf],
         codexArgs' \in Args, runtimeArgs' \in [Projects -> Args \cup {NoArgs}],
         pool' \in [Args -> 0..MaxClients], users' \in [Args -> SUBSET Projects],
         connected' \subseteq Projects, asking' \subseteq Approval, appClosed' \in BOOLEAN,
         stray' \subseteq Clients, UNCHANGED wrongAnswers
  PROVE  PoolTypeOK' /\ AnswerReachesAsker'
BY DEF PInv, PoolTypeOK, AnswerReachesAsker, ClientOf, CallOf, Settings

-------------------------------------------------------------------------------
\* A call begins; a user's answer is to an approval a process asked for.
LEMMA BeginsSound ==
  ASSUME PInv, NEW c \in Calls, NEW p \in Projects, NEW r \in Approval \cup {NoApproval},
         r # NoApproval => r \in asking /\ r.project = p,
         begins(c, p, r), UNCHANGED <<settingsVars, client, stray>>
  PROVE  call' \in [Calls -> CallOf] /\ CallsSound'
<1> DEFINE next == [NoCall EXCEPT !.at = "reading", !.project = p, !.answers = r,
                                  !.seen = {inForce(codexArgs, runtimeArgs, p)}]
<1>1. inForce(codexArgs, runtimeArgs, p) \in Args
  BY PoolTypes, InForceType DEF PInv
<1>2. /\ next \in CallOf /\ next.at = "reading" /\ next.project = p /\ next.answers = r
      /\ next.seen = {inForce(codexArgs, runtimeArgs, p)} /\ next.client = 0
      /\ next.changed = {}
  BY <1>1, NoCallSound, ClientPoolAssumption DEF NoCall, CallOf
<1>3. call' = [call EXCEPT ![c] = next]
  BY DEF begins
<1> HIDE DEF next
<1>4. PICK x \in CallOf : x = next
  BY <1>2
<1>5. UNCHANGED <<codexArgs, runtimeArgs, client, stray>>
  BY DEF settingsVars
<1>6. r # NoApproval => r.start <= client[r.client].starts
  BY DEF PInv, PoolKept
<1>7. Sound(x)'
  BY <1>2, <1>4, <1>5, <1>6 DEF Sound, inForce
<1>8. ClientsGrow
  BY SameClients
<1>. QED BY <1>3, <1>4, <1>7, <1>8, CallStep

\* A step that leaves the clients and the settings alone, and asks for nothing.
LEMMA SameClientsKept ==
  ASSUME PInv, UNCHANGED <<settingsVars, clientVars, appClosed, stray, wrongAnswers>>,
         asking' \subseteq asking, connected' \subseteq Projects,
         call' \in [Calls -> CallOf], CallsSound'
  PROVE  PInv'
<1>1. UNCHANGED <<codexArgs, runtimeArgs, pool, users, client, appClosed, stray, wrongAnswers>>
  BY DEF settingsVars, clientVars
<1>2. PoolTypeOK' /\ AnswerReachesAsker'
  BY <1>1, PoolTypes, PoolTypesKept DEF PInv
<1>3. ProcessesKnown' /\ PoolKept'
  BY <1>1 DEF PInv, ProcessesKnown, kept, inPool, PoolKept
<1>. QED BY <1>2, <1>3 DEF PInv

LEMMA StartSteps ==
  ASSUME PInv, NEW c \in Calls,
         \/ \E p \in Projects : startCall(c, p)
         \/ \E r \in asking : r.project \in Projects /\ respond(c, r)
  PROVE  PInv'
<1>1. CASE \E p \in Projects : startCall(c, p)
  <2>1. PICK p \in Projects : startCall(c, p)
    BY <1>1
  <2>2. UNCHANGED <<settingsVars, clientVars, connected, asking, appClosed, stray, wrongAnswers, client>>
    BY <2>1 DEF startCall, clientVars
  <2>3. call' \in [Calls -> CallOf] /\ CallsSound'
    BY <2>1, <2>2, BeginsSound DEF startCall
  <2>. QED BY <2>2, <2>3, SameClientsKept, PoolTypes DEF PInv
<1>2. CASE \E r \in asking : r.project \in Projects /\ respond(c, r)
  <2>1. PICK r \in asking : r.project \in Projects /\ respond(c, r)
    BY <1>2
  <2>2. /\ UNCHANGED <<settingsVars, clientVars, connected, appClosed, stray, wrongAnswers, client>>
        /\ asking' \subseteq asking /\ r \in Approval
    BY <2>1, PoolTypes DEF respond, clientVars, PInv
  <2>3. call' \in [Calls -> CallOf] /\ CallsSound'
    BY <2>1, <2>2, BeginsSound DEF respond
  <2>. QED BY <2>2, <2>3, SameClientsKept, PoolTypes DEF PInv
<1>. QED BY <1>1, <1>2

LEMMA ReadStep ==
  ASSUME PInv, NEW c \in Calls, settingsRead(c)
  PROVE  PInv'
<1> DEFINE next == [call[c] EXCEPT !.at = "read", !.args = codexArgs]
<1>1. UNCHANGED <<settingsVars, clientVars, connected, asking, appClosed, stray, wrongAnswers,
                  codexArgs, runtimeArgs, client>>
  BY DEF settingsRead, settingsVars, clientVars
<1>2. call \in [Calls -> CallOf] /\ call[c] \in CallOf /\ call[c].at = "reading" /\ codexArgs \in Args
  BY PoolTypes DEF PInv, settingsRead
<1>3. /\ next \in CallOf /\ next.at = "read" /\ next.args = codexArgs
      /\ next.project = call[c].project /\ next.answers = call[c].answers
      /\ next.client = call[c].client /\ next.seen = call[c].seen /\ next.changed = call[c].changed
      /\ call' = [call EXCEPT ![c] = next]
  BY <1>2 DEF CallOf, settingsRead
<1> HIDE DEF next
<1>4. PICK x \in CallOf : x = next
  BY <1>3
<1>5. Sound(call[c])
  BY DEF PInv, CallsSound
<1>6. Sound(x)'
  BY <1>1, <1>2, <1>3, <1>4, <1>5 DEF Sound, inForce
<1>7. call' \in [Calls -> CallOf] /\ CallsSound'
  BY <1>1, <1>3, <1>4, <1>6, SameClients, CallStep
<1>. QED BY <1>1, <1>7, SameClientsKept, PoolTypes DEF PInv

LEMMA AnsweredStep ==
  ASSUME PInv, NEW c \in Calls, answered(c)
  PROVE  PInv'
<1>1. UNCHANGED <<settingsVars, clientVars, connected, asking, appClosed, stray, wrongAnswers,
                  codexArgs, runtimeArgs, client>>
  BY DEF answered, settingsVars, clientVars
<1>2. call \in [Calls -> CallOf] /\ call[c] \in CallOf /\ call[c].at = "waiting"
      /\ Sound(call[c])
  BY PoolTypes DEF PInv, answered, CallsSound
<1>3. CASE call' = [call EXCEPT ![c].at = "holding"]
  <2> DEFINE next == [call[c] EXCEPT !.at = "holding"]
  <2>1. /\ next \in CallOf /\ next.at = "holding"
        /\ next.project = call[c].project /\ next.answers = call[c].answers
        /\ next.client = call[c].client /\ next.seen = call[c].seen /\ next.changed = call[c].changed
        /\ call' = [call EXCEPT ![c] = next]
    BY <1>2, <1>3 DEF CallOf
  <2> HIDE DEF next
  <2>2. PICK x \in CallOf : x = next
    BY <2>1
  <2>3. Sound(x)'
    BY <1>1, <1>2, <2>1, <2>2 DEF Sound, inForce
  <2>4. call' \in [Calls -> CallOf] /\ CallsSound'
    BY <1>1, <2>1, <2>2, <2>3, SameClients, CallStep
  <2>. QED BY <1>1, <2>4, SameClientsKept, PoolTypes DEF PInv
<1>4. CASE call' = [call EXCEPT ![c] = NoCall]
  <2>1. PICK x \in CallOf : x = NoCall
    BY NoCallSound
  <2>2. Sound(x)'
    BY <1>1, <2>1, NoCallSound, SoundKept, SameClients
  <2>3. call' \in [Calls -> CallOf] /\ CallsSound'
    BY <1>1, <1>4, <2>1, <2>2, SameClients, CallStep
  <2>. QED BY <1>1, <2>3, SameClientsKept, PoolTypes DEF PInv
<1>. QED BY <1>3, <1>4 DEF answered

-------------------------------------------------------------------------------
\* A call takes the client of its workspace, or makes one.  If the process that asked
\* is that of a client the pool has, under the arguments of the workspace, it is that
\* client which is taken.
LEMMA BuildStep ==
  ASSUME PInv, NEW c \in Calls, buildAppServerClient(c)
  PROVE  PInv'
<1>1. PICK key : key = appServerClientKey(c)
  OBVIOUS
<1>2. /\ call \in [Calls -> CallOf] /\ call[c] \in CallOf /\ call[c].at = "read"
      /\ Sound(call[c]) /\ call[c].project \in Projects /\ call[c].args \in Args
      /\ client \in [Clients -> ClientOf] /\ pool \in [Args -> 0..MaxClients]
      /\ users \in [Args -> SUBSET Projects] /\ NoArgs \notin Args
      /\ runtimeArgs \in [Projects -> Args \cup {NoArgs}]
      /\ \A k \in Clients : client[k] \in ClientOf
  BY PoolTypes DEF PInv, CallsSound, Sound, buildAppServerClient
<1>3. key \in Args /\ key = inForce(call[c].args, runtimeArgs, call[c].project)
  BY <1>1, <1>2, InForceType DEF appServerClientKey, resolveRuntimeCodexArgs
<1>4. UNCHANGED <<settingsVars, connected, asking, appClosed, stray, wrongAnswers,
                  codexArgs, runtimeArgs>>
  BY DEF buildAppServerClient, settingsVars
<1>5. PICK k \in Clients :
        /\ \/ /\ pool[key] = k /\ UNCHANGED <<pool, client>>
              /\ users' = [users EXCEPT ![key] = @ \cup {call[c].project}]
           \/ /\ pool[key] = 0 /\ client[k].args = NoArgs
              /\ pool' = [pool EXCEPT ![key] = k]
              /\ users' = [users EXCEPT ![key] = {call[c].project}]
              /\ client' = [client EXCEPT ![k].args = key]
        /\ call' = [call EXCEPT ![c].at = "holding", ![c].client = k]
  <2>1. CASE pool[key] # 0
    <3>1. pool[key] \in Clients
      BY <1>2, <1>3, <2>1
    <3>. QED BY <1>1, <2>1, <3>1 DEF buildAppServerClient, existing
  <2>2. CASE pool[key] = 0
    <3>1. PICK k \in Clients :
              /\ client[k].args = NoArgs
              /\ pool' = [pool EXCEPT ![key] = k]
              /\ users' = [users EXCEPT ![key] = {call[c].project}]
              /\ client' = [client EXCEPT ![k].args = key]
      BY <1>1, <2>2 DEF buildAppServerClient, existing
    <3>2. pool'[key] = k
      BY <1>2, <1>3, <3>1
    <3>. QED BY <1>1, <2>2, <3>1, <3>2 DEF buildAppServerClient
  <2>. QED BY <2>1, <2>2
<1>6. /\ pool' \in [Args -> 0..MaxClients] /\ pool'[key] = k
      /\ \A a \in Args : a # key => pool'[a] = pool[a]
      /\ users' \in [Args -> SUBSET Projects]
  BY <1>2, <1>3, <1>5, SMTT(30)
<1>7. /\ client' \in [Clients -> ClientOf] /\ client'[k].args = key
      /\ \A j \in Clients : /\ client'[j].runs = client[j].runs /\ client'[j].starts = client[j].starts
                            /\ client[j].args # NoArgs => client'[j].args = client[j].args
                            /\ j # k => client'[j] = client[j]
  <2>1. CASE pool[key] = k /\ UNCHANGED <<pool, client>>
    <3>1. client[k].args = key
      BY <1>3, <2>1, <1>2 DEF PInv, PoolKept
    <3>. QED BY <1>2, <2>1, <3>1
  <2>2. CASE client[k].args = NoArgs /\ client' = [client EXCEPT ![k].args = key]
    BY <1>2, <1>3, <2>2 DEF ClientOf
  <2>. QED BY <1>5, <2>1, <2>2
<1>8. ClientsGrow
  <2>1. \A j \in Clients : client[j].starts \in Nat
    BY <1>2, ClientPoolAssumption DEF ClientOf
  <2>. QED BY <1>2, <1>4, <1>7, <2>1 DEF ClientsGrow
<1>9. PoolKept'
  <2>1. \A a \in Args : pool'[a] # 0 => client'[pool'[a]].args = a
    <3>1. \A a \in Args : pool[a] # 0 => pool[a] \in Clients /\ client[pool[a]].args = a
      BY <1>2 DEF PInv, PoolKept
    <3>2. ASSUME NEW a \in Args, a # key, pool[a] # 0
          PROVE  client'[pool[a]].args = a
      BY <1>2, <1>7, <3>1, <3>2
    <3>. QED BY <1>6, <1>7, <3>2
  <2>2. (\A j \in Clients : client[j].runs => client[j].starts >= 1)'
    BY <1>7 DEF PInv, PoolKept
  <2>3. (\A r \in asking : r.start <= client[r.client].starts)'
    <3>1. asking \subseteq Approval
      BY PoolTypes DEF PInv
    <3>. QED BY <1>4, <1>7, <3>1, ApprovalType DEF PInv, PoolKept
  <2>. QED BY <2>1, <2>2, <2>3 DEF PoolKept
<1>10. ProcessesKnown'
  <2>. SUFFICES ASSUME NEW j \in Clients, client'[j].runs, j \notin stray
                PROVE  kept(j)'
    BY <1>4 DEF ProcessesKnown
  <2>1. kept(j)
    BY <1>7 DEF PInv, ProcessesKnown
  <2>2. client[j].args \in Args /\ pool[client[j].args] = j /\ ~appClosed
    BY <1>2, <2>1 DEF kept, inPool, ClientOf
  <2>3. client'[j].args = client[j].args /\ pool'[client[j].args] = j
    BY <1>2, <1>5, <1>6, <1>7, <2>2
  <2>. QED BY <1>2, <1>4, <2>2, <2>3 DEF kept, inPool
<1>11. call' \in [Calls -> CallOf] /\ CallsSound'
  <2> DEFINE next == [call[c] EXCEPT !.at = "holding", !.client = k]
  <2>1. /\ next \in CallOf /\ next.at = "holding" /\ next.client = k /\ next.args = call[c].args
        /\ next.project = call[c].project /\ next.answers = call[c].answers
        /\ next.seen = call[c].seen /\ next.changed = call[c].changed
        /\ call' = [call EXCEPT ![c] = next]
    <3>1. k \in 0..MaxClients
      BY ClientPoolAssumption
    <3>. QED BY <1>2, <1>5, <3>1 DEF CallOf
  <2> HIDE DEF next
  <2>2. PICK x \in CallOf : x = next
    BY <2>1
  <2>3. /\ x.project \in Projects /\ inForce(codexArgs, runtimeArgs, x.project) \in x.seen
        /\ x.changed \in SUBSET Settings /\ x.answers \in Approval \cup {NoApproval}
        /\ key \in x.seen \/ x.changed = Settings
    BY <1>2, <1>3, <2>1, <2>2 DEF Sound, CallOf
  <2>4. ASSUME x.answers # NoApproval
        PROVE  /\ x.answers \in Approval /\ x.answers.client \in Clients
               /\ x.answers.project = x.project
               /\ x.answers.start <= client'[x.answers.client].starts
    <3>0. x.answers \in Approval
      BY <2>3, <2>4
    <3>1. x.answers.client \in Clients
      BY <3>0, ApprovalType
    <3>2. x.answers.project = x.project /\ x.answers.start <= client[x.answers.client].starts
      BY <1>2, <2>1, <2>2, <2>4 DEF Sound
    <3>. QED BY <1>7, <3>0, <3>1, <3>2
  <2>5. ASSUME x.answers # NoApproval, x.changed = {}, k # x.answers.client,
               Reached(x.answers)'
        PROVE  FALSE
    <3>1. key = inForce(codexArgs, runtimeArgs, x.project)
      BY <1>2, <1>3, <2>1, <2>2, <2>5 DEF Sound
    <3>2. /\ client[x.answers.client].runs /\ x.answers.client \notin stray
          /\ client[x.answers.client].args = key
      <4>. DEFINE a == x.answers
      <4>1. /\ client'[a.client].runs /\ client'[a.client].args = inForce(codexArgs, runtimeArgs, a.project)
            /\ a.client \notin stray
        BY <1>4, <2>5 DEF Reached, inForce
      <4>2. a.client \in Clients /\ a.client # k /\ a.project = x.project
        BY <2>4, <2>5
      <4>3. client'[a.client] = client[a.client]
        BY <1>7, <4>2
      <4>. QED BY <3>1, <4>1, <4>2, <4>3
    <3>3. pool[key] = x.answers.client
      BY <2>4, <2>5, <3>2 DEF PInv, ProcessesKnown, kept, inPool
    <3>. QED BY <1>2, <1>5, <2>4, <2>5, <3>3
  <2>6. Sound(x)'
    BY <1>2, <1>3, <1>4, <1>7, <2>1, <2>2, <2>3, <2>4, <2>5 DEF Sound, inForce
  <2>. QED BY <1>4, <1>8, <2>1, <2>2, <2>6, CallStep
<1>12. PoolTypeOK' /\ AnswerReachesAsker'
  BY <1>4, <1>6, <1>7, <1>11, PoolTypes, PoolTypesKept DEF PInv
<1>. QED BY <1>9, <1>10, <1>11, <1>12 DEF PInv

\* A client starts a process if it has none; it is a stray one if the client is not kept.
LEMMA StartedKept ==
  ASSUME PInv, NEW k \in Clients, client[k].args \in Args, ensureStarted(k),
         UNCHANGED <<pool, appClosed, asking>>
  PROVE  ClientsGrow /\ ProcessesKnown' /\ PoolKept' /\ stray' \subseteq Clients
<1>1. /\ client \in [Clients -> ClientOf] /\ \A j \in Clients : client[j] \in ClientOf
      /\ stray \subseteq Clients /\ asking \subseteq Approval
      /\ \A j \in Clients : client[j].starts \in Nat
  BY PoolTypes, ClientPoolAssumption DEF PInv, ClientOf
<1>2. CASE client[k].runs
  <2>1. UNCHANGED <<client, stray>>
    BY <1>2 DEF ensureStarted
  <2>2. ClientsGrow
    BY <2>1, SameClients
  <2>. QED BY <1>1, <2>1, <2>2 DEF PInv, ProcessesKnown, kept, inPool, PoolKept
<1>3. CASE ~client[k].runs
  <2>1. /\ client[k].starts < MaxStarts
        /\ client' = [client EXCEPT ![k].runs = TRUE, ![k].starts = @ + 1]
        /\ stray' = IF kept(k) THEN stray ELSE stray \cup {k}
    BY <1>3 DEF ensureStarted
  <2>2. client[k].starts + 1 \in 0..MaxStarts
    BY <1>1, <2>1, ClientPoolAssumption DEF ClientOf
  <2>3. /\ client' \in [Clients -> ClientOf]
        /\ client'[k].runs /\ client'[k].starts = client[k].starts + 1
        /\ \A j \in Clients : client'[j].args = client[j].args
        /\ \A j \in Clients : j # k => client'[j] = client[j]
    BY <1>1, <2>1, <2>2 DEF ClientOf
  <2>4. ClientsGrow
    BY <1>1, <2>1, <2>3 DEF ClientsGrow
  <2>5. \A j \in Clients : kept(j)' = kept(j)
    BY <2>3 DEF kept, inPool
  <2>6. ProcessesKnown'
    BY <1>1, <2>1, <2>3, <2>5 DEF PInv, ProcessesKnown
  <2>7. PoolKept'
    <3>1. (\A j \in Clients : client[j].runs => client[j].starts >= 1)'
      BY <1>1, <2>3 DEF PInv, PoolKept
    <3>2. \A a \in Args : pool'[a] # 0 => client'[pool'[a]].args = a
      <4>1. \A a \in Args : pool[a] # 0 => pool[a] \in Clients
        BY PoolTypes DEF PInv
      <4>. QED BY <2>3, <4>1 DEF PInv, PoolKept
    <3>3. ASSUME NEW r \in asking
          PROVE  r.start <= client'[r.client].starts
      <4>1. r.client \in Clients /\ r.start \in 1..MaxStarts
        BY <1>1, ApprovalType
      <4>2. r.start <= client[r.client].starts
        BY DEF PInv, PoolKept
      <4>. QED BY <1>1, <2>3, <4>1, <4>2
    <3>. QED BY <3>1, <3>2, <3>3 DEF PoolKept
  <2>. QED BY <1>1, <2>1, <2>4, <2>6, <2>7
<1>. QED BY <1>2, <1>3

LEMMA RequestStep ==
  ASSUME PInv, NEW c \in Calls, request(c)
  PROVE  PInv'
<1>1. PICK k : k = call[c].client
  OBVIOUS
<1>2. /\ call \in [Calls -> CallOf] /\ call[c] \in CallOf /\ call[c].at = "holding"
      /\ Sound(call[c]) /\ k \in Clients /\ client[k].args \in Args /\ 0 \notin Clients
  BY <1>1, PoolTypes DEF PInv, CallsSound, request, Sound
<1>3. /\ UNCHANGED <<settingsVars, pool, users, connected, asking, appClosed,
                     codexArgs, runtimeArgs>>
      /\ ensureStarted(k)
  BY <1>1 DEF request, settingsVars
<1>4. ClientsGrow /\ ProcessesKnown' /\ PoolKept' /\ stray' \subseteq Clients
  BY <1>2, <1>3, StartedKept
<1>5. CASE call[c].answers = NoApproval
  <2> DEFINE next == [call[c] EXCEPT !.at = "waiting"]
  <2>1. /\ next \in CallOf /\ next.at = "waiting"
        /\ next.project = call[c].project /\ next.answers = NoApproval
        /\ next.client = call[c].client /\ next.seen = call[c].seen /\ next.changed = call[c].changed
        /\ call' = [call EXCEPT ![c] = next] /\ UNCHANGED wrongAnswers
    BY <1>2, <1>5 DEF CallOf, request
  <2> HIDE DEF next
  <2>2. PICK x \in CallOf : x = next
    BY <2>1
  <2>3. Sound(x)
    BY <1>2, <2>1, <2>2 DEF Sound
  <2>4. Sound(x)'
    BY <1>3, <1>4, <2>3, SoundKept
  <2>5. call' \in [Calls -> CallOf] /\ CallsSound'
    BY <1>3, <1>4, <2>1, <2>2, <2>4, CallStep
  <2>6. PoolTypeOK' /\ AnswerReachesAsker'
    BY <1>3, <1>4, <2>1, <2>5, PoolTypes, PoolTypesKept DEF PInv, ClientsGrow
  <2>. QED BY <1>4, <2>5, <2>6 DEF PInv
<1>6. CASE call[c].answers # NoApproval
  <2>1. ~misses(c)
    <3>1. call[c].answers \in Approval
      BY <1>2, <1>6 DEF CallOf
    <3>. QED BY <1>1, <1>2, <1>6 DEF misses, Sound, Reached
  <2>2. call' = [call EXCEPT ![c] = NoCall] /\ UNCHANGED wrongAnswers
    BY <1>6, <2>1 DEF request
  <2>3. PICK x \in CallOf : x = NoCall
    BY NoCallSound
  <2>4. Sound(x)'
    BY <1>3, <1>4, <2>3, NoCallSound, SoundKept
  <2>5. call' \in [Calls -> CallOf] /\ CallsSound'
    BY <1>3, <1>4, <2>2, <2>3, <2>4, CallStep
  <2>6. PoolTypeOK' /\ AnswerReachesAsker'
    BY <1>3, <1>4, <2>2, <2>5, PoolTypes, PoolTypesKept DEF PInv, ClientsGrow
  <2>. QED BY <1>4, <2>5, <2>6 DEF PInv
<1>. QED BY <1>5, <1>6

-------------------------------------------------------------------------------
\* Clients lose their processes: by themselves, or because the server closes them.
LEMMA ProcessesEnd ==
  ASSUME PInv, NEW over \in SUBSET Clients,
         client' = [k \in Clients |-> IF k \in over THEN [client[k] EXCEPT !.runs = FALSE]
                                      ELSE client[k]],
         UNCHANGED stray
  PROVE  /\ ClientsGrow
         /\ \A k \in Clients : client'[k].args = client[k].args /\ client'[k].starts = client[k].starts
         /\ \A k \in Clients : client'[k].runs <=> client[k].runs /\ k \notin over
<1>1. \A j \in Clients : client[j] \in ClientOf /\ client[j].starts \in Nat
  BY PoolTypes, ClientPoolAssumption DEF PInv, ClientOf
<1>2. \A k \in Clients :
        /\ client'[k] \in ClientOf
        /\ client'[k].args = client[k].args /\ client'[k].starts = client[k].starts
        /\ client'[k].runs <=> client[k].runs /\ k \notin over
  BY <1>1 DEF ClientOf
<1>3. client' \in [Clients -> ClientOf]
  BY <1>2
<1>. QED BY <1>1, <1>2, <1>3 DEF ClientsGrow

LEMMA ExitStep ==
  ASSUME PInv, NEW k \in Clients, processExits(k)
  PROVE  PInv'
<1>1. /\ client' = [client EXCEPT ![k].runs = FALSE]
      /\ UNCHANGED <<settingsVars, pool, users, connected, call, asking, appClosed, stray, wrongAnswers,
                     codexArgs, runtimeArgs>>
  BY DEF processExits, settingsVars
<1>2. client' = [j \in Clients |-> IF j \in {k} THEN [client[j] EXCEPT !.runs = FALSE]
                                   ELSE client[j]]
  BY <1>1, PoolTypes DEF PInv
<1>3. /\ ClientsGrow
      /\ \A j \in Clients : client'[j].args = client[j].args /\ client'[j].starts = client[j].starts
      /\ \A j \in Clients : client'[j].runs <=> client[j].runs /\ j \notin {k}
  BY <1>1, <1>2, ProcessesEnd
<1>4. call' \in [Calls -> CallOf] /\ CallsSound'
  BY <1>1, <1>3, NoCallStep
<1>5. PoolTypeOK' /\ AnswerReachesAsker'
  BY <1>1, <1>3, <1>4, PoolTypes, PoolTypesKept DEF PInv, ClientsGrow
<1>6. ProcessesKnown'
  BY <1>1, <1>3 DEF PInv, ProcessesKnown, kept, inPool
<1>7. PoolKept'
  <2>1. /\ \A a \in Args : pool[a] # 0 => pool[a] \in Clients
        /\ \A r \in asking : r.client \in Clients
    BY PoolTypes, ApprovalType DEF PInv
  <2>. QED BY <1>1, <1>3, <2>1 DEF PInv, PoolKept
<1>. QED BY <1>4, <1>5, <1>6, <1>7 DEF PInv

\* All clients of the pool are closed and forgotten.
LEMMA ClosesStep ==
  ASSUME PInv, closeClients, UNCHANGED <<stray, asking>>
  PROVE  ClientsGrow /\ ProcessesKnown' /\ PoolKept'
         /\ pool' \in [Args -> 0..MaxClients] /\ users' \in [Args -> SUBSET Projects]
<1> DEFINE E == {k \in Clients : inPool(k)}
<1>1. /\ client' = [k \in Clients |-> IF k \in E THEN [client[k] EXCEPT !.runs = FALSE]
                                      ELSE client[k]]
      /\ pool' = [a \in Args |-> 0] /\ users' = [a \in Args |-> {}]
  BY DEF closeClients, closes
<1>2. \A k \in Clients : inPool(k) <=> k \in E
  OBVIOUS
<1>3. PICK over \in SUBSET Clients : over = E
  OBVIOUS
<1> HIDE DEF E
<1>4. /\ ClientsGrow
      /\ \A j \in Clients : client'[j].args = client[j].args /\ client'[j].starts = client[j].starts
      /\ \A j \in Clients : client'[j].runs <=> client[j].runs /\ j \notin over
  <2>1. client' = [k \in Clients |-> IF k \in over THEN [client[k] EXCEPT !.runs = FALSE]
                                     ELSE client[k]]
    BY <1>1, <1>3
  <2>. QED BY <2>1, ProcessesEnd
<1>5. ProcessesKnown'
  BY <1>2, <1>3, <1>4 DEF PInv, ProcessesKnown, kept
<1>6. PoolKept'
  <2>1. \A r \in asking : r.client \in Clients
    BY PoolTypes, ApprovalType DEF PInv
  <2>. QED BY <1>1, <1>4, <2>1 DEF PInv, PoolKept
<1>7. pool' \in [Args -> 0..MaxClients] /\ users' \in [Args -> SUBSET Projects]
  BY <1>1, ClientPoolAssumption
<1>. QED BY <1>4, <1>5, <1>6, <1>7

-------------------------------------------------------------------------------
\* Calls in progress see a change: one that has read other settings than the ones in
\* force has seen the settings change, and if an override changes too, both.
LEMMA SeeingSound ==
  ASSUME PInv, ClientsGrow, NEW what \in Settings,
         codexArgs' \in Args, runtimeArgs' \in [Projects -> Args \cup {NoArgs}],
         seeing(what, codexArgs', runtimeArgs'),
         what = "settings" => runtimeArgs' = runtimeArgs,
         what = "override" => codexArgs' = codexArgs
  PROVE  call' \in [Calls -> CallOf] /\ CallsSound'
<1>1. PICK s \in Args, o \in [Projects -> Args \cup {NoArgs}] : s = codexArgs' /\ o = runtimeArgs'
  OBVIOUS
<1>2. call' = [d \in Calls |-> IF call[d].at = "idle" THEN call[d]
                 ELSE [call[d] EXCEPT !.changed = @ \cup {what},
                                      !.seen = @ \cup {inForce(s, o, call[d].project)}]]
  BY <1>1 DEF seeing
<1>3. ASSUME NEW d \in Calls
      PROVE  call'[d] \in CallOf /\ Sound(call[d])'
  <2>1. PICK x \in CallOf : x = call[d]
    BY PoolTypes DEF PInv
  <2>2. Sound(x)
    BY <2>1 DEF PInv, CallsSound
  <2>3. CASE x.at = "idle"
    <3>1. call'[d] = NoCall
      BY <1>2, <2>1, <2>2, <2>3 DEF Sound
    <3>. QED BY <3>1, NoCallSound DEF Sound, NoCall
  <2>4. CASE x.at # "idle"
    <3> DEFINE next == [x EXCEPT !.changed = @ \cup {what},
                                 !.seen = @ \cup {inForce(s, o, x.project)}]
    <3>1. x.project \in Projects /\ inForce(s, o, x.project) \in Args
      BY <2>2, <2>4, InForceType DEF Sound
    <3>2. /\ next \in CallOf /\ next.at = x.at /\ next.project = x.project /\ next.args = x.args
          /\ next.client = x.client /\ next.answers = x.answers
          /\ next.changed = x.changed \cup {what}
          /\ next.seen = x.seen \cup {inForce(s, o, x.project)}
      BY <3>1 DEF CallOf
    <3>3. call'[d] = next
      BY <1>2, <2>1, <2>4
    <3> HIDE DEF next
    <3>4. PICK y \in CallOf : y = next
      BY <3>2
    <3>5. x.changed \subseteq Settings /\ x.client \in Clients \cup {0}
          /\ x.answers \in Approval \cup {NoApproval}
      BY PoolTypes DEF CallOf, PInv
    <3>6. y.client # 0 => /\ client'[y.client].args \in Args
                          /\ \/ client'[y.client].args \in y.seen
                             \/ y.changed = Settings
      BY <2>2, <3>2, <3>4, <3>5 DEF Sound, ClientsGrow, Settings
    <3>7. y.answers # NoApproval => y.answers.start <= client'[y.answers.client].starts
      <4>. SUFFICES ASSUME y.answers # NoApproval
                    PROVE  y.answers.start <= client'[y.answers.client].starts
        OBVIOUS
      <4>1. y.answers \in Approval
        BY <3>2, <3>4, <3>5
      <4>2. y.answers.client \in Clients /\ y.answers.start \in 1..MaxStarts
        BY <4>1, ApprovalType
      <4>3. y.answers.start <= client[y.answers.client].starts
        BY <2>2, <3>2, <3>4 DEF Sound
      <4>4. client[y.answers.client] \in ClientOf /\ client'[y.answers.client] \in ClientOf
        BY <4>2, PoolTypes DEF PInv, ClientsGrow
      <4>. QED BY <4>2, <4>3, <4>4, ClientPoolAssumption DEF ClientsGrow, ClientOf
    <3>8. y.at = "read" => /\ y.args \in Args
                           /\ y.args = s \/ "settings" \in y.changed
                           /\ \/ inForce(y.args, o, y.project) \in y.seen
                              \/ y.changed = Settings
      <4>1. CASE what = "settings"
        BY <1>1, <2>2, <3>2, <3>4, <3>5, <4>1 DEF Sound, Settings
      <4>2. CASE what = "override"
        BY <1>1, <2>2, <3>2, <3>4, <3>5, <4>2 DEF Sound, Settings
      <4>. QED BY <4>1, <4>2 DEF Settings
    <3>9. /\ inForce(s, o, y.project) \in y.seen /\ y.changed # {} /\ y.project \in Projects
          /\ y.at # "idle" /\ (y.answers # NoApproval => y.answers.project = y.project)
          /\ (y.at \in {"reading", "read"} => y.client = 0)
          /\ (y.at \in {"holding", "waiting"} => y.client \in Clients)
          /\ (y.at = "waiting" => y.answers = NoApproval)
      BY <2>2, <2>4, <3>1, <3>2, <3>4 DEF Sound
    <3>10. Sound(y)'
      BY <1>1, <3>6, <3>7, <3>8, <3>9 DEF Sound, inForce
    <3>11. y = call'[d]
      BY <3>3, <3>4
    <3>. QED BY <3>10, <3>11 DEF Sound, Reached, inForce
  <2>. QED BY <2>3, <2>4
<1>4. call' \in [Calls -> CallOf]
  BY <1>2, <1>3
<1>. QED BY <1>3, <1>4 DEF CallsSound

LEMMA SettingsStep ==
  ASSUME PInv, NEW a \in Args, updateSettings(a)
  PROVE  PInv'
<1>1. /\ codexArgs' = a /\ seeing("settings", a, runtimeArgs)
      /\ UNCHANGED <<runtimeArgs, clientVars, connected, asking, appClosed, stray, wrongAnswers,
                     client, pool, users>>
  BY DEF updateSettings, clientVars
<1>2. runtimeArgs \in [Projects -> Args \cup {NoArgs}] /\ ClientsGrow
  BY <1>1, PoolTypes, SameClients DEF PInv
<1>3. call' \in [Calls -> CallOf] /\ CallsSound'
  <2>1. seeing("settings", codexArgs', runtimeArgs')
    BY <1>1 DEF seeing
  <2>. QED BY <1>1, <1>2, <2>1, SeeingSound DEF Settings
<1>4. PoolTypeOK' /\ AnswerReachesAsker'
  BY <1>1, <1>2, <1>3, PoolTypes, PoolTypesKept DEF PInv
<1>5. ProcessesKnown' /\ PoolKept'
  BY <1>1 DEF PInv, ProcessesKnown, kept, inPool, PoolKept
<1>. QED BY <1>3, <1>4, <1>5 DEF PInv

LEMMA OverrideStep ==
  ASSUME PInv, NEW p \in Projects, NEW a \in Args \cup {NoArgs},
         setWorkspaceRuntimeCodexArgs(p, a)
  PROVE  PInv'
<1>1. /\ runtimeArgs' = [runtimeArgs EXCEPT ![p] = a]
      /\ seeing("override", codexArgs, runtimeArgs')
      /\ closeClients \/ UNCHANGED clientVars
      /\ UNCHANGED <<codexArgs, connected, asking, appClosed, stray, wrongAnswers>>
  BY DEF setWorkspaceRuntimeCodexArgs
<1>2. runtimeArgs' \in [Projects -> Args \cup {NoArgs}] /\ codexArgs \in Args
  BY <1>1, PoolTypes DEF PInv
<1>3. ClientsGrow /\ ProcessesKnown' /\ PoolKept'
      /\ pool' \in [Args -> 0..MaxClients] /\ users' \in [Args -> SUBSET Projects]
  <2>1. CASE closeClients
    BY <1>1, <2>1, ClosesStep
  <2>2. CASE UNCHANGED clientVars
    <3>1. UNCHANGED <<pool, users, client>>
      BY <2>2 DEF clientVars
    <3>2. ClientsGrow
      BY <1>1, <3>1, SameClients
    <3>. QED BY <1>1, <3>1, <3>2, PoolTypes DEF PInv, ProcessesKnown, kept, inPool, PoolKept
  <2>. QED BY <1>1, <2>1, <2>2
<1>4. call' \in [Calls -> CallOf] /\ CallsSound'
  <2>1. seeing("override", codexArgs', runtimeArgs')
    BY <1>1 DEF seeing
  <2>. QED BY <1>1, <1>2, <1>3, <2>1, SeeingSound DEF Settings
<1>5. PoolTypeOK' /\ AnswerReachesAsker'
  BY <1>1, <1>2, <1>3, <1>4, PoolTypes, PoolTypesKept DEF PInv, ClientsGrow
<1>. QED BY <1>3, <1>4, <1>5 DEF PInv

-------------------------------------------------------------------------------
\* A process asks, and workspaces come and go.
LEMMA AsksStep ==
  ASSUME PInv, NEW k \in Clients, NEW p \in Projects, processAsks(k, p)
  PROVE  PInv'
<1>1. /\ client[k].runs
      /\ asking' = {[client |-> k, start |-> client[k].starts, project |-> p]}
      /\ UNCHANGED <<settingsVars, clientVars, connected, call, appClosed, stray, wrongAnswers,
                     client, pool, users, codexArgs, runtimeArgs>>
  BY DEF processAsks, settingsVars, clientVars
<1>2. client[k].starts \in 1..MaxStarts
  BY <1>1, PoolTypes DEF PInv, PoolKept, ClientOf
<1>3. asking' \subseteq Approval
  BY <1>1, <1>2 DEF Approval
<1>4. call' \in [Calls -> CallOf] /\ CallsSound'
  BY <1>1, SameClients, NoCallStep
<1>5. PoolTypeOK' /\ AnswerReachesAsker'
  BY <1>1, <1>3, <1>4, PoolTypes, PoolTypesKept DEF PInv
<1>6. ProcessesKnown'
  BY <1>1 DEF PInv, ProcessesKnown, kept, inPool
<1>7. PoolKept'
  BY <1>1, <1>2 DEF PInv, PoolKept
<1>. QED BY <1>4, <1>5, <1>6, <1>7 DEF PInv

LEMMA ConnectSteps ==
  ASSUME PInv, NEW p, \/ p \in Projects /\ connectWorkspace(p)
                      \/ disconnectWorkspace(p)
  PROVE  PInv'
<1>1. /\ connected' \subseteq connected \cup Projects
      /\ UNCHANGED <<settingsVars, clientVars, call, asking, appClosed, stray, wrongAnswers, client>>
  BY DEF connectWorkspace, disconnectWorkspace, clientVars
<1>2. call' \in [Calls -> CallOf] /\ CallsSound'
  BY <1>1, SameClients, NoCallStep
<1>. QED BY <1>1, <1>2, SameClientsKept, PoolTypes DEF PInv

\* The server closes, or ends.
LEMMA CloseStep ==
  ASSUME PInv, PoolClose
  PROVE  PInv'
<1>1. /\ closeClients /\ appClosed' = TRUE
      /\ UNCHANGED <<settingsVars, connected, call, asking, stray, wrongAnswers,
                     codexArgs, runtimeArgs>>
  BY DEF PoolClose, settingsVars
<1>2. /\ ClientsGrow /\ ProcessesKnown' /\ PoolKept'
      /\ pool' \in [Args -> 0..MaxClients] /\ users' \in [Args -> SUBSET Projects]
  BY <1>1, ClosesStep
<1>3. call' \in [Calls -> CallOf] /\ CallsSound'
  BY <1>1, <1>2, NoCallStep
<1>4. PoolTypeOK' /\ AnswerReachesAsker'
  BY <1>1, <1>2, <1>3, PoolTypes, PoolTypesKept DEF PInv, ClientsGrow
<1>. QED BY <1>2, <1>3, <1>4 DEF PInv

LEMMA PoolRestartStep ==
  ASSUME PInv, PoolRestart
  PROVE  PInv'
<1>1. /\ runtimeArgs' = [p \in Projects |-> NoArgs]
      /\ pool' = [a \in Args |-> 0] /\ users' = [a \in Args |-> {}]
      /\ client' = [k \in Clients |-> [client[k] EXCEPT !.runs = FALSE]]
      /\ call' = [c \in Calls |-> NoCall]
      /\ asking' = {} /\ appClosed' = FALSE /\ connected' = {}
      /\ UNCHANGED <<codexArgs, stray, wrongAnswers>>
  BY DEF PoolRestart
<1>2. \A k \in Clients : client'[k] \in ClientOf /\ ~client'[k].runs
  BY <1>1, PoolTypes DEF PInv, ClientOf
<1>3. call' \in [Calls -> CallOf] /\ CallsSound'
  BY <1>1, NoCallSound DEF CallsSound, Sound, NoCall
<1>4. ProcessesKnown' /\ PoolKept'
  BY <1>1, <1>2 DEF ProcessesKnown, PoolKept
<1>5. PoolTypeOK' /\ AnswerReachesAsker'
  <2>1. /\ runtimeArgs' \in [Projects -> Args \cup {NoArgs}]
        /\ pool' \in [Args -> 0..MaxClients] /\ users' \in [Args -> SUBSET Projects]
        /\ client' \in [Clients -> ClientOf]
    BY <1>1, <1>2, ClientPoolAssumption
  <2>. QED BY <1>1, <1>3, <2>1, PoolTypes, PoolTypesKept DEF PInv
<1>. QED BY <1>3, <1>4, <1>5 DEF PInv

LEMMA PoolInit_PInv ==
  ASSUME NEW served, served \subseteq Projects, PoolInit(served)
  PROVE  PInv
<1>1. /\ codexArgs \in Args /\ runtimeArgs = [p \in Projects |-> NoArgs]
      /\ pool = [a \in Args |-> 0] /\ users = [a \in Args |-> {}]
      /\ client = [k \in Clients |-> [args |-> NoArgs, runs |-> FALSE, starts |-> 0]]
      /\ call = [c \in Calls |-> NoCall] /\ connected = served
      /\ asking = {} /\ appClosed = FALSE /\ stray = {} /\ wrongAnswers = {}
  BY DEF PoolInit
<1>2. /\ MaxClients \in Nat /\ MaxStarts \in Nat /\ 0 \in 0..MaxClients /\ 0 \in 0..MaxStarts
  BY ClientPoolAssumption
<1>3. client \in [Clients -> ClientOf] /\ \A k \in Clients : ~client[k].runs
  BY <1>1, <1>2 DEF ClientOf
<1>4. call \in [Calls -> CallOf] /\ CallsSound
  BY <1>1, NoCallSound DEF CallsSound
<1>5. PoolTypeOK
  BY <1>1, <1>2, <1>3, <1>4 DEF PoolTypeOK, ClientOf, CallOf, Settings
<1>6. ProcessesKnown /\ PoolKept /\ AnswerReachesAsker
  BY <1>1, <1>3 DEF ProcessesKnown, PoolKept, AnswerReachesAsker
<1>. QED BY <1>4, <1>5, <1>6 DEF PInv

\* Every step of the module keeps the invariant, and so does one that is not its own.
LEMMA PoolStepsKept ==
  ASSUME PInv, NEW served, served \subseteq Projects, [PoolNext(served)]_poolVars
  PROVE  PInv'
<1>1. CASE PoolStart(served)
  BY <1>1, StartSteps, ExitStep, AsksStep, SettingsStep, OverrideStep, ConnectSteps DEF PoolStart
<1>2. CASE PoolStep
  BY <1>2, ReadStep, BuildStep, RequestStep, AnsweredStep DEF PoolStep
<1>3. CASE PoolClose
  BY <1>3, CloseStep
<1>4. CASE PoolRestart
  BY <1>4, PoolRestartStep
<1>5. CASE UNCHANGED poolVars
  <2>1. UNCHANGED <<settingsVars, clientVars, connected, call, asking, appClosed, stray, wrongAnswers, client>>
    BY <1>5 DEF poolVars, clientVars
  <2>2. call' \in [Calls -> CallOf] /\ CallsSound'
    BY <2>1, SameClients, NoCallStep
  <2>. QED BY <2>1, <2>2, SameClientsKept, PoolTypes DEF PInv
<1>. QED BY <1>1, <1>2, <1>3, <1>4, <1>5 DEF PoolNext

\* What the invariant says of the calls that hold a client.
LEMMA PInvServes ==
  ASSUME PInv
  PROVE  ServedWithOwnArgs
BY DEF PInv, CallsSound, Sound, ServedWithOwnArgs, Settings

--------------------------------------------------------------------------------
\* Terminals

USE DEF Shells

\* A session has a shell that was started for its terminal.
ShellsOwned == \A t \in Terms : sessions[t] # 0 => shellOf[sessions[t]] = t

\* Only a call of a page that is gone can open a terminal that waits to be restored.
CallsInv ==
  \A c \in calls :
    /\ c.at # "sent" => ~c.old
    /\ c.by = "setup" => c.term = SetupTab
    /\ ~c.old /\ (c.asks = "open" \/ c.by = "setup") => c.term \notin restored

TInv == TerminalsTypeOK /\ ShellsOwned /\ ShellsTracked /\ CallsInv

\* What one step does to sessions that are there and to those that come.
NewSessions ==
  \A t \in restored : sessions'[t] \notin {0, sessions[t]} =>
     \E c \in calls \ calls' : c.term = t /\ c.old

TerminalsNext ==
  TerminalsStart \/ TerminalsServe \/ TerminalsRefuse \/ TerminalsStep \/ TerminalsRestart
    \/ TerminalsClose

LEMMA TerminalTypes ==
  ASSUME TerminalsTypeOK
  PROVE  /\ sessions \in [Terms -> 0..MaxShells] /\ shellOf \in [Shells -> Terms \cup {NoTerm}]
         /\ \A t \in Terms : sessions[t] # 0 => sessions[t] \in Shells
         /\ calls \subseteq Call /\ 0 \notin Shells /\ NoTerm \notin Terms /\ SetupTab \in Terms
         /\ ending \subseteq Shells /\ late \subseteq Shells
BY TerminalsAssumption DEF TerminalsTypeOK, Terms, NoTerm

LEMMA CallType ==
  ASSUME NEW asks \in {"open", "restore", "write", "close"}, NEW t \in Terms,
         NEW by \in {"tab", "setup"}
  PROVE  /\ newCall(asks, t, by) \in Call /\ newCall(asks, t, by).at = "sent"
         /\ newCall(asks, t, by).asks = asks /\ newCall(asks, t, by).term = t
         /\ newCall(asks, t, by).by = by /\ newCall(asks, t, by).old = FALSE
BY DEF newCall, Call

-------------------------------------------------------------------------------
\* A call is answered, or its answer dropped: what is left is known of the rest.
LEMMA AnswersKept ==
  ASSUME TInv, NEW c \in calls, NEW outcome \in {"ok", "missing"}, c.at = "sent",
         answers(c, outcome), UNCHANGED restored
  PROVE  /\ calls' \subseteq Call /\ CallsInv' /\ c \notin calls'
         /\ \A d \in calls : d # c => d \in calls'
<1> DEFINE a == [c EXCEPT !.at = outcome]
<1>1. calls \subseteq Call /\ c \in Call
  BY TerminalTypes DEF TInv
<1>2. /\ a \in Call /\ a.at = outcome /\ a.asks = c.asks /\ a.by = c.by /\ a.term = c.term
      /\ a.old = c.old /\ a # c
  BY <1>1 DEF Call
<1>3. \/ calls' = calls \ {c}
      \/ calls' = (calls \ {c}) \cup {a} /\ ~c.old
  BY DEF answers, dropped
<1> HIDE DEF a
<1>4. calls' \subseteq Call /\ c \notin calls' /\ \A d \in calls : d # c => d \in calls'
  BY <1>1, <1>2, <1>3
<1>5. ASSUME NEW d \in calls'
      PROVE  /\ d.at # "sent" => ~d.old
             /\ d.by = "setup" => d.term = SetupTab
             /\ ~d.old /\ (d.asks = "open" \/ d.by = "setup") => d.term \notin restored
  <2>1. CASE d \in calls
    BY <2>1 DEF TInv, CallsInv
  <2>2. CASE d = a /\ ~c.old
    BY <1>2, <2>2 DEF TInv, CallsInv
  <2>. QED BY <1>3, <2>1, <2>2
<1>6. CallsInv'
  BY <1>5 DEF CallsInv
<1>. QED BY <1>4, <1>6

\* The sessions and the shells stay as they are.
LEMMA SameSessions ==
  ASSUME TInv, UNCHANGED <<sessionVars, ending>>
  PROVE  /\ ShellsOwned' /\ ShellsTracked' /\ NewSessions
         /\ sessions' \in [Terms -> 0..MaxShells] /\ shellOf' \in [Shells -> Terms \cup {NoTerm}]
         /\ ending' \subseteq Shells
<1>1. UNCHANGED <<sessions, shellOf, ending>>
  BY DEF sessionVars
<1>. QED BY <1>1 DEF TInv, TerminalsTypeOK, ShellsOwned, ShellsTracked, running, NewSessions

-------------------------------------------------------------------------------
LEMMA OpenStep ==
  ASSUME TInv, NEW c \in calls, openSession(c)
  PROVE  TInv' /\ NewSessions
<1>1. c.term \in Terms /\ c.at = "sent" /\ c \in Call
  BY TerminalTypes DEF TInv, openSession, Call
<1>2. UNCHANGED <<tabs, active, shown, restored, used, opened, setup, exits, ending>>
  BY DEF openSession, tabVars
<1>3. /\ calls' \subseteq Call /\ CallsInv' /\ c \notin calls'
  <2>1. \E outcome \in {"ok", "missing"} : answers(c, outcome)
    BY DEF openSession
  <2>. QED BY <1>1, <1>2, <2>1, AnswersKept
<1>4. CASE UNCHANGED <<sessionVars, late>>
  <2>1. TerminalsTypeOK'
    BY <1>2, <1>3, <1>4 DEF TInv, TerminalsTypeOK, sessionVars
  <2>. QED BY <1>2, <1>3, <1>4, <2>1, SameSessions DEF TInv
<1>5. CASE sessions[c.term] = 0 /\ c.asks = "open" /\ startsShell(c.term)
  <2>1. PICK k \in Shells :
          /\ shellOf[k] = NoTerm
          /\ sessions' = [sessions EXCEPT ![c.term] = k]
          /\ shellOf' = [shellOf EXCEPT ![k] = c.term]
          /\ late' \subseteq late \cup {k}
    BY <1>5 DEF startsShell
  <2>2. /\ sessions \in [Terms -> 0..MaxShells] /\ shellOf \in [Shells -> Terms \cup {NoTerm}]
        /\ 0 \notin Shells /\ NoTerm \notin Terms /\ k \in 0..MaxShells
        /\ late \subseteq Shells
        /\ \A t \in Terms : sessions[t] # 0 => sessions[t] \in Shells
    BY TerminalTypes, TerminalsAssumption DEF TInv
  <2>3. /\ sessions' \in [Terms -> 0..MaxShells] /\ shellOf' \in [Shells -> Terms \cup {NoTerm}]
        /\ \A t \in Terms : sessions'[t] = IF t = c.term THEN k ELSE sessions[t]
        /\ \A j \in Shells : shellOf'[j] = IF j = k THEN c.term ELSE shellOf[j]
    BY <1>1, <2>1, <2>2
  <2>4. TerminalsTypeOK'
    BY <1>2, <1>3, <2>1, <2>2, <2>3 DEF TInv, TerminalsTypeOK
  <2>5. ShellsOwned'
    BY <1>1, <2>1, <2>2, <2>3 DEF TInv, ShellsOwned
  <2>6. ShellsTracked'
    BY <1>1, <1>2, <1>5, <2>1, <2>2, <2>3 DEF TInv, ShellsTracked, running
  <2>7. NewSessions
    <3>. SUFFICES ASSUME NEW t \in restored, sessions'[t] \notin {0, sessions[t]}
                  PROVE  \E d \in calls \ calls' : d.term = t /\ d.old
      BY DEF NewSessions
    <3>1. t \in Terms
      BY DEF TInv, TerminalsTypeOK
    <3>2. t = c.term
      BY <2>3, <3>1
    <3>3. c.old
      BY <1>1, <1>5, <3>2 DEF TInv, CallsInv, Call
    <3>. QED BY <1>3, <3>2, <3>3
  <2>. QED BY <1>3, <2>4, <2>5, <2>6, <2>7 DEF TInv
<1>. QED BY <1>4, <1>5 DEF openSession

LEMMA WriteStep ==
  ASSUME TInv, NEW c \in calls, writeSession(c)
  PROVE  TInv' /\ NewSessions
<1>1. /\ c.at = "sent" /\ UNCHANGED <<sessionVars, tabs, active, shown, restored, used, opened, setup,
                                      exits, ending, late>>
      /\ \E outcome \in {"ok", "missing"} : answers(c, outcome)
  BY DEF writeSession, tabVars
<1>2. calls' \subseteq Call /\ CallsInv'
  BY <1>1, AnswersKept
<1>3. TerminalsTypeOK'
  BY <1>1, <1>2 DEF TInv, TerminalsTypeOK, sessionVars
<1>. QED BY <1>1, <1>2, <1>3, SameSessions DEF TInv

LEMMA CloseSessionStep ==
  ASSUME TInv, NEW c \in calls, closeSession(c)
  PROVE  TInv' /\ NewSessions
<1>1. /\ c.at = "sent" /\ UNCHANGED <<tabs, active, shown, restored, used, opened, setup, exits, late, shellOf>>
      /\ \E outcome \in {"ok", "missing"} : answers(c, outcome)
      /\ sessions' = [sessions EXCEPT ![c.term] = 0]
      /\ ending' = IF sessions[c.term] = 0 THEN ending ELSE ending \cup {sessions[c.term]}
  BY DEF closeSession, tabVars
<1>2. /\ calls' \subseteq Call /\ CallsInv'
  BY <1>1, AnswersKept
<1>3. /\ c.term \in Terms /\ sessions \in [Terms -> 0..MaxShells]
      /\ shellOf \in [Shells -> Terms \cup {NoTerm}] /\ 0 \notin Shells /\ NoTerm \notin Terms
      /\ ending \subseteq Shells /\ 0 \in 0..MaxShells
      /\ \A t \in Terms : sessions[t] # 0 => sessions[t] \in Shells
  BY TerminalTypes, TerminalsAssumption DEF TInv, Call
<1>4. /\ sessions' \in [Terms -> 0..MaxShells] /\ ending' \subseteq Shells
      /\ \A t \in Terms : sessions'[t] = IF t = c.term THEN 0 ELSE sessions[t]
  BY <1>1, <1>3
<1>5. TerminalsTypeOK'
  BY <1>1, <1>2, <1>4 DEF TInv, TerminalsTypeOK
<1>6. ShellsOwned'
  BY <1>1, <1>3, <1>4 DEF TInv, ShellsOwned
<1>7. ShellsTracked'
  BY <1>1, <1>3, <1>4 DEF TInv, ShellsTracked, running
<1>8. NewSessions
  BY <1>4 DEF TInv, TerminalsTypeOK, NewSessions
<1>. QED BY <1>2, <1>5, <1>6, <1>7, <1>8 DEF TInv

\* The end of a shell ends its session, and no other.
LEMMA TermExitStep ==
  ASSUME TInv, NEW k \in Shells, onExit(k)
  PROVE  TInv' /\ NewSessions
<1>1. /\ k \in running /\ UNCHANGED <<tabs, active, shown, restored, used, opened, setup, calls>>
      /\ shellOf' = [shellOf EXCEPT ![k] = NoTerm]
      /\ ending' = ending \ {k} /\ late' = late \ {k}
      /\ \/ /\ sessions[shellOf[k]] = k
            /\ sessions' = [sessions EXCEPT ![shellOf[k]] = 0]
            /\ exits' \in {exits, exits \cup {shellOf[k]}}
         \/ sessions[shellOf[k]] # k /\ UNCHANGED <<sessions, exits>>
  BY DEF onExit, tabVars, isCurrent
<1>2. /\ sessions \in [Terms -> 0..MaxShells] /\ shellOf \in [Shells -> Terms \cup {NoTerm}]
      /\ shellOf[k] \in Terms /\ 0 \notin Shells /\ NoTerm \notin Terms
      /\ \A t \in Terms : sessions[t] # 0 => sessions[t] \in Shells
  BY <1>1, TerminalTypes DEF TInv, running
<1>3. /\ sessions' \in [Terms -> 0..MaxShells]
      /\ shellOf' \in [Shells -> Terms \cup {NoTerm}]
      /\ \A t \in Terms : sessions'[t] \in {0, sessions[t]}
      /\ \A t \in Terms : t # shellOf[k] => sessions'[t] = sessions[t]
      /\ \A j \in Shells : shellOf'[j] = IF j = k THEN NoTerm ELSE shellOf[j]
  <2>1. 0 \in 0..MaxShells
    BY TerminalsAssumption
  <2>. QED BY <1>1, <1>2, <2>1
<1>4. TerminalsTypeOK'
  BY <1>1, <1>2, <1>3 DEF TInv, TerminalsTypeOK
<1>5. ShellsOwned'
  BY <1>1, <1>2, <1>3 DEF TInv, ShellsOwned
<1>6. ShellsTracked'
  BY <1>1, <1>2, <1>3 DEF TInv, ShellsTracked, running
<1>7. NewSessions
  BY <1>3 DEF TInv, TerminalsTypeOK, NewSessions
<1>8. CallsInv'
  BY <1>1 DEF TInv, CallsInv
<1>. QED BY <1>4, <1>5, <1>6, <1>7, <1>8 DEF TInv

-------------------------------------------------------------------------------
\* The browser: sessions stay as they are, and no terminal is marked to be restored.
LEMMA BrowserStep ==
  ASSUME TInv, UNCHANGED <<sessionVars, ending, late>>,
         tabs' \subseteq Terms, active' \in Terms \cup {NoTerm}, shown' \in BOOLEAN,
         restored' \subseteq restored, restored' \subseteq tabs', opened' \subseteq Terms,
         used' \subseteq Tabs, setup' \in {"idle", "closing", "opening"}, exits' \subseteq Terms,
         calls' \subseteq Call,
         \A c \in calls' : \/ c \in calls
                           \/ /\ c.at = "sent"
                              /\ c.by = "setup" => c.term = SetupTab
                              /\ (c.asks = "open" \/ c.by = "setup") => c.term \notin restored'
  PROVE  TInv' /\ NewSessions
<1>1. ShellsOwned' /\ ShellsTracked' /\ NewSessions
      /\ sessions' \in [Terms -> 0..MaxShells] /\ shellOf' \in [Shells -> Terms \cup {NoTerm}]
      /\ ending' \subseteq Shells
  BY SameSessions
<1>2. TerminalsTypeOK'
  BY <1>1 DEF TInv, TerminalsTypeOK
<1>3. CallsInv'
  BY DEF TInv, CallsInv
<1>. QED BY <1>1, <1>2, <1>3 DEF TInv

LEMMA CloseTab ==
  ASSUME TInv, NEW t \in Terms, NEW others \in SUBSET calls, closeTerminal(t, others),
         UNCHANGED <<sessionVars, setup, ending, late>>,
         shown' \in BOOLEAN, exits' \subseteq Terms
  PROVE  TInv' /\ NewSessions
<1>. DEFINE n == newCall("close", t, "tab")
<1>0. n \in Call /\ n.at = "sent" /\ n.asks = "close" /\ n.by = "tab"
  BY DEF newCall, Call
<1>1. n = newCall("close", t, "tab")
  OBVIOUS
<1>. HIDE DEF n
<1>2. /\ tabs' = tabs \ {t} /\ restored' = restored \ {t} /\ opened' = opened \ {t}
      /\ active' \in {active, NoTerm} \cup tabs' /\ calls' = others \cup {n} /\ used' = used
      /\ setup' = setup
  BY <1>1 DEF closeTerminal, stillRestored, restartSession, closeCalls
<1>3. /\ tabs \subseteq Terms /\ restored \subseteq tabs /\ opened \subseteq Terms
      /\ active \in Terms \cup {NoTerm} /\ used \subseteq Tabs /\ calls \subseteq Call
      /\ setup \in {"idle", "closing", "opening"}
  BY DEF TInv, TerminalsTypeOK
<1>. QED BY <1>0, <1>2, <1>3, BrowserStep

LEMMA StartTermSteps ==
  ASSUME TInv, \/ \E t \in Tabs : createTerminal(t)
               \/ \E t \in Terms : onCloseTerminal(t) \/ setActiveTerminal(t)
               \/ toggleTerminal \/ typeInTerminal \/ runSetupScript
  PROVE  TInv' /\ NewSessions
<1>1. /\ tabs \subseteq Terms /\ restored \subseteq tabs /\ opened \subseteq Terms
      /\ active \in Terms \cup {NoTerm} /\ used \subseteq Tabs /\ calls \subseteq Call
      /\ setup \in {"idle", "closing", "opening"} /\ exits \subseteq Terms /\ shown \in BOOLEAN
      /\ Tabs \subseteq Terms /\ SetupTab \in Terms
  BY DEF TInv, TerminalsTypeOK, Terms
<1>2. CASE \E t \in Tabs : createTerminal(t)
  BY <1>1, <1>2, BrowserStep DEF createTerminal
<1>3. ASSUME NEW t \in Terms, onCloseTerminal(t)
      PROVE  TInv' /\ NewSessions
  <2>1. /\ closeTerminal(t, calls) /\ UNCHANGED <<sessionVars, setup, ending, late>>
        /\ shown' \in BOOLEAN /\ exits' \subseteq Terms /\ calls \in SUBSET calls
    BY <1>1, <1>3 DEF onCloseTerminal, closesPanel
  <2>. QED BY <2>1, CloseTab
<1>4. ASSUME NEW t \in Terms, setActiveTerminal(t)
      PROVE  TInv' /\ NewSessions
  BY <1>1, <1>4, BrowserStep DEF setActiveTerminal
<1>5. CASE toggleTerminal
  BY <1>1, <1>5, BrowserStep DEF toggleTerminal
<1>6. CASE typeInTerminal
  <2>0. PICK t \in Terms : t = active
    BY <1>1, <1>6 DEF typeInTerminal
  <2>1. PICK n \in Call : /\ n = newCall("write", t, "tab") /\ n.at = "sent"
                          /\ n.asks = "write" /\ n.by = "tab"
    <3>1. /\ newCall("write", t, "tab") \in Call /\ newCall("write", t, "tab").at = "sent"
          /\ newCall("write", t, "tab").asks = "write" /\ newCall("write", t, "tab").by = "tab"
      BY <2>0 DEF newCall, Call
    <3>. QED BY <3>1
  <2>2. calls' = calls \cup {n} /\ UNCHANGED <<sessionVars, tabs, active, shown, restored, used,
                                              opened, setup, exits, ending, late>>
    BY <1>6, <2>0, <2>1 DEF typeInTerminal, tabVars
  <2>. QED BY <1>1, <2>1, <2>2, BrowserStep
<1>7. CASE runSetupScript
  <2>1. PICK n \in Call : /\ n = newCall("close", SetupTab, "setup") /\ n.at = "sent"
                          /\ n.term = SetupTab
    <3>1. /\ newCall("close", SetupTab, "setup") \in Call
          /\ newCall("close", SetupTab, "setup").at = "sent"
          /\ newCall("close", SetupTab, "setup").term = SetupTab
      BY <1>1 DEF newCall, Call
    <3>. QED BY <3>1
  <2>2. /\ calls' = calls \cup {n} /\ setup' = "closing" /\ tabs' = tabs \cup {SetupTab}
        /\ active' = SetupTab /\ shown' = TRUE /\ restored' = restored \ {SetupTab}
        /\ opened' = opened \ {SetupTab} /\ UNCHANGED <<sessionVars, used, exits, ending, late>>
    BY <1>7, <2>1 DEF runSetupScript, restartSession, closeCalls
  <2>3. SetupTab \notin restored'
    BY <2>2
  <2>. QED BY <1>1, <2>1, <2>2, <2>3, BrowserStep
<1>. QED BY <1>2, <1>3, <1>4, <1>5, <1>6, <1>7

\* The page is loaded again: its calls are those of a page that is gone.
LEMMA RefreshStep ==
  ASSUME TInv, refreshPage
  PROVE  TInv' /\ NewSessions
<1>1. /\ restored' = tabs /\ opened' = {} /\ setup' = "idle" /\ exits' = {}
      /\ calls' = {[c EXCEPT !.old = TRUE] : c \in {d \in calls : d.at = "sent"}}
      /\ UNCHANGED <<sessionVars, tabs, active, shown, used, ending, late>>
  BY DEF refreshPage
<1>2. calls \subseteq Call
  BY DEF TInv, TerminalsTypeOK
<1>3. \A c \in calls' : /\ c \in Call /\ c.old /\ c.at = "sent"
                        /\ c.by = "setup" => c.term = SetupTab
  <2>1. \A d \in calls : d.by = "setup" => d.term = SetupTab
    BY DEF TInv, CallsInv
  <2>2. ASSUME NEW d \in Call
        PROVE  /\ [d EXCEPT !.old = TRUE] \in Call /\ [d EXCEPT !.old = TRUE].old
               /\ [d EXCEPT !.old = TRUE].at = d.at /\ [d EXCEPT !.old = TRUE].by = d.by
               /\ [d EXCEPT !.old = TRUE].term = d.term
    BY DEF Call
  <2>3. ASSUME NEW c \in calls'
        PROVE  c \in Call /\ c.old /\ c.at = "sent" /\ (c.by = "setup" => c.term = SetupTab)
    <3>1. PICK d \in calls : d.at = "sent" /\ c = [d EXCEPT !.old = TRUE]
      BY <1>1
    <3>2. d \in Call
      BY <1>2
    <3>. QED BY <2>1, <2>2, <3>1, <3>2
  <2>. QED BY <2>3
<1>4. TerminalsTypeOK'
  BY <1>1, <1>3 DEF TInv, TerminalsTypeOK, sessionVars
<1>5. CallsInv'
  BY <1>3 DEF CallsInv
<1>6. ShellsOwned' /\ ShellsTracked' /\ NewSessions
  BY <1>1, SameSessions
<1>. QED BY <1>4, <1>5, <1>6 DEF TInv

LEMMA AnswerSteps ==
  ASSUME TInv, NEW c \in calls,
         \/ sessionOpened(c) \/ missingRestored(c) \/ writeFailed(c) \/ setupClosed(c)
         \/ setupOpened(c) \/ refused(c)
  PROVE  TInv' /\ NewSessions
<1>1. /\ tabs \subseteq Terms /\ restored \subseteq tabs /\ opened \subseteq Terms
      /\ active \in Terms \cup {NoTerm} /\ used \subseteq Tabs /\ calls \subseteq Call
      /\ setup \in {"idle", "closing", "opening"} /\ exits \subseteq Terms /\ shown \in BOOLEAN
      /\ SetupTab \in Terms /\ c \in Call /\ c.term \in Terms
  BY DEF TInv, TerminalsTypeOK, Terms, Call
<1>2. CASE sessionOpened(c)
  BY <1>1, <1>2, BrowserStep DEF sessionOpened
<1>3. CASE missingRestored(c)
  <2>1. /\ closeTerminal(c.term, calls \ {c}) /\ shown' = FALSE
        /\ UNCHANGED <<sessionVars, setup, exits, ending, late>>
    BY <1>3 DEF missingRestored
  <2>. QED BY <1>1, <2>1, CloseTab
<1>4. CASE writeFailed(c)
  BY <1>1, <1>4, BrowserStep DEF writeFailed, tabVars
<1>5. CASE setupClosed(c)
  <2>0. SetupTab \in Terms
    BY <1>1
  <2>8. /\ newCall("open", SetupTab, "setup") \in Call
        /\ newCall("open", SetupTab, "setup").at = "sent"
        /\ newCall("open", SetupTab, "setup").term = SetupTab
    BY <2>0 DEF newCall, Call
  <2>. DEFINE n == newCall("open", SetupTab, "setup")
  <2>1. n \in Call /\ n.at = "sent" /\ n.term = SetupTab
    BY <2>8
  <2>9. n = newCall("open", SetupTab, "setup")
    OBVIOUS
  <2>. HIDE DEF n
  <2>2. /\ calls' = (calls \ {c}) \cup {n} /\ setup' = "opening"
        /\ UNCHANGED <<sessionVars, tabs, active, shown, restored, used, opened, exits, ending, late>>
    BY <1>5, <2>9 DEF setupClosed, tabVars
  <2>3. SetupTab \notin restored
    BY <1>1, <1>5 DEF setupClosed, TInv, CallsInv
  <2>. QED BY <1>1, <2>1, <2>2, <2>3, BrowserStep
<1>6. CASE setupOpened(c)
  BY <1>1, <1>6, BrowserStep DEF setupOpened, tabVars
<1>7. CASE refused(c)
  BY <1>1, <1>7, BrowserStep DEF refused, tabVars
<1>. QED BY <1>2, <1>3, <1>4, <1>5, <1>6, <1>7

LEMMA OtherSteps ==
  ASSUME TInv, openActive \/ \E t \in Terms : onSessionExit(t)
  PROVE  TInv' /\ NewSessions
<1>1. /\ tabs \subseteq Terms /\ restored \subseteq tabs /\ opened \subseteq Terms
      /\ active \in Terms \cup {NoTerm} /\ used \subseteq Tabs /\ calls \subseteq Call
      /\ setup \in {"idle", "closing", "opening"} /\ exits \subseteq Terms /\ shown \in BOOLEAN
  BY DEF TInv, TerminalsTypeOK, Terms, Call
<1>2. CASE openActive
  <2>1. PICK t \in Terms : t = active
    BY <1>1, <1>2 DEF openActive
  <2>2. PICK asks \in {"open", "restore"} :
          /\ asks = IF active \in restored THEN "restore" ELSE "open"
    OBVIOUS
  <2>3. PICK n \in Call : /\ n = newCall(asks, t, "tab") /\ n.at = "sent" /\ n.term = t
                          /\ n.asks = asks /\ n.by = "tab"
    <3>1. /\ newCall(asks, t, "tab") \in Call /\ newCall(asks, t, "tab").at = "sent"
          /\ newCall(asks, t, "tab").asks = asks /\ newCall(asks, t, "tab").by = "tab"
          /\ newCall(asks, t, "tab").term = t
      BY <2>1, <2>2 DEF newCall, Call
    <3>. QED BY <3>1
  <2>4. /\ calls' = calls \cup {n}
        /\ UNCHANGED <<sessionVars, tabs, active, shown, restored, used, opened, setup, exits, ending, late>>
    BY <1>2, <2>1, <2>2, <2>3 DEF openActive, openRequest, tabVars
  <2>5. n.asks = "open" => n.term \notin restored'
    BY <2>1, <2>2, <2>3, <2>4
  <2>. QED BY <1>1, <2>3, <2>4, <2>5, BrowserStep
<1>3. ASSUME NEW t \in Terms, onSessionExit(t)
      PROVE  TInv' /\ NewSessions
  <2>1. /\ closeTerminal(t, calls) /\ UNCHANGED <<sessionVars, setup, ending, late>>
        /\ shown' \in BOOLEAN /\ exits' \subseteq Terms /\ calls \in SUBSET calls
    BY <1>1, <1>3 DEF onSessionExit, closesPanel
  <2>. QED BY <2>1, CloseTab
<1>. QED BY <1>2, <1>3

-------------------------------------------------------------------------------
\* The server ends its sessions, or ends.
LEMMA TermCloseStep ==
  ASSUME TInv, TerminalsClose
  PROVE  TInv' /\ NewSessions
<1>1. /\ sessions' = [t \in Terms |-> 0]
      /\ ending' = ending \cup {sessions[t] : t \in {u \in Terms : sessions[u] # 0}}
      /\ UNCHANGED <<shellOf, tabs, active, shown, restored, used, opened, setup, calls, exits, late>>
  BY DEF TerminalsClose, tabVars
<1>2. /\ sessions \in [Terms -> 0..MaxShells] /\ ending \subseteq Shells /\ 0 \in 0..MaxShells
      /\ \A t \in Terms : sessions[t] # 0 => sessions[t] \in Shells
      /\ shellOf \in [Shells -> Terms \cup {NoTerm}]
  BY TerminalTypes, TerminalsAssumption DEF TInv
<1>3. ending' \subseteq Shells /\ sessions' \in [Terms -> 0..MaxShells]
  BY <1>1, <1>2
<1>4. TerminalsTypeOK'
  BY <1>1, <1>3 DEF TInv, TerminalsTypeOK
<1>5. ShellsOwned'
  BY <1>1 DEF ShellsOwned
<1>6. ShellsTracked'
  <2>. SUFFICES ASSUME NEW k \in Shells, shellOf[k] # NoTerm, k \notin ending
                PROVE  k \in ending'
    BY <1>1 DEF ShellsTracked, running
  <2>1. sessions[shellOf[k]] = k /\ shellOf[k] \in Terms /\ k # 0
    BY <1>2 DEF TInv, ShellsTracked, running
  <2>. QED BY <1>1, <2>1
<1>7. NewSessions
  BY <1>1 DEF NewSessions, TInv, TerminalsTypeOK
<1>8. CallsInv'
  BY <1>1 DEF TInv, CallsInv
<1>. QED BY <1>4, <1>5, <1>6, <1>7, <1>8 DEF TInv

LEMMA TermRestartStep ==
  ASSUME TInv, TerminalsRestart
  PROVE  TInv' /\ NewSessions
<1>1. /\ sessions' = [t \in Terms |-> 0] /\ shellOf' = [k \in Shells |-> NoTerm]
      /\ calls' = {} /\ exits' = {} /\ setup' = "idle" /\ ending' = {} /\ late' = {}
      /\ UNCHANGED <<tabs, active, shown, restored, used, opened>>
  BY DEF TerminalsRestart, tabVars
<1>2. TerminalsTypeOK'
  BY <1>1, TerminalsAssumption DEF TInv, TerminalsTypeOK
<1>. QED BY <1>1, <1>2 DEF TInv, TerminalsTypeOK, ShellsOwned, ShellsTracked, running, CallsInv, NewSessions

LEMMA TerminalsInit_TInv ==
  ASSUME TerminalsInit
  PROVE  TInv /\ SessionHasTab
<1>1. TerminalsTypeOK
  <2>1. 0 \in 0..MaxShells
    BY TerminalsAssumption
  <2>. QED BY <2>1 DEF TerminalsInit, TerminalsTypeOK
<1>. QED BY <1>1 DEF TerminalsInit, TInv, ShellsOwned, ShellsTracked, running, CallsInv, SessionHasTab

\* Every step of the module keeps the invariant, and so does one that is not its own.
LEMMA TerminalsKept ==
  ASSUME TInv, [TerminalsNext]_terminalVars
  PROVE  TInv' /\ NewSessions
<1>1. CASE TerminalsStart
  BY <1>1, StartTermSteps, RefreshStep, TermExitStep DEF TerminalsStart
<1>2. CASE TerminalsServe
  BY <1>2, OpenStep, WriteStep, CloseSessionStep DEF TerminalsServe
<1>3. CASE TerminalsRefuse
  BY <1>3, AnswerSteps DEF TerminalsRefuse
<1>4. CASE TerminalsStep
  <2>1. \A k \in ending : k \in Shells
    BY DEF TInv, TerminalsTypeOK
  <2>. QED BY <1>4, <2>1, AnswerSteps, TermExitStep, OtherSteps DEF TerminalsStep
<1>5. CASE TerminalsRestart
  BY <1>5, TermRestartStep
<1>6. CASE TerminalsClose
  BY <1>6, TermCloseStep
<1>7. CASE UNCHANGED terminalVars
  <2>1. /\ UNCHANGED <<sessionVars, tabs, active, shown, restored, used, opened, setup, calls, exits,
                       ending, late>>
    BY <1>7 DEF terminalVars, tabVars
  <2>. QED BY <2>1, BrowserStep DEF TInv, TerminalsTypeOK
<1>. QED BY <1>1, <1>2, <1>3, <1>4, <1>5, <1>6, <1>7 DEF TerminalsNext

-------------------------------------------------------------------------------
\* The end of a shell takes no tab from a session.
LEMMA TermExitTab ==
  ASSUME TInv, SessionHasTab, NEW k \in Shells, onExit(k)
  PROVE  SessionHasTab'
<1>1. /\ k \in running /\ UNCHANGED <<tabs, calls>> /\ late' = late \ {k}
      /\ \/ sessions[shellOf[k]] = k /\ sessions' = [sessions EXCEPT ![shellOf[k]] = 0]
         \/ sessions[shellOf[k]] # k /\ sessions' = sessions
  BY DEF onExit, tabVars, isCurrent
<1>2. shellOf[k] \in Terms /\ sessions \in [Terms -> 0..MaxShells] /\ k # 0
  BY <1>1, TerminalTypes DEF TInv, running
<1>3. ASSUME NEW t \in Terms, sessions'[t] # 0
      PROVE  sessions'[t] = sessions[t] /\ sessions[t] # k
  BY <1>1, <1>2, <1>3 DEF TInv, ShellsOwned
<1>. QED BY <1>1, <1>3 DEF SessionHasTab

\* A session keeps its tab, or a call to close it is on its way, or it was late.
LEMMA HasTabKept ==
  ASSUME TInv, SessionHasTab,
         \/ TerminalsStart \/ TerminalsServe \/ TerminalsStep \/ TerminalsRestart \/ TerminalsClose
         \/ UNCHANGED terminalVars
  PROVE  SessionHasTab'
<1> DEFINE Closing(t) == \E c \in calls : c.term = t /\ c.asks = "close" /\ c.at = "sent"
<1>0. ASSUME UNCHANGED <<sessions, late>>, tabs \subseteq tabs',
             \A t \in Terms : Closing(t) => \E c \in calls' : c.term = t /\ c.asks = "close" /\ c.at = "sent"
      PROVE  SessionHasTab'
  BY <1>0 DEF SessionHasTab
<1>1. ASSUME NEW t \in Terms, NEW others \in SUBSET calls, closeTerminal(t, others),
             UNCHANGED <<sessionVars, late>>,
             \A c \in calls : c.at = "sent" => c \in others
      PROVE  SessionHasTab'
  <2>1. PICK n \in Call : n = newCall("close", t, "tab") /\ n.at = "sent" /\ n.asks = "close"
                          /\ n.term = t
    <3>1. /\ newCall("close", t, "tab") \in Call /\ newCall("close", t, "tab").at = "sent"
          /\ newCall("close", t, "tab").asks = "close" /\ newCall("close", t, "tab").term = t
      BY DEF newCall, Call
    <3>. QED BY <3>1
  <2>2. /\ tabs' = tabs \ {t} /\ calls' = others \cup {n} /\ UNCHANGED <<sessions, late>>
    BY <1>1, <2>1 DEF closeTerminal, restartSession, closeCalls, sessionVars
  <2>. QED BY <1>1, <2>1, <2>2 DEF SessionHasTab
<1>2. CASE TerminalsStart
  <2>1. ASSUME NEW t \in Tabs, createTerminal(t)
        PROVE  SessionHasTab'
    BY <1>0, <2>1 DEF createTerminal, sessionVars
  <2>2. ASSUME NEW t \in Terms, onCloseTerminal(t)
        PROVE  SessionHasTab'
    BY <1>1, <2>2 DEF onCloseTerminal
  <2>3. ASSUME NEW t \in Terms, setActiveTerminal(t)
        PROVE  SessionHasTab'
    BY <1>0, <2>3 DEF setActiveTerminal, sessionVars
  <2>4. CASE toggleTerminal
    BY <1>0, <2>4 DEF toggleTerminal, sessionVars
  <2>5. CASE typeInTerminal
    BY <1>0, <2>5 DEF typeInTerminal, sessionVars, tabVars
  <2>6. CASE runSetupScript
    BY <1>0, <2>6 DEF runSetupScript, restartSession, sessionVars
  <2>7. CASE refreshPage
    <3>1. calls \subseteq Call /\ UNCHANGED <<sessions, late, tabs>>
      BY <2>7 DEF refreshPage, sessionVars, TInv, TerminalsTypeOK
    <3>2. ASSUME NEW c \in calls, c.at = "sent", c.asks = "close"
          PROVE  \E d \in calls' : d.term = c.term /\ d.asks = "close" /\ d.at = "sent"
      <4> DEFINE d == [c EXCEPT !.old = TRUE]
      <4>1. d.term = c.term /\ d.asks = "close" /\ d.at = "sent"
        BY <3>1, <3>2 DEF Call
      <4>2. d \in calls'
        BY <2>7, <3>2 DEF refreshPage
      <4>. QED BY <4>1, <4>2
    <3>. QED BY <1>0, <3>1, <3>2
  <2>8. ASSUME NEW k \in Shells, onExit(k)
        PROVE  SessionHasTab'
    BY <2>8, TermExitTab
  <2>. QED BY <1>2, <2>1, <2>2, <2>3, <2>4, <2>5, <2>6, <2>7, <2>8 DEF TerminalsStart
<1>3. CASE TerminalsServe
  <2>0. ASSUME NEW c \in calls, NEW outcome \in {"ok", "missing"}, c.at = "sent",
               answers(c, outcome), UNCHANGED restored
        PROVE  \A d \in calls : d # c => d \in calls'
    BY <2>0, AnswersKept
  <2>1. ASSUME NEW c \in calls, openSession(c)
        PROVE  SessionHasTab'
    <3>1. /\ c.at = "sent" /\ c.asks # "close" /\ UNCHANGED <<tabs, restored>>
          /\ \E outcome \in {"ok", "missing"} : answers(c, outcome)
          /\ UNCHANGED <<sessionVars, late>> \/ startsShell(c.term)
      BY <2>1 DEF openSession, tabVars
    <3>2. \A t \in Terms : Closing(t) =>
             \E d \in calls' : d.term = t /\ d.asks = "close" /\ d.at = "sent"
      BY <2>0, <3>1
    <3>3. CASE UNCHANGED <<sessionVars, late>>
      BY <1>0, <3>1, <3>2, <3>3 DEF sessionVars
    <3>4. CASE startsShell(c.term)
      <4>1. PICK k \in Shells :
              /\ sessions' = [sessions EXCEPT ![c.term] = k]
              /\ late' = IF c.term \in tabs THEN late ELSE late \cup {k}
        BY <3>4 DEF startsShell
      <4>2. c.term \in Terms /\ sessions \in [Terms -> 0..MaxShells]
        BY TerminalTypes DEF TInv, Call
      <4>. QED BY <3>1, <3>2, <4>1, <4>2 DEF SessionHasTab
    <3>. QED BY <3>1, <3>3, <3>4
  <2>2. ASSUME NEW c \in calls, writeSession(c)
        PROVE  SessionHasTab'
    <3>1. /\ c.at = "sent" /\ c.asks # "close" /\ UNCHANGED <<sessions, late, tabs, restored>>
          /\ \E outcome \in {"ok", "missing"} : answers(c, outcome)
      BY <2>2 DEF writeSession, tabVars, sessionVars
    <3>2. \A t \in Terms : Closing(t) =>
             \E d \in calls' : d.term = t /\ d.asks = "close" /\ d.at = "sent"
      BY <2>0, <3>1
    <3>. QED BY <1>0, <3>1, <3>2
  <2>3. ASSUME NEW c \in calls, closeSession(c)
        PROVE  SessionHasTab'
    <3>1. /\ c.at = "sent" /\ UNCHANGED <<late, tabs, restored>>
          /\ \E outcome \in {"ok", "missing"} : answers(c, outcome)
          /\ sessions' = [sessions EXCEPT ![c.term] = 0]
      BY <2>3 DEF closeSession, tabVars
    <3>2. \A t \in Terms : t # c.term /\ Closing(t) =>
             \E d \in calls' : d.term = t /\ d.asks = "close" /\ d.at = "sent"
      BY <2>0, <3>1
    <3>3. c.term \in Terms /\ sessions \in [Terms -> 0..MaxShells]
      BY TerminalTypes DEF TInv, Call
    <3>. QED BY <3>1, <3>2, <3>3 DEF SessionHasTab
  <2>. QED BY <1>3, <2>1, <2>2, <2>3 DEF TerminalsServe
<1>4. CASE TerminalsStep
  <2>1. ASSUME NEW c \in calls, sessionOpened(c) \/ writeFailed(c) \/ setupClosed(c) \/ setupOpened(c)
        PROVE  SessionHasTab'
    <3>1. /\ UNCHANGED <<sessions, late, tabs>> /\ calls \ {c} \subseteq calls' /\ c.at # "sent"
      BY <2>1 DEF sessionOpened, writeFailed, setupClosed, setupOpened, sessionVars, tabVars
    <3>. QED BY <1>0, <3>1
  <2>2. ASSUME NEW c \in calls, missingRestored(c)
        PROVE  SessionHasTab'
    <3>1. /\ closeTerminal(c.term, calls \ {c}) /\ UNCHANGED <<sessionVars, late>>
          /\ c.at # "sent"
      BY <2>2 DEF missingRestored
    <3>2. c.term \in Terms
      BY TerminalTypes DEF TInv, Call
    <3>. QED BY <1>1, <3>1, <3>2
  <2>3. ASSUME NEW k \in ending, onExit(k)
        PROVE  SessionHasTab'
    BY <2>3, TermExitTab DEF TInv, TerminalsTypeOK
  <2>4. ASSUME NEW t \in Terms, onSessionExit(t)
        PROVE  SessionHasTab'
    BY <1>1, <2>4 DEF onSessionExit
  <2>5. CASE openActive
    BY <1>0, <2>5 DEF openActive, sessionVars, tabVars
  <2>. QED BY <1>4, <2>1, <2>2, <2>3, <2>4, <2>5 DEF TerminalsStep
<1>5. CASE TerminalsRestart \/ TerminalsClose
  BY <1>5 DEF TerminalsRestart, TerminalsClose, SessionHasTab
<1>6. CASE UNCHANGED terminalVars
  BY <1>0, <1>6 DEF terminalVars, sessionVars, tabVars
<1>. QED BY <1>2, <1>3, <1>4, <1>5, <1>6

\* Without the server's serving a call there comes no session.
LEMMA NoneKept ==
  ASSUME TInv, \A t \in Terms : sessions[t] = 0,
         \/ TerminalsStart \/ TerminalsRefuse \/ TerminalsStep \/ TerminalsRestart
         \/ TerminalsClose \/ UNCHANGED terminalVars
  PROVE  \A t \in Terms : sessions'[t] = 0
<1>1. \A t \in Terms : sessions[t] \in 0..MaxShells /\ sessions \in [Terms -> 0..MaxShells]
  BY TerminalTypes DEF TInv
<1>2. ASSUME NEW k \in Shells, onExit(k)
      PROVE  \A t \in Terms : sessions'[t] = 0
  BY <1>1, <1>2 DEF onExit
<1>3. \A k \in ending : k \in Shells
  BY DEF TInv, TerminalsTypeOK
<1>4. CASE sessions' = sessions
  BY <1>4
<1>5. CASE TerminalsStart
  BY <1>2, <1>4, <1>5 DEF TerminalsStart, createTerminal, onCloseTerminal, setActiveTerminal,
     toggleTerminal, typeInTerminal, runSetupScript, refreshPage, sessionVars
<1>6. CASE TerminalsRefuse
  BY <1>4, <1>6 DEF TerminalsRefuse, refused, sessionVars
<1>7. CASE TerminalsStep
  BY <1>2, <1>3, <1>4, <1>7 DEF TerminalsStep, sessionOpened, missingRestored, writeFailed,
     setupClosed, setupOpened, onSessionExit, openActive, sessionVars
<1>8. CASE TerminalsRestart \/ TerminalsClose
  BY <1>8 DEF TerminalsRestart, TerminalsClose
<1>9. CASE UNCHANGED terminalVars
  BY <1>4, <1>9 DEF terminalVars, sessionVars
<1>. QED BY <1>5, <1>6, <1>7, <1>8, <1>9

--------------------------------------------------------------------------------
\* The companion server

\* The prompt in the background has no process when it is over.
PrInv == PromptTypeOK /\ PromptLeavesNoProcess

\* The terminals of the workspace have no session before it was added, and have tabs
\* while it is there.
HomeInv ==
  /\ object[Home].path = 0 => \A t \in Terms : sessions[t] = 0
  /\ TerminalHasTab

BudgetOK ==
  budget \in 0..Budget /\ part \in {"any", "workspaces", "clients", "terminals", "prompt"}

ServerInv == WInv /\ BInv /\ PInv /\ TInv /\ PrInv /\ HomeInv /\ BudgetOK

\* What a step is to each of the parts.
Parts ==
  /\ [WorkspacesNext]_workspaceVars
  /\ \/ [PoolNext(known \cap Projects)]_poolVars
     \/ \E i \in Ids : disconnectWorkspace(i)
  /\ [TerminalsNext]_terminalVars
  /\ PromptStart \/ PromptStep \/ PromptRestart \/ UNCHANGED promptVars

LEMMA NextParts ==
  ASSUME [Next]_vars
  PROVE  Parts
<1>1. CASE Begin
  BY <1>1 DEF Begin, Parts, WorkspacesNext, PoolNext, TerminalsNext, onlyWorkspaces, onlyClients,
              onlyTerminals, onlyPrompt
<1>2. CASE Remove
  BY <1>2 DEF Remove, Parts, WorkspacesNext
<1>3. CASE GoOn
  BY <1>3 DEF GoOn, Parts, WorkspacesNext, PoolNext, TerminalsNext, onlyWorkspaces, onlyClients,
              onlyTerminals, onlyPrompt
<1>4. CASE Close
  BY <1>4 DEF Close, Parts, PoolNext, TerminalsNext
<1>5. CASE Restart
  BY <1>5 DEF Restart, Parts, WorkspacesNext, PoolNext, TerminalsNext
<1>6. CASE UNCHANGED vars
  BY <1>6 DEF vars, Parts
<1>. QED BY <1>1, <1>2, <1>3, <1>4, <1>5, <1>6 DEF Next

LEMMA BudgetKept ==
  ASSUME BudgetOK, [Next]_vars
  PROVE  BudgetOK'
<1>1. \/ \E p \in {"workspaces", "clients", "terminals", "prompt"} : begins_in(p)
      \/ begins_in(part)
      \/ UNCHANGED <<budget, part>>
  BY DEF Next, vars, Begin, Remove, GoOn, Close, Restart
<1>2. ASSUME NEW p \in {"any", "workspaces", "clients", "terminals", "prompt"}, begins_in(p)
      PROVE  BudgetOK'
  <2>1. \E cost \in Nat : budget >= cost /\ budget' = budget - cost
    BY <1>2, CompanionAssumption DEF begins_in
  <2>. QED BY <1>2, <2>1, CompanionAssumption DEF BudgetOK, begins_in
<1>. QED BY <1>1, <1>2 DEF BudgetOK

\* The prompt closes its client however it ends.
LEMMA PromptKept ==
  ASSUME PrInv, PromptStart \/ PromptStep \/ PromptRestart \/ UNCHANGED promptVars
  PROVE  PrInv'
<1>1. PromptTypeOK'
  BY DEF PrInv, PromptTypeOK, PromptStart, PromptStep, PromptRestart, promptVars,
         startPrompt, threadStarted, turnStarted, turnCompleted, completed, threadRead,
         requestFails, waitTimesOut, archiveThread, archived, closeClient, promptProcessExits
<1>2. PromptLeavesNoProcess'
  BY DEF PrInv, PromptLeavesNoProcess, PromptStart, PromptStep, PromptRestart, promptVars,
         startPrompt, threadStarted, turnStarted, turnCompleted, completed, threadRead,
         requestFails, waitTimesOut, archiveThread, archived, closeClient, promptProcessExits
<1>. QED BY <1>1, <1>2 DEF PrInv

\* A workspace that the server comes to know is new, or the server starts again, which
\* ends the terminals.
LEMMA WorkspacesComeNew ==
  ASSUME WInv, [Next]_vars
  PROVE  \/ WorkspacesRestart /\ TerminalsRestart
         \/ \A i \in known' : i \in known \/ object[i].path = 0
<1>1. CASE Restart
  BY <1>1 DEF Restart
<1>2. CASE \/ WorkspacesStart \/ WorkspacesStep
           \/ notWritten \/ \E i \in Ids : removeWorkspaceCascade(i)
           \/ UNCHANGED workspaceVars
  BY <1>2, PathsKept DEF WorkspacesNext
<1>3. \/ Restart
      \/ WorkspacesStart \/ WorkspacesStep
      \/ notWritten \/ \E i \in Ids : removeWorkspaceCascade(i)
      \/ UNCHANGED workspaceVars
  BY DEF Next, vars, Begin, Remove, GoOn, Close, onlyWorkspaces, onlyClients, onlyTerminals, onlyPrompt
<1>. QED BY <1>1, <1>2, <1>3

\* While the workspace is not there, no session comes; while it is, sessions keep tabs.
LEMMA HomeKept ==
  ASSUME ServerInv, [Next]_vars
  PROVE  HomeInv'
<1>1. \/ TerminalsStart \/ TerminalsStep \/ TerminalsClose \/ TerminalsRestart
      \/ UNCHANGED terminalVars
      \/ Home \in known /\ TerminalsServe /\ UNCHANGED workspaceVars
      \/ Home \notin known /\ TerminalsRefuse /\ UNCHANGED workspaceVars
  BY DEF Next, vars, Begin, Remove, GoOn, Close, Restart, onlyWorkspaces, onlyClients,
         onlyTerminals, onlyPrompt
<1>2. [WorkspacesNext]_workspaceVars
  BY NextParts DEF Parts
<1>3. \/ WorkspacesRestart /\ TerminalsRestart
      \/ \A i \in known' : i \in known \/ object[i].path = 0
  BY WorkspacesComeNew DEF ServerInv
<1>4. object[Home].path # 0 => object'[Home].path # 0
  BY <1>2, PathsKept, CompanionAssumption DEF ServerInv
<1>5. Home \in known => object[Home].path # 0
  BY DEF ServerInv, WInv, PathInv
<1>6. ASSUME object[Home].path = 0
      PROVE  \A t \in Terms : sessions'[t] = 0
  BY <1>1, <1>5, <1>6, NoneKept DEF ServerInv, HomeInv
<1>7. ASSUME Home \in known', Home \in known
      PROVE  SessionHasTab'
  <2>1. TInv /\ SessionHasTab
    BY <1>7 DEF ServerInv, HomeInv, TerminalHasTab
  <2>. QED BY <1>1, <1>7, <2>1, HasTabKept
<1>8. ASSUME Home \in known', Home \notin known
      PROVE  SessionHasTab'
  <2>1. CASE TerminalsRestart
    BY <2>1 DEF TerminalsRestart, SessionHasTab
  <2>2. CASE object[Home].path = 0
    BY <1>6, <2>2 DEF SessionHasTab
  <2>. QED BY <1>3, <1>8, <2>1, <2>2
<1>. QED BY <1>4, <1>6, <1>7, <1>8 DEF HomeInv, TerminalHasTab

LEMMA ServerInvKept ==
  ASSUME ServerInv, [Next]_vars
  PROVE  ServerInv' /\ NewSessions
<1>1. Parts
  BY NextParts
<1>2. WInv'
  BY <1>1, WorkspacesKept DEF ServerInv, Parts
<1>7. BInv'
  BY <1>1, BranchesKept DEF ServerInv, Parts
<1>3. PInv'
  BY <1>1, PoolStepsKept, ConnectSteps DEF ServerInv, Parts
<1>4. TInv' /\ NewSessions
  BY <1>1, TerminalsKept DEF ServerInv, Parts
<1>5. PrInv'
  BY <1>1, PromptKept DEF ServerInv, Parts
<1>6. HomeInv' /\ BudgetOK'
  BY HomeKept, BudgetKept DEF ServerInv
<1>. QED BY <1>2, <1>3, <1>4, <1>5, <1>6, <1>7 DEF ServerInv

LEMMA ServerInit ==
  ASSUME Init
  PROVE  ServerInv
<1>1. WInv
  BY WorkspacesStart_WInv DEF Init
<1>7. BInv
  BY WorkspacesStart_BInv DEF Init
<1>2. PInv
  BY PoolInit_PInv DEF Init
<1>3. TInv /\ SessionHasTab /\ \A t \in Terms : sessions[t] = 0
  BY TerminalsInit_TInv DEF Init, TerminalsInit
<1>4. PrInv
  BY DEF Init, PromptInit, PrInv, PromptTypeOK, PromptLeavesNoProcess
<1>5. BudgetOK
  BY CompanionAssumption DEF Init, BudgetOK
<1>6. HomeInv
  BY <1>3 DEF HomeInv, TerminalHasTab
<1>. QED BY <1>1, <1>2, <1>3, <1>4, <1>5, <1>6, <1>7 DEF ServerInv

-------------------------------------------------------------------------------
\* The invariant the theorems rest on.
THEOREM ServerInvariant == Spec => []ServerInv
<1>1. Init => ServerInv
  BY ServerInit
<1>2. ServerInv /\ [Next]_vars => ServerInv'
  BY ServerInvKept
<1>. QED BY <1>1, <1>2, PTL DEF Spec

\* The variables of the whole server have their types.
THEOREM ServerTypes == Spec => []TypeOK
<1>1. ServerInv => TypeOK
  BY DEF ServerInv, WInv, PInv, TInv, PrInv, BudgetOK, TypeOK
<1>. QED BY <1>1, ServerInvariant, PTL

\* remove_workspace: once its removal is answered, without an error, a workspace is neither in the map nor
\* in workspaces.json again, whatever calls about it are in progress and whenever the
\* server ends.
THEOREM RemovalIsFinal == Spec => []RemovedStays
<1>1. ServerInv => RemovedStays
  BY DEF ServerInv, WInv, RemovedInv, RemovedStays
<1>. QED BY <1>1, ServerInvariant, PTL

\* rename_worktree: the branch the server has for a worktree is the one git has checked
\* out there, except while a renaming waits for git's answer, and after renamings that
\* overlapped, or that a restart cut off from their write: one in progress, or one that
\* had failed.
THEOREM BranchesRecorded == Spec => []BranchRecorded
<1>1. ServerInv => BranchRecorded
  BY BInvRecords DEF ServerInv
<1>. QED BY <1>1, ServerInvariant, PTL

\* buildAppServerClient() and closeClients: a process that runs is that of a client the
\* server has and will close, or of one that a call used after it was forgotten.
THEOREM NoLostProcess == Spec => []ProcessesKnown
<1>1. ServerInv => ProcessesKnown
  BY DEF ServerInv, PInv
<1>. QED BY <1>1, ServerInvariant, PTL

\* appServerClientKey(): a call is served with arguments its workspace had since the call
\* began, unless the settings and an override changed meanwhile.
THEOREM OwnArguments == Spec => []ServedWithOwnArgs
<1>1. ServerInv => ServedWithOwnArgs
  BY PInvServes DEF ServerInv
<1>. QED BY <1>1, ServerInvariant, PTL

\* respond_to_server_request: the user's answer reaches the process that asked, if that
\* is there and nothing changed on the way.
THEOREM AnswersReachAsker == Spec => []AnswerReachesAsker
<1>1. ServerInv => AnswerReachesAsker
  BY DEF ServerInv, PInv
<1>. QED BY <1>1, ServerInvariant, PTL

\* terminal.ts: a shell that runs is found through its session, or was told to end.
THEOREM NoLostShell == Spec => []ShellsTracked
<1>1. ServerInv => ShellsTracked
  BY DEF ServerInv, TInv
<1>. QED BY <1>1, ServerInvariant, PTL

\* A session of a workspace that is there has a tab, is about to be closed, or was opened
\* by a call that came after the tab was closed.
THEOREM SessionsHaveTabs == Spec => []TerminalHasTab
<1>1. ServerInv => TerminalHasTab
  BY DEF ServerInv, HomeInv
<1>. QED BY <1>1, ServerInvariant, PTL

\* restoreOnly: a tab that waits to be restored gets no new shell, but for a call made
\* before the page was loaded again.
THEOREM RestoresOnlyAlive == Spec => RestoredOnlyIfAlive
<1>1. ServerInv /\ [Next]_vars =>
        [\A t \in restored : sessions'[t] \notin {0, sessions[t]} =>
           \E c \in calls \ calls' : c.term = t /\ c.old]_terminalVars
  BY ServerInvKept DEF NewSessions
<1>. QED BY <1>1, ServerInvariant, PTL DEF Spec, RestoredOnlyIfAlive

\* runDetachedBackgroundPrompt(): a prompt that has ended left no process.
THEOREM PromptsEndClean == Spec => []PromptLeavesNoProcess
<1>1. ServerInv => PromptLeavesNoProcess
  BY DEF ServerInv, PrInv
<1>. QED BY <1>1, ServerInvariant, PTL
===============================================================================

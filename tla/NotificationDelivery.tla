------------------------- MODULE NotificationDelivery -------------------------
(***************************************************************************)
(* AppServerRuntimeService.handleAppServerNotification() and               *)
(* ThreadStateService.applyAppServerNotificationToState(): a notification   *)
(* of the app-server is applied to the stored threads, saved if it changed *)
(* something that a restart needs, and only then broadcast.  The handler   *)
(* waits for the save and not for other handlers, so events that need no   *)
(* save overtake those that wait.  The saves of threads.json are one       *)
(* chain (JsonStorage); a save that fails rejects a promise that nobody    *)
(* handles, and the process ends.                                          *)
(***************************************************************************)
EXTENDS Naturals, Sequences

CONSTANTS
  Threads,    \* threads of the app-server
  First,      \* those in threads.json at the first start
  MaxNotes,   \* bound on the notifications it sends
  MaxCrashes  \* bound on the ends of the server process

NoThread == "none"

ASSUME DeliveryAssumption ==
  /\ First \subseteq Threads
  /\ NoThread \notin Threads
  /\ MaxNotes \in Nat /\ MaxCrashes \in Nat

VARIABLES
  up,        \* does the server process run?
  known,     \* threads in threadsById
  notes,     \* the notifications so far
  saving,    \* handlers that wait for their save, in the order of the chain
  disk,      \* the changes of notifications 1..disk are in threads.json
  shown,     \* events broadcast, oldest first
  crashes    \* ends of the process so far

deliveryVars == <<up, known, notes, saving, disk, shown, crashes>>

Ids == 1..MaxNotes

\* thread/started gives a thread to store; "saved" stands for the methods that
\* change it and save it (turn/completed, item/completed, ...), "plain" for those
\* that do not save (deltas, item/started), "global" for those of no thread.
Methods == {"thread/started", "saved", "plain", "global"}
Notes == [method : Methods \ {"global"}, thread : Threads]
           \cup [method : {"global"}, thread : {NoThread}]

\* resolveWorkspaceIdsForNotification() finds a workspace.
Routed(note) ==
  \/ note.thread \in known
  \/ note.method \in {"thread/started", "global"}

\* applyAppServerNotificationToState() calls persistThreads().
Saves(note) == note.method \in {"thread/started", "saved"}

DeliveryTypeOK ==
  /\ up \in BOOLEAN
  /\ known \subseteq Threads
  /\ notes \in Seq(Notes)
  /\ saving \in Seq(Ids)
  /\ disk \in 0..MaxNotes
  /\ shown \in Seq(Ids)
  /\ crashes \in 0..MaxCrashes

DeliveryInit ==
  /\ up = TRUE
  /\ known = First
  /\ notes = <<>> /\ saving = <<>> /\ shown = <<>>
  /\ disk = 0
  /\ crashes = 0

-------------------------------------------------------------------------------
\* Mutant: broadcast first, then save.
showsAtOnce_all(note) == Routed(note)

showsAtOnce(note) == Routed(note) /\ ~Saves(note)

\* A notification arrives: applied at once; broadcast at once too if nothing has
\* to be saved, and dropped if it belongs to no workspace.
arrive(note) ==
  LET n == Len(notes) + 1
  IN
  /\ up /\ n <= MaxNotes
  /\ notes' = Append(notes, note)
  /\ known' = IF note.method = "thread/started" THEN known \cup {note.thread} ELSE known
  /\ saving' = IF Routed(note) /\ Saves(note) THEN Append(saving, n) ELSE saving
  /\ shown' = IF showsAtOnce(note) THEN Append(shown, n) ELSE shown
  /\ UNCHANGED <<up, disk, crashes>>

\* Mutant: the saves do not wait for each other.
due_any == 1..Len(saving)

\* The place in the chain of the save whose turn it is, if any
due == IF saving = <<>> THEN {} ELSE {1}

\* A save ends, with the change of every notification that had arrived when its
\* text was made, and its handler goes on to broadcast.
saveEnds ==
  /\ up
  /\ \E i \in due :
       /\ \E upTo \in saving[i]..Len(notes) : disk' = IF upTo > disk THEN upTo ELSE disk
       /\ saving' = SubSeq(saving, 1, i - 1) \o SubSeq(saving, i + 1, Len(saving))
       /\ shown' = Append(shown, saving[i])
  /\ UNCHANGED <<up, known, notes, crashes>>

\* The process ends: a save failed, or it was killed.  The process manager starts
\* it again, with the threads of the file.
processEnds ==
  /\ up /\ crashes < MaxCrashes
  /\ up' = FALSE
  /\ saving' = <<>>
  /\ crashes' = crashes + 1
  /\ UNCHANGED <<known, notes, disk, shown>>

restart ==
  /\ ~up
  /\ up' = TRUE
  /\ known' = First \cup {notes[i].thread :
                          i \in {j \in 1..disk : notes[j].method = "thread/started"}}
  /\ UNCHANGED <<notes, saving, disk, shown, crashes>>

-------------------------------------------------------------------------------
Saved(n) == Saves(notes[n])

\* An event is shown to browsers only when what it changed is in threads.json, so
\* that nothing a user saw is forgotten by a restart.
SavedBeforeShown ==
  \A i \in 1..Len(shown) : Saved(shown[i]) => shown[i] <= disk

\* An event overtakes an earlier one only by needing no save itself while the
\* earlier one waits for its own: changes of threads are shown in their order.
Overtakes(j, i) == i < j /\ Saved(i) /\ ~Saved(j)

ShownInOrder ==
  \A x, y \in 1..Len(shown) :
    x < y => shown[x] < shown[y] \/ Overtakes(shown[x], shown[y])
===============================================================================

----------------------------- MODULE JsonStorage -----------------------------
(***************************************************************************)
(* CompanionStorage (server/storage.ts): how threads.json, workspaces.json *)
(* and settings.json are written.  Writes of one file wait for each other  *)
(* in a chain of promises (pendingJsonWrites); each writes a temporary     *)
(* file, syncs it, renames it over the old one and syncs the directory.    *)
(*                                                                         *)
(* persistThreads() passes an array of the objects that are in the map     *)
(* when it is called, but they are turned into text only when its turn has *)
(* come.  So the text has what was changed in place meanwhile (`live`      *)
(* objects), and of an object replaced meanwhile what it was then (`doc`). *)
(*                                                                         *)
(* One file is modelled, as a version number for each of its keys.  Writes *)
(* are numbered from 1; write 0 is the file found at the first start.  The *)
(* server may crash, and the machine lose power, between any two steps.    *)
(***************************************************************************)
EXTENDS Naturals

CONSTANTS
  Keys,         \* the keys of the record: thread ids
  MaxWrites,    \* bound on the calls of writeJsonFile
  MaxVersion    \* bound on the versions of a key

ASSUME StorageAssumption == MaxWrites \in Nat /\ MaxVersion \in Nat

VARIABLES
  memory,   \* the record in memory
  called,   \* number of calls of writeJsonFile
  tail,     \* the promise in pendingJsonWrites, 0 if there is none
  prev,     \* the write a write waits for, 0 if none
  phase,    \* how far a write is
  live,     \* keys whose object in the array is still the one in the map
  doc,      \* what a write has of the other keys, and of all once it is text
  ticket,   \* the record in memory when the write was called
  flushed,  \* the temporary files that have been synced
  owner,    \* the write whose file has the name
  kept,     \* the write whose file has the name after a power failure
  faulty    \* history: the writes of which a call of fs failed

vars == <<memory, called, tail, prev, phase, live, doc, ticket, flushed, owner, kept, faulty>>

Writes == 1..MaxWrites
Files == 0..MaxWrites
Records == [Keys -> 0..MaxVersion]
Zero == [key \in Keys |-> 0]
Leq(f, g) == \A key \in Keys : f[key] <= g[key]

\* "unsynced": the promise is fulfilled although the directory was not synced.
Settled == {"done", "unsynced", "failed", "lost"}
Phases == {"none", "queued", "text", "synced", "renamed"} \cup Settled

TypeOK ==
  /\ memory \in Records
  /\ called \in Files /\ tail \in Files
  /\ prev \in [Writes -> Files]
  /\ phase \in [Writes -> Phases]
  /\ live \in [Writes -> SUBSET Keys]
  /\ doc \in [Files -> Records]
  /\ ticket \in [Writes -> Records]
  /\ flushed \subseteq Writes
  /\ owner \in Files /\ kept \in Files
  /\ faulty \subseteq Writes

Init ==
  /\ memory = Zero
  /\ called = 0 /\ tail = 0
  /\ prev = [w \in Writes |-> 0]
  /\ phase = [w \in Writes |-> "none"]
  /\ live = [w \in Writes |-> {}]
  /\ doc = [w \in Files |-> Zero]
  /\ ticket = [w \in Writes |-> Zero]
  /\ flushed = {}
  /\ owner = 0 /\ kept = 0
  /\ faulty = {}

-------------------------------------------------------------------------------
\* An edit of the object in the map.
editInPlace(key) ==
  /\ memory[key] < MaxVersion
  /\ memory' = [memory EXCEPT ![key] = @ + 1]
  /\ UNCHANGED <<called, tail, prev, phase, live, doc, ticket, flushed, owner, kept, faulty>>

\* A new object takes the place of the old, which waiting arrays still have.
replaceObject(key) ==
  /\ memory[key] < MaxVersion
  /\ memory' = [memory EXCEPT ![key] = @ + 1]
  /\ live' = [w \in Writes |-> live[w] \ {key}]
  /\ doc' = [w \in Files |->
               IF w \in Writes /\ key \in live[w]
               THEN [doc[w] EXCEPT ![key] = memory[key]] ELSE doc[w]]
  /\ UNCHANGED <<called, tail, prev, phase, ticket, flushed, owner, kept, faulty>>

\* Mutant: the new write does not wait for the pending one.
writeJsonFile_unchained ==
  LET w == called + 1 IN
  /\ w \in Writes
  /\ called' = w
  /\ tail' = w
  /\ phase' = [phase EXCEPT ![w] = "queued"]
  /\ live' = [live EXCEPT ![w] = Keys]
  /\ ticket' = [ticket EXCEPT ![w] = memory]
  /\ UNCHANGED <<memory, prev, doc, flushed, owner, kept, faulty>>

\* writeJsonFile(): the write becomes the tail of the chain.
writeJsonFile ==
  LET w == called + 1 IN
  /\ w \in Writes
  /\ called' = w
  /\ tail' = w
  /\ prev' = [prev EXCEPT ![w] = tail]
  /\ phase' = [phase EXCEPT ![w] = "queued"]
  /\ live' = [live EXCEPT ![w] = Keys]
  /\ ticket' = [ticket EXCEPT ![w] = memory]
  /\ UNCHANGED <<memory, doc, flushed, owner, kept, faulty>>

\* Mutant: nobody waits.
itsTurn_atOnce(w) == phase[w] = "queued"

\* The turn of a write comes when the one before has ended, well or not.
itsTurn(w) ==
  /\ phase[w] = "queued"
  /\ prev[w] # 0 => phase[prev[w]] \in Settled

\* The promise settles; it leaves pendingJsonWrites if it is still the tail.
settle(w, outcome) ==
  /\ phase' = [phase EXCEPT ![w] = outcome]
  /\ live' = [live EXCEPT ![w] = {}]
  /\ tail' = IF tail = w THEN 0 ELSE tail
  /\ UNCHANGED <<memory, called, prev, doc, ticket, flushed, owner>>

\* Mutant: a write behind one that failed is rejected with it.
makeText_rejected(w) ==
  /\ itsTurn(w)
  /\ IF prev[w] # 0 /\ phase[prev[w]] = "failed"
     THEN settle(w, "failed") /\ UNCHANGED <<kept, faulty>>
     ELSE /\ phase' = [phase EXCEPT ![w] = "text"]
          /\ doc' = [doc EXCEPT ![w] = [key \in Keys |->
                        IF key \in live[w] THEN memory[key] ELSE doc[w][key]]]
          /\ live' = [live EXCEPT ![w] = {}]
          /\ UNCHANGED <<memory, called, tail, prev, ticket, flushed, owner, kept, faulty>>

\* JSON.stringify of the array, once the directory is known to be there.
makeText(w) ==
  /\ itsTurn(w)
  /\ phase' = [phase EXCEPT ![w] = "text"]
  /\ doc' = [doc EXCEPT ![w] = [key \in Keys |->
                IF key \in live[w] THEN memory[key] ELSE doc[w][key]]]
  /\ live' = [live EXCEPT ![w] = {}]
  /\ UNCHANGED <<memory, called, tail, prev, ticket, flushed, owner, kept, faulty>>

\* Mutant: the temporary file is not synced.
syncFile_closed(w) ==
  /\ phase[w] = "text"
  /\ phase' = [phase EXCEPT ![w] = "synced"]
  /\ UNCHANGED <<memory, called, tail, prev, live, doc, ticket, flushed, owner, kept, faulty>>

\* The temporary file is opened, written and synced.
syncFile(w) ==
  /\ phase[w] = "text"
  /\ phase' = [phase EXCEPT ![w] = "synced"]
  /\ flushed' = flushed \cup {w}
  /\ UNCHANGED <<memory, called, tail, prev, live, doc, ticket, owner, kept, faulty>>

renameFile(w) ==
  /\ phase[w] = "synced"
  /\ phase' = [phase EXCEPT ![w] = "renamed"]
  /\ owner' = w
  /\ UNCHANGED <<memory, called, tail, prev, live, doc, ticket, flushed, kept, faulty>>

\* Mutant: the directory is not synced at all.
syncDirectory_skipped(w) ==
  /\ phase[w] = "renamed"
  /\ UNCHANGED <<kept, faulty>>
  /\ settle(w, "done")

\* syncParentDirectory() hides its failure.
syncDirectory(w) ==
  /\ phase[w] = "renamed"
  /\ \/ kept' = owner /\ settle(w, "done")
     \/ kept' = kept /\ settle(w, "unsynced")
  /\ UNCHANGED faulty

\* mkdir, open, write, sync or rename fails: the old file keeps the name.
fail(w) ==
  /\ itsTurn(w) \/ phase[w] \in {"text", "synced"}
  /\ settle(w, "failed")
  /\ faulty' = faulty \cup {w}
  /\ UNCHANGED kept

-------------------------------------------------------------------------------
\* The system writes the directory back in its own time.
writeBack ==
  /\ kept # owner
  /\ kept' = owner
  /\ UNCHANGED <<memory, called, tail, prev, phase, live, doc, ticket, flushed, owner, faulty>>

\* The server starts again, with the file that has the name: initialize().
restart(file, losing) ==
  /\ memory' = doc[file]
  /\ owner' = file
  /\ tail' = 0
  /\ phase' = [w \in Writes |-> IF phase[w] \in losing THEN "lost" ELSE phase[w]]
  /\ live' = [w \in Writes |-> {}]
  /\ UNCHANGED <<called, prev, doc, ticket, flushed, kept, faulty>>

Unsettled == {"queued", "text", "synced", "renamed"}

crash == restart(owner, Unsettled)
powerLoss == restart(kept, Unsettled \cup {"unsynced"})

step(w) == makeText(w) \/ syncFile(w) \/ renameFile(w) \/ syncDirectory(w) \/ fail(w)

Next ==
  \/ \E key \in Keys : editInPlace(key) \/ replaceObject(key)
  \/ writeJsonFile
  \/ \E w \in Writes : step(w)
  \/ writeBack \/ crash \/ powerLoss

Spec == Init /\ [][Next]_vars

\* Calls of fs return.
FairSpec == Spec /\ \A w \in Writes : WF_vars(step(w))

-------------------------------------------------------------------------------
\* A caller that was told its write succeeded finds what it wrote in the file,
\* whatever other writes, failures and crashes came before, between and after
\* (`await writeJsonFile(...)` in the handlers); only one whose directory was not
\* synced may lose it, in a power failure.
AckedIsSaved ==
  \A w \in Writes :
    /\ phase[w] \in {"done", "unsynced"} => Leq(ticket[w], doc[owner])
    /\ phase[w] = "done" => Leq(ticket[w], doc[kept])

\* At most one write of the file is between its turn and its end, so that a
\* late rename never puts an older record over a newer one.
OneAtATime ==
  \A v, w \in Writes :
    /\ phase[v] \in {"text", "synced", "renamed"}
    /\ phase[w] \in {"text", "synced", "renamed"}
    => v = w

\* The file that a restart reads is complete, after a power failure too:
\* initialize() rejects, and the server does not start, if it cannot be parsed.
NeverTorn == {owner, kept} \subseteq flushed \cup {0}

\* While the server runs, a rename never takes a version out of the file, even
\* when an object was replaced while the array that has it was waiting.
FileGrows ==
  [][\A w \in Writes : renameFile(w) => Leq(doc[owner], doc[owner'])]_vars

\* Every write is made, or the server ends first, unless a file operation of its
\* own fails: a write is neither held up by the one before it nor rejected with it
\* (`previous.catch(() => {})`).
EveryWriteIsMade ==
  \A w \in Writes :
    (phase[w] = "queued") ~> \/ phase[w] \in {"done", "unsynced", "lost"}
                             \/ w \in faulty

\* The file as a record that survives: see DurableRecord.
StatusOf(w) ==
  CASE phase[w] \in Unsettled -> "open"
    [] phase[w] = "unsynced" -> "unsure"
    [] phase[w] = "done" -> "ok"
    [] OTHER -> phase[w]

Durable == INSTANCE DurableRecord WITH
  Saves <- Writes,
  saved <- doc[kept],
  status <- [w \in Writes |-> StatusOf(w)],
  needs <- ticket

ImplementsDurableRecord == Durable!Spec

===============================================================================

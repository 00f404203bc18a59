-------------------------- MODULE JsonStorageProofs --------------------------
(***************************************************************************)
(* Proofs about JsonStorage, for any set of keys and any bounds.           *)
(***************************************************************************)
EXTENDS JsonStorage, TLAPS

\* Writes are numbered without gaps; those not called yet have no objects.
Numbered == \A w \in Writes : phase[w] = "none" <=> w > called

\* The promise in pendingJsonWrites is that of the latest write; without it
\* every write has ended.
TailIsLast ==
  /\ tail \in {0, called}
  /\ tail = 0 => \A w \in Writes : phase[w] \notin Unsettled

\* A write whose turn has come, or that has ended, has none before it.
Ordered ==
  \A v, w \in Writes :
    v < w /\ phase[w] \notin {"none", "queued"} => phase[v] \notin Unsettled

\* A queued write waits for the one just before, if that has not ended.
Chained ==
  \A w \in Writes : phase[w] = "queued" =>
    \/ prev[w] = w - 1 /\ prev[w] # 0
    \/ prev[w] = 0 /\ \A v \in Writes : v < w => phase[v] \notin Unsettled

\* Only queued writes still hold objects; a file is the text of a write.
TextIsFixed ==
  /\ \A w \in Writes : phase[w] # "queued" => live[w] = {}
  /\ \A f \in {owner, kept} \ {0} : phase[f] \notin {"none", "queued"}
  /\ \A w \in Writes : phase[w] = "renamed" => owner = w

Flushes ==
  /\ \A w \in Writes : phase[w] \in {"synced", "renamed"} => w \in flushed
  /\ NeverTorn

QueueInv ==
  TypeOK /\ Numbered /\ TailIsLast /\ Ordered /\ Chained /\ TextIsFixed /\ Flushes

\* What the text of a write would be if it were made now.
Text(w) == [key \in Keys |-> IF key \in live[w] THEN memory[key] ELSE doc[w][key]]

\* Memory is ahead of every text, and a text of what its caller wrote.
TextBounds ==
  \A w \in Writes : phase[w] \in Unsettled =>
    Leq(ticket[w], Text(w)) /\ Leq(Text(w), memory) /\ Leq(doc[owner], Text(w))

\* A later write has the same objects or newer.
TextsGrow ==
  \A v, w \in Writes :
    v < w /\ phase[v] \in Unsettled /\ phase[w] \in Unsettled =>
      live[v] \subseteq live[w] /\ Leq(Text(v), Text(w))

FilesGrow == Leq(doc[kept], doc[owner]) /\ Leq(doc[owner], memory)

RecordInv == TextBounds /\ TextsGrow /\ FilesGrow /\ AckedIsSaved

IInv == QueueInv /\ RecordInv

-------------------------------------------------------------------------------
\* The records a step writes are records.
LEMMA TextType ==
  ASSUME TypeOK, NEW w \in Writes
  PROVE  Text(w) \in Records
BY StorageAssumption DEF TypeOK, Text, Records, Writes, Files

LEMMA TypeStep == TypeOK /\ [Next]_vars => TypeOK'
<1> SUFFICES ASSUME TypeOK, [Next]_vars PROVE TypeOK'
  OBVIOUS
<1> USE StorageAssumption DEF Writes, Files
<1>1. ASSUME NEW key \in Keys, editInPlace(key) PROVE TypeOK'
  <2>1. memory' \in Records
    BY <1>1 DEF TypeOK, Records, editInPlace
  <2>. QED BY <1>1, <2>1 DEF TypeOK, editInPlace
<1>2. ASSUME NEW key \in Keys, replaceObject(key) PROVE TypeOK'
  <2>1. memory' \in Records
    BY <1>2 DEF TypeOK, Records, replaceObject
  <2>2. live' \in [Writes -> SUBSET Keys]
    BY <1>2 DEF TypeOK, replaceObject
  <2>3. ASSUME NEW f \in Files PROVE doc'[f] \in Records
    BY <1>2 DEF TypeOK, Records, replaceObject
  <2>4. doc' \in [Files -> Records]
    BY <1>2, <2>3 DEF replaceObject
  <2>. QED BY <1>2, <2>1, <2>2, <2>4 DEF TypeOK, replaceObject
<1>3. ASSUME writeJsonFile PROVE TypeOK'
  BY <1>3 DEF TypeOK, writeJsonFile, Phases
<1>4. ASSUME NEW w \in Writes, makeText(w) PROVE TypeOK'
  <2>1. [key \in Keys |-> IF key \in live[w] THEN memory[key] ELSE doc[w][key]] \in Records
    BY TextType DEF Text
  <2>. QED BY <1>4, <2>1 DEF TypeOK, makeText, Phases
<1>5. ASSUME NEW w \in Writes, syncFile(w) PROVE TypeOK'
  BY <1>5 DEF TypeOK, syncFile, Phases
<1>6. ASSUME NEW w \in Writes, renameFile(w) PROVE TypeOK'
  BY <1>6 DEF TypeOK, renameFile, Phases
<1>7. ASSUME NEW w \in Writes, syncDirectory(w) PROVE TypeOK'
  <2>1. PICK outcome \in {"done", "unsynced"} : settle(w, outcome)
    BY <1>7 DEF syncDirectory
  <2>2. kept' \in {owner, kept} /\ faulty' = faulty
    BY <1>7 DEF syncDirectory
  <2>. QED BY <2>1, <2>2 DEF TypeOK, settle, Phases, Settled
<1>8. ASSUME NEW w \in Writes, fail(w) PROVE TypeOK'
  BY <1>8 DEF TypeOK, fail, settle, Phases, Settled
<1>9. ASSUME writeBack PROVE TypeOK'
  BY <1>9 DEF TypeOK, writeBack
<1>10. ASSUME NEW file \in {owner, kept}, NEW losing, restart(file, losing) PROVE TypeOK'
  BY <1>10 DEF TypeOK, restart, Phases, Settled
<1>11. CASE UNCHANGED vars
  BY <1>11 DEF TypeOK, vars
<1>. QED BY <1>1, <1>2, <1>3, <1>4, <1>5, <1>6, <1>7, <1>8, <1>9, <1>10, <1>11
         DEF Next, step, crash, powerLoss

\* Every variable is always of its type: how far each write is, the arrays it
\* waits with, and the records in memory and in the files.
THEOREM TypeCorrect == Spec => []TypeOK
<1>1. Init => TypeOK
  BY StorageAssumption DEF Init, TypeOK, Records, Zero, Phases, Writes, Files
<1>. QED BY <1>1, TypeStep, PTL DEF Spec

-------------------------------------------------------------------------------
\* No step disturbs the order of the queue.
LEMMA QueueStep == QueueInv /\ [Next]_vars => QueueInv'
<1> SUFFICES ASSUME QueueInv, [Next]_vars PROVE QueueInv'
  OBVIOUS
<1> DEFINE Rest == Numbered /\ TailIsLast /\ Ordered /\ Chained /\ TextIsFixed /\ Flushes
<1>0. TypeOK /\ TypeOK'
  BY TypeStep DEF QueueInv
<1> SUFFICES Rest'
  BY <1>0 DEF QueueInv
<1> USE StorageAssumption DEF Writes, Files, Unsettled, Settled, Phases
<1>1. ASSUME UNCHANGED <<called, tail, prev, phase, flushed, owner, kept>>,
             \A w \in Writes : live'[w] \subseteq live[w]
      PROVE  Rest'
  BY <1>1 DEF QueueInv, Numbered, TailIsLast, Ordered, Chained, TextIsFixed, Flushes, NeverTorn
<1>2. ASSUME NEW key \in Keys, editInPlace(key) \/ replaceObject(key) PROVE Rest'
  <2>1. \A w \in Writes : live'[w] \subseteq live[w]
    BY <1>0, <1>2 DEF editInPlace, replaceObject
  <2>. QED BY <1>1, <1>2, <2>1 DEF editInPlace, replaceObject
<1>3. ASSUME writeJsonFile PROVE Rest'
  <2> DEFINE w == called + 1
  <2>1. /\ w \in Writes /\ phase[w] = "none" /\ tail \in {0, called}
        /\ phase' = [phase EXCEPT ![w] = "queued"] /\ called' = w /\ tail' = w
        /\ prev' = [prev EXCEPT ![w] = tail] /\ live' = [live EXCEPT ![w] = Keys]
        /\ UNCHANGED <<flushed, owner, kept>>
    BY <1>0, <1>3 DEF QueueInv, Numbered, TailIsLast, TypeOK, writeJsonFile
  <2>2. Numbered'
    BY <1>0, <2>1 DEF QueueInv, Numbered, TypeOK
  <2>3. TailIsLast'
    BY <1>0, <2>1 DEF TailIsLast, TypeOK
  <2>4. Ordered'
    <3>1. \A v \in Writes : v > w => phase[v] = "none"
      BY <1>0, <2>1 DEF QueueInv, Numbered, TypeOK
    <3>2. Ordered
      BY DEF QueueInv
    <3>. QED BY <1>0, <2>1, <3>1, <3>2 DEF Ordered, TypeOK
  <2>5. Chained'
    <3>1. Chained /\ TailIsLast /\ \A v \in Writes : v > w => phase[v] = "none"
      BY <1>0, <2>1 DEF QueueInv, Numbered, TypeOK
    <3>2. ASSUME NEW u \in Writes, phase'[u] = "queued"
          PROVE  \/ prev'[u] = u - 1 /\ prev'[u] # 0
                 \/ prev'[u] = 0 /\ \A v \in Writes : v < u => phase'[v] \notin Unsettled
      <4>1. CASE u = w
        BY <1>0, <2>1, <3>1, <4>1 DEF TypeOK, TailIsLast
      <4>2. CASE u # w
        <5>1. phase[u] = "queued" /\ prev'[u] = prev[u] /\ u < w
          BY <1>0, <2>1, <3>1, <3>2, <4>2 DEF TypeOK
        <5>. QED BY <1>0, <2>1, <3>1, <5>1 DEF TypeOK, Chained
      <4>. QED BY <4>1, <4>2
    <3>. QED BY <3>2 DEF Chained
  <2>6. TextIsFixed'
    BY <1>0, <2>1 DEF QueueInv, TextIsFixed, TypeOK
  <2>7. Flushes'
    BY <1>0, <2>1 DEF QueueInv, Flushes, NeverTorn, TypeOK
  <2>. QED BY <2>2, <2>3, <2>4, <2>5, <2>6, <2>7
\* A write whose turn has come is the first that has not ended.
<1>4. ASSUME NEW w \in Writes, itsTurn(w) \/ phase[w] \in {"text", "synced", "renamed"}
      PROVE  \A v \in Writes : v < w => phase[v] \notin Unsettled
  <2>1. CASE phase[w] \in {"text", "synced", "renamed"}
    BY <2>1 DEF QueueInv, Ordered
  <2>2. CASE itsTurn(w) /\ prev[w] # 0
    <3>1. prev[w] = w - 1 /\ prev[w] \in Writes /\ phase[prev[w]] \in Settled
      BY <1>0, <2>2 DEF QueueInv, Chained, itsTurn, TypeOK
    <3>2. \A v \in Writes : v < prev[w] => phase[v] \notin Unsettled
      BY <3>1 DEF QueueInv, Ordered
    <3>. QED BY <3>1, <3>2
  <2>3. CASE itsTurn(w) /\ prev[w] = 0
    BY <2>3 DEF QueueInv, Chained, itsTurn
  <2>. QED BY <1>4, <2>1, <2>2, <2>3
\* So it may make progress or end.
<1>5. ASSUME NEW w \in Writes, itsTurn(w) \/ phase[w] \in {"text", "synced", "renamed"},
             NEW next \in Phases \ {"none", "queued"},
             phase' = [phase EXCEPT ![w] = next],
             UNCHANGED <<called, prev>>,
             \/ next \in Unsettled /\ UNCHANGED tail
             \/ next \in Settled /\ tail' = IF tail = w THEN 0 ELSE tail
      PROVE  Numbered' /\ TailIsLast' /\ Ordered' /\ Chained'
  <2>1. \A v \in Writes : v < w => phase[v] \notin Unsettled
    BY <1>4, <1>5
  <2>2. phase[w] \in Unsettled /\ \A v \in Writes : v # w => phase'[v] = phase[v]
    BY <1>0, <1>5 DEF TypeOK, itsTurn
  <2>3. phase'[w] = next /\ next \notin {"none", "queued"}
    BY <1>0, <1>5 DEF TypeOK
  <2>4. Numbered'
    BY <1>5, <2>2, <2>3 DEF QueueInv, Numbered
  <2>5. TailIsLast'
    <3>1. tail = called /\ tail # 0 /\ w <= called
      BY <1>0, <2>2 DEF QueueInv, TailIsLast, Numbered, TypeOK
    <3>2. CASE tail = w /\ next \in Settled
      <4>1. \A v \in Writes : v > w => phase[v] = "none"
        BY <1>0, <3>1, <3>2 DEF QueueInv, Numbered, TypeOK
      <4>2. tail' = 0 /\ called' = called
        BY <1>5, <3>2
      <4>3. ASSUME NEW v \in Writes PROVE phase'[v] \notin Unsettled
        <5>1. v < w \/ v > w \/ v = w
          OBVIOUS
        <5>. QED BY <2>1, <2>2, <2>3, <3>2, <4>1, <5>1
      <4>. QED BY <4>2, <4>3 DEF TailIsLast
    <3>3. CASE tail # w \/ next \in Unsettled
      BY <1>5, <3>1, <3>3 DEF TailIsLast
    <3>. QED BY <1>5, <3>2, <3>3
  <2>6. Ordered'
    <3> SUFFICES ASSUME NEW v \in Writes, NEW u \in Writes, v < u,
                        phase'[u] \notin {"none", "queued"}
                 PROVE  phase'[v] \notin Unsettled
      BY DEF Ordered
    <3>1. CASE u = w
      BY <2>1, <2>2, <3>1
    <3>2. CASE u # w
      BY <2>2, <3>2 DEF QueueInv, Ordered
    <3>. QED BY <3>1, <3>2
  <2>7. Chained'
    <3> SUFFICES ASSUME NEW u \in Writes, phase'[u] = "queued"
                 PROVE  \/ prev'[u] = u - 1 /\ prev'[u] # 0
                        \/ prev'[u] = 0 /\ \A v \in Writes : v < u => phase'[v] \notin Unsettled
      BY DEF Chained
    <3>1. u # w /\ phase[u] = "queued" /\ prev' = prev
      BY <1>5, <2>2, <2>3
    <3>2. CASE prev[u] = 0
      <4>1. \A v \in Writes : v < u => phase[v] \notin Unsettled
        BY <3>1, <3>2 DEF QueueInv, Chained
      <4>2. ~(w < u)
        BY <2>2, <4>1
      <4>. QED BY <2>2, <3>1, <3>2, <4>1, <4>2
    <3>3. CASE prev[u] # 0
      BY <3>1, <3>3 DEF QueueInv, Chained
    <3>. QED BY <3>2, <3>3
  <2>. QED BY <2>4, <2>5, <2>6, <2>7
<1>6. ASSUME NEW w \in Writes, makeText(w) PROVE Rest'
  <2>1. Numbered' /\ TailIsLast' /\ Ordered' /\ Chained'
    BY <1>5, <1>6 DEF makeText
  <2>2. TextIsFixed'
    BY <1>0, <1>6 DEF QueueInv, TextIsFixed, makeText, TypeOK
  <2>3. Flushes'
    BY <1>0, <1>6 DEF QueueInv, Flushes, NeverTorn, makeText, TypeOK
  <2>. QED BY <2>1, <2>2, <2>3
<1>7. ASSUME NEW w \in Writes, syncFile(w) PROVE Rest'
  <2>1. Numbered' /\ TailIsLast' /\ Ordered' /\ Chained'
    BY <1>5, <1>7 DEF syncFile
  <2>2. TextIsFixed'
    BY <1>0, <1>7 DEF QueueInv, TextIsFixed, syncFile, TypeOK
  <2>3. Flushes'
    BY <1>0, <1>7 DEF QueueInv, Flushes, NeverTorn, syncFile, TypeOK
  <2>. QED BY <2>1, <2>2, <2>3
<1>8. ASSUME NEW w \in Writes, renameFile(w) PROVE Rest'
  <2>1. Numbered' /\ TailIsLast' /\ Ordered' /\ Chained'
    BY <1>5, <1>8 DEF renameFile
  <2>2. TextIsFixed'
    <3>1. \A v \in Writes : v # w => phase[v] # "renamed"
      <4>1. ASSUME NEW v \in Writes, v # w, phase[v] = "renamed" PROVE FALSE
        <5>1. v < w \/ w < v
          BY <4>1
        <5>. QED BY <1>8, <4>1, <5>1 DEF QueueInv, Ordered, renameFile
      <4>. QED BY <4>1
    <3>. QED BY <1>0, <1>8, <3>1 DEF QueueInv, TextIsFixed, renameFile, TypeOK
  <2>3. Flushes'
    BY <1>0, <1>8 DEF QueueInv, Flushes, NeverTorn, renameFile, TypeOK
  <2>. QED BY <2>1, <2>2, <2>3
<1>9. ASSUME NEW w \in Writes, NEW outcome \in {"done", "unsynced", "failed"},
             itsTurn(w) \/ phase[w] \in {"text", "synced", "renamed"},
             settle(w, outcome), kept' \in {owner, kept}
      PROVE  Rest'
  <2>1. Numbered' /\ TailIsLast' /\ Ordered' /\ Chained'
    BY <1>5, <1>9 DEF settle
  <2>2. TextIsFixed'
    BY <1>0, <1>9 DEF QueueInv, TextIsFixed, settle, TypeOK
  <2>3. Flushes'
    BY <1>0, <1>9 DEF QueueInv, Flushes, NeverTorn, settle, TypeOK
  <2>. QED BY <2>1, <2>2, <2>3
<1>10. ASSUME writeBack PROVE Rest'
  BY <1>10 DEF QueueInv, Numbered, TailIsLast, Ordered, Chained, TextIsFixed, Flushes,
               NeverTorn, writeBack
<1>11. ASSUME NEW file \in {owner, kept},
              NEW losing \in {Unsettled, Unsettled \cup {"unsynced"}},
              restart(file, losing)
       PROVE  Rest'
  <2>1. \A w \in Writes : phase'[w] \notin Unsettled
    BY <1>0, <1>11 DEF restart, TypeOK
  <2>2. \A w \in Writes : phase'[w] = "none" <=> phase[w] = "none"
    BY <1>0, <1>11 DEF restart, TypeOK
  <2>3. Numbered' /\ TailIsLast' /\ Ordered' /\ Chained'
    BY <1>11, <2>1, <2>2 DEF QueueInv, Numbered, TailIsLast, Ordered, Chained, restart
  <2>4. TextIsFixed' /\ Flushes'
    BY <1>0, <1>11, <2>1, <2>2 DEF QueueInv, TextIsFixed, Flushes, NeverTorn, restart, TypeOK
  <2>. QED BY <2>3, <2>4
<1>12. ASSUME NEW w \in Writes, step(w) PROVE Rest'
  <2>1. CASE syncDirectory(w)
    BY <1>9, <2>1 DEF syncDirectory
  <2>2. CASE fail(w)
    BY <1>9, <2>2 DEF fail
  <2>. QED BY <1>6, <1>7, <1>8, <1>12, <2>1, <2>2 DEF step
<1>13. CASE UNCHANGED vars
  BY <1>1, <1>13 DEF vars
<1>. QED BY <1>2, <1>3, <1>10, <1>11, <1>12, <1>13 DEF Next, crash, powerLoss

-------------------------------------------------------------------------------
LEMMA LeqTransitive ==
  ASSUME NEW f \in Records, NEW g \in Records, NEW h \in Records, Leq(f, g), Leq(g, h)
  PROVE  Leq(f, h)
<1> SUFFICES ASSUME NEW key \in Keys PROVE f[key] <= h[key]
  BY DEF Leq
<1>1. f[key] <= g[key] /\ g[key] <= h[key]
  BY DEF Leq
<1>2. f[key] \in Nat /\ g[key] \in Nat /\ h[key] \in Nat
  BY StorageAssumption DEF Records
<1>. QED BY <1>1, <1>2

\* A step that changes no text, takes nothing out of memory and changes no file
\* keeps the bounds.
LEMMA SameTexts ==
  ASSUME IInv, TypeOK', UNCHANGED <<ticket, owner, kept>>, Leq(memory, memory'),
         \A w \in Writes :
           /\ phase'[w] \in Unsettled => phase[w] \in Unsettled /\ Text(w)' = Text(w)
           /\ phase'[w] \in {"done", "unsynced"} => phase'[w] = phase[w],
         \A v, w \in Writes :
           /\ v < w /\ phase'[v] \in Unsettled /\ phase'[w] \in Unsettled
           /\ live[v] \subseteq live[w]
           => live'[v] \subseteq live'[w],
         doc'[owner] = doc[owner], doc'[kept] = doc[kept]
  PROVE  RecordInv'
<1>1. TypeOK /\ TextBounds /\ TextsGrow /\ FilesGrow /\ AckedIsSaved
  BY DEF IInv, QueueInv, RecordInv
<1>2. memory \in Records /\ memory' \in Records /\ doc[owner] \in Records
  BY <1>1 DEF TypeOK
<1>3. TextBounds'
  <2> SUFFICES ASSUME NEW w \in Writes, phase'[w] \in Unsettled
               PROVE  /\ Leq(ticket'[w], Text(w)') /\ Leq(Text(w)', memory')
                      /\ Leq(doc'[owner'], Text(w)')
    BY DEF TextBounds, Leq
  <2>1. phase[w] \in Unsettled /\ Text(w)' = Text(w)
    OBVIOUS
  <2>2. Leq(ticket[w], Text(w)) /\ Leq(Text(w), memory) /\ Leq(doc[owner], Text(w))
    BY <1>1, <2>1 DEF TextBounds
  <2>3. Leq(Text(w), memory')
    BY <1>1, <1>2, <2>2, TextType, LeqTransitive
  <2>. QED BY <2>1, <2>2, <2>3
<1>4. TextsGrow'
  <2> SUFFICES ASSUME NEW v \in Writes, NEW w \in Writes, v < w,
                      phase'[v] \in Unsettled, phase'[w] \in Unsettled
               PROVE  live'[v] \subseteq live'[w] /\ Leq(Text(v)', Text(w)')
    BY DEF TextsGrow, Leq
  <2>1. live[v] \subseteq live[w] /\ Leq(Text(v), Text(w))
    BY <1>1 DEF TextsGrow
  <2>. QED BY <2>1
<1>5. FilesGrow'
  <2>1. Leq(doc[kept], doc[owner]) /\ Leq(doc[owner], memory)
    BY <1>1 DEF FilesGrow
  <2>2. Leq(doc[owner], memory')
    BY <1>2, <2>1, LeqTransitive
  <2>. QED BY <2>1, <2>2 DEF FilesGrow, Leq
<1>6. AckedIsSaved'
  BY <1>1 DEF AckedIsSaved, Leq
<1>. QED BY <1>3, <1>4, <1>5, <1>6 DEF RecordInv

\* No step breaks the bounds.
LEMMA RecordStep == IInv /\ [Next]_vars => RecordInv'
<1> SUFFICES ASSUME IInv, [Next]_vars PROVE RecordInv'
  OBVIOUS
<1>0. TypeOK /\ TypeOK' /\ QueueInv /\ QueueInv'
  BY TypeStep, QueueStep DEF IInv, QueueInv
<1>1. TextBounds /\ TextsGrow /\ FilesGrow /\ AckedIsSaved
  BY DEF IInv, RecordInv
<1>2. /\ memory \in Records /\ memory' \in Records
      /\ \A f \in Files : doc[f] \in Records
      /\ \A w \in Writes : Text(w) \in Records /\ ticket[w] \in Records
  BY <1>0, TextType DEF TypeOK
<1>3. \A f \in Records : Leq(f, f)
  BY StorageAssumption DEF Leq, Records
<1>4. \A w \in Writes : w \in Files
  BY StorageAssumption DEF Writes, Files
<1>5. \A w \in Writes : live[w] = {} => Text(w) = doc[w]
  BY <1>0, <1>4 DEF Text, TypeOK, Records
<1>6. \A f \in {owner, kept} : f # 0 => f \in Writes /\ live[f] = {}
  BY <1>0 DEF QueueInv, TextIsFixed, TypeOK, Writes, Files
<1>7. ASSUME NEW key \in Keys, editInPlace(key) PROVE RecordInv'
  <2>1. TextBounds' /\ TextsGrow'
    <3>1. /\ memory' = [memory EXCEPT ![key] = memory[key] + 1]
          /\ UNCHANGED <<phase, live, doc, ticket, owner>>
      BY <1>7 DEF editInPlace
    <3>2. ASSUME NEW w \in Writes, NEW k \in Keys
          PROVE  Text(w)'[k] = IF k \in live[w] THEN memory'[k] ELSE doc[w][k]
      BY <3>1 DEF Text
    <3>3. ASSUME NEW w \in Writes, NEW k \in Keys
          PROVE  Text(w)[k] = IF k \in live[w] THEN memory[k] ELSE doc[w][k]
      BY DEF Text
    <3>4. ASSUME NEW k \in Keys
          PROVE  memory[k] \in Nat /\ memory'[k] \in Nat /\ memory[k] <= memory'[k]
      BY <1>2, <3>1, StorageAssumption DEF Records
    <3>5. ASSUME NEW k \in Keys, NEW w \in Writes
          PROVE  /\ doc[w][k] \in Nat /\ ticket[w][k] \in Nat /\ doc[owner][k] \in Nat
                 /\ Text(w)[k] \in Nat
      BY <1>0, <1>2, <1>4, StorageAssumption DEF Records, TypeOK
    <3>6. TextBounds'
      <4> SUFFICES ASSUME NEW w \in Writes, phase[w] \in Unsettled, NEW k \in Keys
                   PROVE  /\ ticket[w][k] <= Text(w)'[k] /\ Text(w)'[k] <= memory'[k]
                          /\ doc[owner][k] <= Text(w)'[k]
        BY <3>1 DEF TextBounds, Leq
      <4>1. /\ ticket[w][k] <= Text(w)[k] /\ Text(w)[k] <= memory[k]
            /\ doc[owner][k] <= Text(w)[k]
        BY <1>1 DEF TextBounds, Leq
      <4>. QED BY <3>2, <3>3, <3>4, <3>5, <4>1
    <3>7. TextsGrow'
      <4> SUFFICES ASSUME NEW v \in Writes, NEW w \in Writes, v < w,
                          phase[v] \in Unsettled, phase[w] \in Unsettled
                   PROVE  live[v] \subseteq live[w] /\ \A k \in Keys : Text(v)'[k] <= Text(w)'[k]
        BY <3>1 DEF TextsGrow, Leq
      <4>1. live[v] \subseteq live[w] /\ Leq(Text(v), Text(w)) /\ Leq(Text(v), memory)
        BY <1>1 DEF TextsGrow, TextBounds
      <4>2. ASSUME NEW k \in Keys PROVE Text(v)'[k] <= Text(w)'[k]
        <5>1. Text(v)[k] <= Text(w)[k] /\ Text(v)[k] <= memory[k]
          BY <4>1 DEF Leq
        <5>2. k \in live[v] => k \in live[w]
          BY <4>1
        <5>. QED BY <3>2, <3>3, <3>4, <3>5, <5>1, <5>2
      <4>. QED BY <4>1, <4>2
    <3>. QED BY <3>6, <3>7
  <2>2. Leq(memory, memory')
    BY <1>2, <1>7, StorageAssumption DEF editInPlace, Leq, Records
  <2>3. FilesGrow'
    <3>1. Leq(doc[owner], memory')
      BY <1>0, <1>1, <1>2, <2>2, LeqTransitive DEF FilesGrow, TypeOK
    <3>. QED BY <1>1, <1>7, <3>1 DEF FilesGrow, editInPlace, Leq
  <2>4. AckedIsSaved'
    BY <1>1, <1>7 DEF AckedIsSaved, editInPlace, Leq
  <2>. QED BY <2>1, <2>3, <2>4 DEF RecordInv
<1>8. ASSUME NEW key \in Keys, replaceObject(key) PROVE RecordInv'
  <2>1. UNCHANGED <<phase, ticket, owner, kept>>
    BY <1>8 DEF replaceObject
  <2>2. Leq(memory, memory')
    BY <1>2, <1>8, StorageAssumption DEF replaceObject, Leq, Records
  <2>3. ASSUME NEW w \in Writes PROVE Text(w)' = Text(w)
    <3>1. live'[w] = live[w] \ {key} /\ memory' = [memory EXCEPT ![key] = memory[key] + 1]
      BY <1>8 DEF replaceObject
    <3>2. doc'[w] = IF key \in live[w] THEN [doc[w] EXCEPT ![key] = memory[key]] ELSE doc[w]
      BY <1>4, <1>8 DEF replaceObject
    <3>3. ASSUME NEW k \in Keys
          PROVE  (IF k \in live'[w] THEN memory'[k] ELSE doc'[w][k])
                   = (IF k \in live[w] THEN memory[k] ELSE doc[w][k])
      <4>1. k # key => memory'[k] = memory[k]
        BY <1>2, <3>1 DEF Records
      <4>2. CASE key \in live[w]
        <5>1. doc'[w][k] = IF k = key THEN memory[key] ELSE doc[w][k]
          BY <1>2, <1>4, <3>2, <4>2 DEF Records
        <5>. QED BY <3>1, <4>1, <4>2, <5>1
      <4>3. CASE key \notin live[w]
        BY <3>1, <3>2, <4>1, <4>3
      <4>. QED BY <4>2, <4>3
    <3>. QED BY <3>3 DEF Text
  <2>4. \A v, w \in Writes : live[v] \subseteq live[w] => live'[v] \subseteq live'[w]
    BY <1>8 DEF replaceObject
  <2>5. ASSUME NEW f \in {owner, kept} PROVE doc'[f] = doc[f]
    <3>1. f \in Files
      BY <1>0 DEF TypeOK
    <3>. QED BY <1>6, <1>8, <3>1 DEF replaceObject, Writes
  <2>. QED BY <1>0, <2>1, <2>2, <2>3, <2>4, <2>5, SameTexts DEF Settled
<1>9. ASSUME writeJsonFile PROVE RecordInv'
  <2>0. PICK w \in Writes : w = called + 1
    BY <1>9 DEF writeJsonFile
  <2>1. /\ phase[w] = "none"
        /\ phase' = [phase EXCEPT ![w] = "queued"] /\ live' = [live EXCEPT ![w] = Keys]
        /\ ticket' = [ticket EXCEPT ![w] = memory]
        /\ UNCHANGED <<memory, doc, owner, kept>>
    BY <1>0, <1>9, <2>0 DEF QueueInv, Numbered, TypeOK, writeJsonFile, Writes, Files
  <2>2. \A v \in Writes : v # w => Text(v)' = Text(v)
    BY <1>0, <2>1 DEF Text, TypeOK
  <2>3. Text(w)' = memory
    BY <1>0, <1>2, <2>1 DEF Text, TypeOK, Records
  <2>4. \A v \in Writes : phase[v] \in Unsettled => v < w
    BY <1>0, <2>0, SMTT(30) DEF QueueInv, Numbered, TypeOK, Writes, Files, Unsettled
  <2>5. /\ \A v \in Writes \ {w} : phase'[v] = phase[v] /\ live'[v] = live[v]
                                   /\ ticket'[v] = ticket[v]
        /\ phase'[w] = "queued" /\ live'[w] = Keys /\ ticket'[w] = memory
    BY <1>0, <2>1 DEF TypeOK
  <2>6. TextBounds'
    <3> SUFFICES ASSUME NEW v \in Writes, phase'[v] \in Unsettled
                 PROVE  /\ Leq(ticket'[v], Text(v)') /\ Leq(Text(v)', memory)
                        /\ Leq(doc[owner], Text(v)')
      BY <2>1 DEF TextBounds, Leq
    <3>1. CASE v = w
      BY <1>1, <1>2, <1>3, <2>3, <2>5, <3>1 DEF FilesGrow
    <3>2. CASE v # w
      BY <1>1, <2>2, <2>5, <3>2 DEF TextBounds
    <3>. QED BY <3>1, <3>2
  <2>7. TextsGrow'
    <3> SUFFICES ASSUME NEW u \in Writes, NEW v \in Writes, u < v,
                        phase'[u] \in Unsettled, phase'[v] \in Unsettled
                 PROVE  live'[u] \subseteq live'[v] /\ Leq(Text(u)', Text(v)')
      BY DEF TextsGrow, Leq
    <3>1. u # w
      BY <1>0, <2>4, <2>5 DEF Writes, TypeOK, Files
    <3>2. CASE v = w
      BY <1>0, <1>1, <2>2, <2>3, <2>5, <3>1, <3>2 DEF TextBounds, TypeOK
    <3>3. CASE v # w
      BY <1>1, <2>2, <2>5, <3>1, <3>3 DEF TextsGrow
    <3>. QED BY <3>2, <3>3
  <2>8. FilesGrow'
    BY <1>1, <2>1 DEF FilesGrow, Leq
  <2>9. AckedIsSaved'
    BY <1>1, <2>1, <2>5 DEF AckedIsSaved, Leq
  <2>. QED BY <2>6, <2>7, <2>8, <2>9 DEF RecordInv
<1>10. ASSUME NEW w \in Writes, makeText(w) PROVE RecordInv'
  <2>1. /\ phase' = [phase EXCEPT ![w] = "text"] /\ phase[w] = "queued"
        /\ doc' = [doc EXCEPT ![w] = Text(w)] /\ live' = [live EXCEPT ![w] = {}]
        /\ UNCHANGED <<memory, ticket, owner, kept>>
    BY <1>10 DEF makeText, Text, itsTurn
  <2>2. ASSUME NEW v \in Writes PROVE Text(v)' = Text(v)
    <3>1. CASE v = w
      <4>1. live'[v] = {} /\ doc'[v] = Text(v)
        BY <1>0, <1>4, <2>1, <3>1 DEF TypeOK
      <4>. QED BY <1>2, <4>1 DEF Text, Records
    <3>2. CASE v # w
      <4>1. live'[v] = live[v] /\ doc'[v] = doc[v]
        BY <1>0, <1>4, <2>1, <3>2 DEF TypeOK
      <4>. QED BY <2>1, <4>1 DEF Text
    <3>. QED BY <3>1, <3>2
  <2>3. \A v \in Writes : v # w => phase'[v] = phase[v]
    BY <1>0, <2>1 DEF TypeOK
  <2>4. phase'[w] = "text" /\ phase[w] = "queued"
    BY <1>0, <2>1 DEF TypeOK
  <2>5. ASSUME NEW u \in Writes, NEW v \in Writes, u < v, phase'[u] \in Unsettled,
               phase'[v] \in Unsettled, live[u] \subseteq live[v]
        PROVE  live'[u] \subseteq live'[v]
    <3>1. v # w
      <4>1. phase'[w] \notin {"none", "queued"}
        BY <2>4
      <4>. QED BY <1>0, <2>5, <4>1 DEF QueueInv, Ordered
    <3>. QED BY <1>0, <2>1, <2>5, <3>1 DEF TypeOK
  <2>6. doc'[owner] = doc[owner] /\ doc'[kept] = doc[kept]
    <3>1. \A f \in {owner, kept} : f # w
      BY <1>0, <2>4 DEF QueueInv, TextIsFixed, Writes
    <3>. QED BY <1>0, <1>4, <2>1, <3>1 DEF TypeOK
  <2>7. Leq(memory, memory')
    BY <1>2, <1>3, <2>1
  <2>8. ASSUME NEW v \in Writes
        PROVE  /\ phase'[v] \in Unsettled => phase[v] \in Unsettled
               /\ phase'[v] \in {"done", "unsynced"} => phase'[v] = phase[v]
    BY <2>3, <2>4 DEF Unsettled
  <2>. QED BY <1>0, <2>1, <2>2, <2>5, <2>6, <2>7, <2>8, SameTexts
<1>11. ASSUME NEW w \in Writes, syncFile(w) PROVE RecordInv'
  <2>1. /\ phase' = [phase EXCEPT ![w] = "synced"] /\ phase[w] = "text"
        /\ UNCHANGED <<memory, live, doc, ticket, owner, kept>>
    BY <1>11 DEF syncFile
  <2>2. \A v \in Writes : Text(v)' = Text(v)
    BY <2>1 DEF Text
  <2>3. ASSUME NEW v \in Writes
        PROVE  /\ phase'[v] \in Unsettled => phase[v] \in Unsettled
               /\ phase'[v] \in {"done", "unsynced"} => phase'[v] = phase[v]
    BY <1>0, <2>1 DEF Unsettled, TypeOK
  <2>4. Leq(memory, memory')
    BY <1>2, <1>3, <2>1
  <2>. QED BY <1>0, <2>1, <2>2, <2>3, <2>4, SameTexts
<1>12. ASSUME NEW w \in Writes, phase[w] \in Unsettled \ {"queued"}
       PROVE  /\ Text(w) = doc[w] /\ Leq(ticket[w], doc[w]) /\ Leq(doc[w], memory)
              /\ Leq(doc[owner], doc[w])
              /\ \A v \in Writes : phase[v] \in Unsettled => Leq(doc[w], Text(v))
  <2>1. Text(w) = doc[w]
    BY <1>0, <1>5, <1>12 DEF QueueInv, TextIsFixed
  <2>2. Leq(ticket[w], doc[w]) /\ Leq(doc[w], memory) /\ Leq(doc[owner], doc[w])
    BY <1>1, <1>12, <2>1 DEF TextBounds
  <2>3. ASSUME NEW v \in Writes, phase[v] \in Unsettled PROVE Leq(doc[w], Text(v))
    <3>1. CASE v < w
      BY <1>0, <1>12, <2>3, <3>1 DEF QueueInv, Ordered, Unsettled
    <3>2. CASE v = w
      BY <1>2, <1>3, <2>1, <3>2
    <3>3. CASE v > w
      BY <1>1, <1>12, <2>1, <2>3, <3>3 DEF TextsGrow, Writes
    <3>. QED BY <3>1, <3>2, <3>3, StorageAssumption DEF Writes
  <2>. QED BY <2>1, <2>2, <2>3
<1>13. ASSUME NEW w \in Writes, renameFile(w) PROVE RecordInv'
  <2>1. /\ phase' = [phase EXCEPT ![w] = "renamed"] /\ phase[w] = "synced" /\ owner' = w
        /\ UNCHANGED <<memory, live, doc, ticket, kept>>
    BY <1>13 DEF renameFile
  <2>2. /\ Leq(doc[w], memory) /\ Leq(doc[owner], doc[w])
        /\ \A v \in Writes : phase[v] \in Unsettled => Leq(doc[w], Text(v))
    BY <1>12, <2>1 DEF Unsettled
  <2>3. \A v \in Writes : Text(v)' = Text(v)
    BY <2>1 DEF Text
  <2>4. ASSUME NEW v \in Writes
        PROVE  /\ phase'[v] \in Unsettled => phase[v] \in Unsettled
               /\ phase'[v] \in {"done", "unsynced"} => phase'[v] = phase[v]
    BY <1>0, <2>1 DEF Unsettled, TypeOK
  <2>5. TextBounds'
    BY <1>1, <2>1, <2>2, <2>3, <2>4 DEF TextBounds, Leq
  <2>6. TextsGrow'
    BY <1>1, <2>1, <2>3, <2>4 DEF TextsGrow, Leq
  <2>7. owner \in Files /\ kept \in Files /\ w \in Files
    BY <1>0, <1>4 DEF TypeOK
  <2>8. FilesGrow'
    <3>1. Leq(doc[kept], doc[w])
      BY <1>1, <1>2, <2>2, <2>7, LeqTransitive DEF FilesGrow
    <3>. QED BY <2>1, <2>2, <3>1 DEF FilesGrow, Leq
  <2>9. AckedIsSaved'
    <3> SUFFICES ASSUME NEW v \in Writes
                 PROVE  /\ phase'[v] \in {"done", "unsynced"} => Leq(ticket[v], doc[w])
                        /\ phase'[v] = "done" => Leq(ticket[v], doc[kept])
      BY <2>1 DEF AckedIsSaved, Leq
    <3>1. CASE phase'[v] \in {"done", "unsynced"}
      <4>1. Leq(ticket[v], doc[owner]) /\ (phase[v] = "done" => Leq(ticket[v], doc[kept]))
        BY <1>1, <2>4, <3>1 DEF AckedIsSaved
      <4>. QED BY <1>2, <2>2, <2>4, <2>7, <3>1, <4>1, LeqTransitive
    <3>. QED BY <3>1
  <2>. QED BY <2>5, <2>6, <2>8, <2>9 DEF RecordInv
<1>14. ASSUME NEW w \in Writes, syncDirectory(w) PROVE RecordInv'
  <2>1. /\ phase[w] = "renamed" /\ owner = w
        /\ live' = [live EXCEPT ![w] = {}]
        /\ UNCHANGED <<memory, doc, ticket, owner>>
        /\ \/ kept' = w /\ phase' = [phase EXCEPT ![w] = "done"]
           \/ kept' = kept /\ phase' = [phase EXCEPT ![w] = "unsynced"]
    BY <1>0, <1>14 DEF syncDirectory, settle, QueueInv, TextIsFixed
  <2>2. Leq(ticket[w], doc[w]) /\ Leq(doc[w], memory) /\ Leq(doc[w], doc[w])
    BY <1>2, <1>3, <1>4, <1>12, <2>1 DEF Unsettled
  <2>3. ASSUME NEW v \in Writes
        PROVE  /\ phase'[v] \in Unsettled => v # w /\ phase'[v] = phase[v]
                                             /\ live'[v] = live[v] /\ Text(v)' = Text(v)
               /\ v # w => phase'[v] = phase[v]
    BY <1>0, <2>1 DEF Unsettled, TypeOK, Text
  <2>4. TextBounds'
    BY <1>1, <2>1, <2>3 DEF TextBounds, Leq
  <2>5. TextsGrow'
    BY <1>1, <2>1, <2>3 DEF TextsGrow, Leq
  <2>6. kept' = w \/ kept' = kept
    BY <2>1
  <2>7. FilesGrow'
    BY <1>1, <2>1, <2>2, <2>6 DEF FilesGrow, Leq
  <2>8. AckedIsSaved'
    <3> SUFFICES ASSUME NEW v \in Writes
                 PROVE  /\ phase'[v] \in {"done", "unsynced"} => Leq(ticket[v], doc[w])
                        /\ phase'[v] = "done" => Leq(ticket[v], doc[kept'])
      BY <2>1 DEF AckedIsSaved, Leq
    <3>1. CASE v = w
      BY <1>0, <2>1, <2>2, <3>1 DEF TypeOK
    <3>2. CASE v # w
      <4>1. /\ phase'[v] \in {"done", "unsynced"} => Leq(ticket[v], doc[w])
            /\ phase'[v] = "done" => Leq(ticket[v], doc[kept])
        BY <1>1, <2>1, <2>3, <3>2 DEF AckedIsSaved
      <4>. QED BY <2>6, <4>1
    <3>. QED BY <3>1, <3>2
  <2>. QED BY <2>4, <2>5, <2>7, <2>8 DEF RecordInv
<1>15. ASSUME NEW w \in Writes, fail(w) PROVE RecordInv'
  <2>1. /\ phase' = [phase EXCEPT ![w] = "failed"] /\ live' = [live EXCEPT ![w] = {}]
        /\ UNCHANGED <<memory, doc, ticket, owner, kept>>
    BY <1>15 DEF fail, settle
  <2>2. ASSUME NEW v \in Writes
        PROVE  /\ phase'[v] \in Unsettled => /\ phase[v] \in Unsettled /\ Text(v)' = Text(v)
                                             /\ live'[v] = live[v]
               /\ phase'[v] \in {"done", "unsynced"} => phase'[v] = phase[v]
    BY <1>0, <2>1 DEF Unsettled, TypeOK, Text
  <2>3. Leq(memory, memory')
    BY <1>2, <1>3, <2>1
  <2>. QED BY <1>0, <2>1, <2>2, <2>3, SameTexts
<1>16. ASSUME writeBack PROVE RecordInv'
  <2>1. kept' = owner /\ UNCHANGED <<memory, phase, live, doc, ticket, owner>>
    BY <1>16 DEF writeBack
  <2>2. TextBounds' /\ TextsGrow'
    BY <1>1, <2>1 DEF TextBounds, TextsGrow, Text, Leq
  <2>3. FilesGrow'
    <3>1. Leq(doc[owner], doc[owner])
      BY <1>0, <1>2, <1>3 DEF TypeOK
    <3>. QED BY <1>1, <2>1, <3>1 DEF FilesGrow, Leq
  <2>4. AckedIsSaved'
    BY <1>1, <2>1 DEF AckedIsSaved, Leq
  <2>. QED BY <2>2, <2>3, <2>4 DEF RecordInv
<1>17. ASSUME NEW file \in {owner, kept}, NEW losing, Unsettled \subseteq losing,
              "done" \notin losing, file = owner \/ "unsynced" \in losing,
              restart(file, losing)
       PROVE  RecordInv'
  <2>1. /\ memory' = doc[file] /\ owner' = file
        /\ phase' = [w \in Writes |-> IF phase[w] \in losing THEN "lost" ELSE phase[w]]
        /\ UNCHANGED <<doc, ticket, kept>>
    BY <1>17 DEF restart
  <2>2. ASSUME NEW w \in Writes
        PROVE  /\ phase'[w] \notin Unsettled
               /\ phase'[w] \in {"done", "unsynced"} =>
                    phase[w] = phase'[w] /\ phase[w] \notin losing
    BY <1>17, <2>1 DEF Unsettled
  <2>3. TextBounds' /\ TextsGrow'
    BY <2>2 DEF TextBounds, TextsGrow
  <2>4. FilesGrow'
    <3>1. Leq(doc[file], doc[file]) /\ Leq(doc[kept], doc[file])
      BY <1>0, <1>1, <1>2, <1>3, <1>17 DEF FilesGrow, TypeOK
    <3>. QED BY <2>1, <3>1 DEF FilesGrow, Leq
  <2>5. AckedIsSaved'
    <3> SUFFICES ASSUME NEW w \in Writes
                 PROVE  /\ phase'[w] \in {"done", "unsynced"} => Leq(ticket[w], doc[file])
                        /\ phase'[w] = "done" => Leq(ticket[w], doc[kept])
      BY <2>1 DEF AckedIsSaved, Leq
    <3>1. CASE file = owner
      BY <1>1, <2>2, <3>1 DEF AckedIsSaved
    <3>2. CASE file = kept /\ "unsynced" \in losing
      BY <1>1, <2>2, <3>2 DEF AckedIsSaved
    <3>. QED BY <1>17, <3>1, <3>2
  <2>. QED BY <2>3, <2>4, <2>5 DEF RecordInv
<1>18. ASSUME crash PROVE RecordInv'
  BY <1>17, <1>18 DEF crash, Unsettled
<1>19. ASSUME powerLoss PROVE RecordInv'
  BY <1>17, <1>19 DEF powerLoss, Unsettled
<1>20. CASE UNCHANGED vars
  BY <1>1, <1>20 DEF vars, RecordInv, TextBounds, TextsGrow, FilesGrow, AckedIsSaved, Text, Leq
<1>. QED BY <1>7, <1>8, <1>9, <1>10, <1>11, <1>13, <1>14, <1>15, <1>16, <1>18, <1>19, <1>20
         DEF Next, step

-------------------------------------------------------------------------------
LEMMA Inductive == Spec => []IInv
<1>1. Init => IInv
  <2> SUFFICES ASSUME Init PROVE IInv
    OBVIOUS
  <2>1. TypeOK
    BY StorageAssumption DEF Init, TypeOK, Records, Zero, Phases, Writes, Files
  <2>2. QueueInv
    BY <2>1, StorageAssumption DEF Init, QueueInv, Numbered, TailIsLast, Ordered, Chained,
       TextIsFixed, Flushes, NeverTorn, Unsettled, Writes, Files
  <2>3. RecordInv
    BY <2>1, StorageAssumption DEF Init, RecordInv, TextBounds, TextsGrow, FilesGrow,
       AckedIsSaved, Leq, Zero, Unsettled, Files
  <2>. QED BY <2>2, <2>3 DEF IInv
<1>2. IInv /\ [Next]_vars => IInv'
  BY QueueStep, RecordStep DEF IInv
<1>. QED BY <1>1, <1>2, PTL DEF Spec

\* What a caller was told is saved is in the file, and after a power failure too
\* if the directory was synced, for any number of writes, failures and restarts.
THEOREM Acked == Spec => []AckedIsSaved
<1>1. IInv => AckedIsSaved
  BY DEF IInv, RecordInv
<1>. QED BY <1>1, Inductive, PTL

\* The file that a restart reads is complete.
THEOREM Whole == Spec => []NeverTorn
<1>1. IInv => NeverTorn
  BY DEF IInv, QueueInv, Flushes
<1>. QED BY <1>1, Inductive, PTL

\* The promise chain of pendingJsonWrites never lets two writes run at once.
THEOREM Serial == Spec => []OneAtATime
<1>1. IInv => OneAtATime
  <2> SUFFICES ASSUME IInv, NEW v \in Writes, NEW w \in Writes, v # w,
                      phase[v] \in {"text", "synced", "renamed"},
                      phase[w] \in {"text", "synced", "renamed"}
               PROVE  FALSE
    BY DEF OneAtATime
  <2>1. v < w \/ w < v
    BY StorageAssumption DEF Writes
  <2>. QED BY <2>1 DEF IInv, QueueInv, Ordered, Unsettled
<1>. QED BY <1>1, Inductive, PTL

\* No rename puts an older version of a thread over a newer one.
THEOREM Grows == Spec => FileGrows
<1>1. IInv /\ [Next]_vars =>
        [\A w \in Writes : renameFile(w) => Leq(doc[owner], doc[owner'])]_vars
  <2> SUFFICES ASSUME IInv, NEW w \in Writes, renameFile(w)
               PROVE  Leq(doc[owner], doc[owner'])
    OBVIOUS
  <2>1. phase[w] = "synced" /\ owner' = w
    BY DEF renameFile
  <2>2. live[w] = {} /\ doc[w] \in Records
    BY <2>1, StorageAssumption DEF IInv, QueueInv, TextIsFixed, TypeOK, Writes, Files
  <2>3. Text(w) = doc[w]
    BY <2>2 DEF Text, Records
  <2>4. Leq(doc[owner], Text(w))
    BY <2>1 DEF IInv, RecordInv, TextBounds, Unsettled
  <2>. QED BY <2>1, <2>3, <2>4
<1>. QED BY <1>1, Inductive, PTL DEF Spec, FileGrows

-------------------------------------------------------------------------------
\* A write that ends, or starts, is seen as one entry of the abstract status.
LEMMA StatusStep ==
  ASSUME TypeOK, NEW w \in Writes, NEW next \in Phases,
         phase' = [phase EXCEPT ![w] = next]
  PROVE  /\ StatusOf(w)' = CASE next \in Unsettled -> "open"
                             [] next = "unsynced" -> "unsure"
                             [] next = "done" -> "ok"
                             [] OTHER -> next
         /\ \A v \in Writes : v # w => StatusOf(v)' = StatusOf(v)
BY DEF TypeOK, StatusOf

\* Steps inside a write change nothing of the abstract record.
LEMMA Stutter ==
  ASSUME TypeOK, NEW w \in Writes, phase[w] \in Unsettled, NEW next \in Unsettled,
         phase' = [phase EXCEPT ![w] = next],
         UNCHANGED <<memory, ticket, kept>>, doc'[kept] = doc[kept]
  PROVE  UNCHANGED Durable!recordVars
<1>1. next \in Phases
  BY DEF Phases, Unsettled
<1>2. \A v \in Writes : StatusOf(v)' = StatusOf(v)
  <2>1. StatusOf(w) = "open" /\ StatusOf(w)' = "open"
    BY <1>1, StatusStep DEF StatusOf, Unsettled
  <2>. QED BY <1>1, <2>1, StatusStep
<1>. QED BY <1>2 DEF Durable!recordVars

\* A write that ends is an answer of the abstract record.
LEMMA Ends ==
  ASSUME TypeOK, NEW w \in Writes, phase[w] \in Unsettled,
         NEW next \in {"done", "unsynced", "failed"},
         phase' = [phase EXCEPT ![w] = next],
         UNCHANGED <<memory, doc, ticket>>,
         Leq(doc[kept], doc[kept']), Leq(doc[kept'], memory),
         next = "done" => Leq(ticket[w], doc[kept'])
  PROVE  Durable!Save
<1> DEFINE new == CASE next = "unsynced" -> "unsure" [] next = "done" -> "ok"
                    [] OTHER -> "failed"
<1>1. StatusOf(w) = "open"
  BY DEF StatusOf, Unsettled
<1>2. StatusOf(w)' = new /\ \A v \in Writes : v # w => StatusOf(v)' = StatusOf(v)
  BY StatusStep DEF Phases, Settled, Unsettled
<1>3. [v \in Writes |-> StatusOf(v)]' = [[v \in Writes |-> StatusOf(v)] EXCEPT ![w] = new]
  BY <1>2
<1>4. Durable!Answer(w)
  <2>1. CASE next = "done"
    BY <1>1, <1>3, <2>1 DEF Durable!Answer, Durable!Leq, Leq
  <2>2. CASE next = "unsynced"
    BY <1>1, <1>3, <2>2 DEF Durable!Answer
  <2>3. CASE next = "failed"
    BY <1>1, <1>3, <2>3 DEF Durable!Answer
  <2>. QED BY <2>1, <2>2, <2>3
<1>. QED BY <1>4 DEF Durable!Save, Durable!Advance, Durable!Leq, Leq

LEMMA Simulation == IInv /\ IInv' /\ [Next]_vars => [Durable!Next]_(Durable!recordVars)
<1> SUFFICES ASSUME IInv, IInv', [Next]_vars
             PROVE  Durable!Next \/ UNCHANGED Durable!recordVars
  OBVIOUS
<1>1. TypeOK /\ TypeOK' /\ FilesGrow /\ FilesGrow' /\ TextBounds
  BY DEF IInv, QueueInv, RecordInv
<1>2. /\ owner \in Files /\ kept \in Files /\ \A f \in Files : doc[f] \in Records
      /\ \A w \in Writes : w \in Files
  BY <1>1, StorageAssumption DEF TypeOK, Writes, Files
<1>3. \A f \in Records : Leq(f, f)
  BY StorageAssumption DEF Leq, Records
<1>4. Leq(doc[kept], doc[owner]) /\ Leq(doc[owner], memory)
  BY <1>1 DEF FilesGrow
<1>5. Leq(doc[kept], memory)
  BY <1>1, <1>2, <1>4, LeqTransitive DEF TypeOK
<1>6. Leq(doc[kept], doc[kept])
  BY <1>2, <1>3
<1>7. ASSUME NEW key \in Keys, editInPlace(key) \/ replaceObject(key)
      PROVE  Durable!Next
  <2>1. Leq(memory, memory')
    <3>1. memory \in Records /\ memory' = [memory EXCEPT ![key] = memory[key] + 1]
      BY <1>1, <1>7 DEF editInPlace, replaceObject, TypeOK
    <3>2. ASSUME NEW k \in Keys PROVE memory[k] <= memory'[k]
      <4>1. memory[k] \in Nat /\ (memory'[k] = memory[k] \/ memory'[k] = memory[k] + 1)
        BY <3>1, StorageAssumption DEF Records
      <4>. QED BY <4>1
    <3>. QED BY <3>2 DEF Leq
  <2>2. UNCHANGED <<phase, ticket, kept>>
    BY <1>7 DEF editInPlace, replaceObject
  <2>3. doc'[kept] = doc[kept]
    <3>1. kept # 0 => live[kept] = {}
      <4>1. TextIsFixed /\ kept \in Files
        BY <1>2 DEF IInv, QueueInv
      <4>. QED BY <4>1 DEF TextIsFixed, Writes, Files
    <3>. QED BY <1>2, <1>7, <3>1 DEF editInPlace, replaceObject, Writes
  <2>4. [w \in Writes |-> StatusOf(w)]' = [w \in Writes |-> StatusOf(w)]
    BY <2>2 DEF StatusOf
  <2>. QED BY <2>1, <2>2, <2>3, <2>4 DEF Durable!Next, Durable!Edit, Durable!Leq, Leq
<1>8. ASSUME writeJsonFile PROVE Durable!Next
  <2>0. PICK w \in Writes : w = called + 1
    BY <1>8 DEF writeJsonFile
  <2>1. /\ phase[w] = "none" /\ phase' = [phase EXCEPT ![w] = "queued"]
        /\ ticket' = [ticket EXCEPT ![w] = memory] /\ UNCHANGED <<memory, doc, kept>>
    BY <1>1, <1>8, <2>0 DEF IInv, QueueInv, Numbered, TypeOK, writeJsonFile, Writes, Files
  <2>2. StatusOf(w) = "none"
    BY <2>1 DEF StatusOf, Unsettled
  <2>3. StatusOf(w)' = "open" /\ \A v \in Writes : v # w => StatusOf(v)' = StatusOf(v)
    BY <1>1, <2>1, StatusStep DEF Phases, Unsettled
  <2>4. [v \in Writes |-> StatusOf(v)]' = [[v \in Writes |-> StatusOf(v)] EXCEPT ![w] = "open"]
    BY <2>3
  <2>5. Durable!AskToSave(w)
    BY <2>1, <2>2, <2>4 DEF Durable!AskToSave
  <2>. QED BY <2>5 DEF Durable!Next
<1>9. ASSUME NEW w \in Writes, makeText(w) PROVE UNCHANGED Durable!recordVars
  <2>1. phase[w] = "queued" /\ phase' = [phase EXCEPT ![w] = "text"]
    BY <1>9 DEF makeText, itsTurn
  <2>2. kept # w
    <3>1. kept # 0 => phase[kept] # "queued"
      BY DEF IInv, QueueInv, TextIsFixed
    <3>. QED BY <2>1, <3>1, StorageAssumption DEF Writes
  <2>3. UNCHANGED <<memory, ticket, kept>> /\ doc'[kept] = doc[kept]
    BY <1>1, <1>9, <2>2 DEF makeText, TypeOK
  <2>. QED BY <1>1, <2>1, <2>3, Stutter DEF Unsettled
<1>10. ASSUME NEW w \in Writes, syncFile(w) \/ renameFile(w)
       PROVE  UNCHANGED Durable!recordVars
  <2>1. PICK next \in Unsettled : phase' = [phase EXCEPT ![w] = next]
    BY <1>10 DEF syncFile, renameFile, Unsettled
  <2>2. phase[w] \in Unsettled /\ UNCHANGED <<memory, ticket, kept, doc>>
    BY <1>10 DEF syncFile, renameFile, Unsettled
  <2>. QED BY <1>1, <2>1, <2>2, Stutter
<1>11. ASSUME NEW w \in Writes, syncDirectory(w) PROVE Durable!Save
  <2>1. phase[w] = "renamed" /\ UNCHANGED <<memory, doc, ticket>> /\ owner = w
    BY <1>11 DEF syncDirectory, settle, IInv, QueueInv, TextIsFixed
  <2>2. phase[w] \in Unsettled
    BY <2>1 DEF Unsettled
  <2>3. Leq(ticket[w], doc[w])
    <3>1. live[w] = {}
      BY <2>1 DEF IInv, QueueInv, TextIsFixed
    <3>2. Text(w) = doc[w]
      BY <1>2, <3>1 DEF Text, Records
    <3>. QED BY <1>1, <2>2, <3>2 DEF TextBounds
  <2>4. CASE kept' = owner /\ settle(w, "done")
    <3>1. phase' = [phase EXCEPT ![w] = "done"]
      BY <2>4 DEF settle
    <3>2. /\ Leq(doc[kept], doc[kept']) /\ Leq(doc[kept'], memory)
          /\ Leq(ticket[w], doc[kept'])
      BY <1>4, <2>1, <2>3, <2>4
    <3>. QED BY <1>1, <2>1, <2>2, <3>1, <3>2, Ends
  <2>5. CASE kept' = kept /\ settle(w, "unsynced")
    <3>1. phase' = [phase EXCEPT ![w] = "unsynced"]
      BY <2>5 DEF settle
    <3>2. Leq(doc[kept], doc[kept']) /\ Leq(doc[kept'], memory)
      BY <1>5, <1>6, <2>5
    <3>. QED BY <1>1, <2>1, <2>2, <3>1, <3>2, Ends
  <2>. QED BY <1>11, <2>4, <2>5 DEF syncDirectory
<1>12. ASSUME NEW w \in Writes, fail(w) PROVE Durable!Save
  <2>1. /\ phase[w] \in Unsettled /\ phase' = [phase EXCEPT ![w] = "failed"]
        /\ UNCHANGED <<memory, doc, ticket, kept>>
    BY <1>12 DEF fail, settle, itsTurn, Unsettled
  <2>2. Leq(doc[kept], doc[kept']) /\ Leq(doc[kept'], memory)
    BY <1>5, <1>6, <2>1
  <2>. QED BY <1>1, <2>1, <2>2, Ends
<1>13. ASSUME writeBack PROVE Durable!Save
  <2>1. kept' = owner /\ UNCHANGED <<memory, phase, doc, ticket>>
    BY <1>13 DEF writeBack
  <2>2. [w \in Writes |-> StatusOf(w)]' = [w \in Writes |-> StatusOf(w)]
    BY <2>1 DEF StatusOf
  <2>. QED BY <1>4, <2>1, <2>2 DEF Durable!Save, Durable!Advance, Durable!Leq, Leq
<1>14. ASSUME NEW file \in {owner, kept}, NEW losing,
              losing \in {Unsettled, Unsettled \cup {"unsynced"}}, restart(file, losing)
       PROVE  Durable!Restart
  <2>1. /\ memory' = doc[file] /\ UNCHANGED <<doc, ticket, kept>>
        /\ phase' = [w \in Writes |-> IF phase[w] \in losing THEN "lost" ELSE phase[w]]
    BY <1>14 DEF restart
  <2>2. Leq(doc[kept], memory') /\ Leq(memory', memory)
    BY <1>4, <1>5, <1>6, <1>14, <2>1
  <2>3. ASSUME NEW w \in Writes
        PROVE  \/ StatusOf(w) # "open" /\ StatusOf(w)' = StatusOf(w)
               \/ StatusOf(w) \in {"open", "unsure"} /\ StatusOf(w)' = "lost"
    <3>1. phase'[w] = IF phase[w] \in losing THEN "lost" ELSE phase[w]
      BY <2>1
    <3>2. CASE phase[w] \in losing
      BY <1>14, <3>1, <3>2 DEF StatusOf, Unsettled
    <3>3. CASE phase[w] \notin losing
      BY <1>1, <1>14, <3>1, <3>3 DEF StatusOf, Unsettled, TypeOK, Phases, Settled
    <3>. QED BY <3>2, <3>3
  <2>. QED BY <2>1, <2>2, <2>3 DEF Durable!Restart, Durable!Leq, Leq
<1>15. CASE UNCHANGED vars
  BY <1>15 DEF vars, Durable!recordVars, StatusOf
<1>. QED BY <1>7, <1>8, <1>9, <1>10, <1>11, <1>12, <1>13, <1>14, <1>15
         DEF Next, step, crash, powerLoss, Durable!Next

\* Seen from the server, threads.json is a record that survives crashes and power
\* failures as DurableRecord promises.
THEOREM Refinement == Spec => ImplementsDurableRecord
<1>1. Init => Durable!Init
  BY StorageAssumption DEF Init, Durable!Init, Zero, StatusOf, Unsettled, Files
<1>. QED BY <1>1, Simulation, Inductive, PTL DEF Spec, ImplementsDurableRecord, Durable!Spec
===============================================================================

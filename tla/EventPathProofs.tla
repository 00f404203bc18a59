---------------------------- MODULE EventPathProofs ----------------------------
(***************************************************************************)
(* Proofs about EventPath, for any threads, hubs and subscribers and any   *)
(* values of the bounds: first the server's side (NotificationDelivery),   *)
(* then the page's (EventSocket), then an event's whole way.               *)
(***************************************************************************)
EXTENDS EventPath, SequenceTheorems, TLAPS

USE DEF Ids, Sockets, SocketStates

\* Element by element, what appending one does.
LEMMA AppendFacts ==
  ASSUME NEW T, NEW s \in Seq(T), NEW m \in T
  PROVE  /\ Append(s, m) \in Seq(T)
         /\ Len(Append(s, m)) = Len(s) + 1
         /\ Append(s, m)[Len(s) + 1] = m
         /\ \A n \in 1..Len(s) : Append(s, m)[n] = s[n]
OBVIOUS

\* The elements of a sequence.
LEMMA SeqFacts ==
  ASSUME NEW T, NEW s \in Seq(T)
  PROVE  Len(s) \in Nat /\ \A i \in 1..Len(s) : s[i] \in T
OBVIOUS

\* A sequence without its first element.
LEMMA DropFacts ==
  ASSUME NEW T, NEW s \in Seq(T), s # <<>>, NEW t,
         t = SubSeq(s, 1, 0) \o SubSeq(s, 2, Len(s))
  PROVE  /\ 1 \in 1..Len(s) /\ t \in Seq(T) /\ Len(t) = Len(s) - 1
         /\ \A i \in 1..Len(t) : t[i] = s[i + 1] /\ i + 1 \in 1..Len(s)
<1>1. SubSeq(s, 1, 0) = <<>> /\ Len(s) \in Nat /\ Len(s) >= 1
  OBVIOUS
<1>2. /\ SubSeq(s, 2, Len(s)) \in Seq(T)
      /\ Len(SubSeq(s, 2, Len(s))) = Len(s) - 1
      /\ \A i \in 1..(Len(s) - 1) : SubSeq(s, 2, Len(s))[i] = s[2 + i - 1]
  <2>1. \A i \in 2..Len(s) : i \in 1..Len(s)
    OBVIOUS
  <2>2. Len(s) - 2 + 1 = Len(s) - 1
    BY <1>1
  <2>. QED BY <1>1, <2>1, <2>2, SubSeqProperties
<1>3. t = SubSeq(s, 2, Len(s))
  BY <1>1, <1>2
<1>. QED BY <1>1, <1>2, <1>3

-------------------------------------------------------------------------------
(***************************************************************************)
(* The server.  An event that waits for its save is younger than every     *)
(* saved event that was shown, so its turn never comes too late; this is   *)
(* what makes the order of ShownInOrder inductive.                         *)
(***************************************************************************)

\* What the chain of saves and the stored file are to the notifications.
ChainInv ==
  /\ Len(notes) <= MaxNotes
  /\ disk <= Len(notes)
  /\ \A i \in 1..Len(saving) : saving[i] <= Len(notes) /\ Saved(saving[i])
  /\ \A i, j \in 1..Len(saving) : i < j => saving[i] < saving[j]
  /\ \A x \in 1..Len(shown) : shown[x] <= Len(notes)
  /\ \A x \in 1..Len(shown), i \in 1..Len(saving) :
       Saved(shown[x]) => shown[x] < saving[i]

DeliveryInv == DeliveryTypeOK /\ ChainInv /\ SavedBeforeShown /\ ShownInOrder

\* Event a may be shown before event b.
Precedes(a, b) == a < b \/ Overtakes(a, b)

\* What is new in the events shown may follow everything shown before.
NewFollows ==
  \/ shown' = shown
  \/ \E n \in 1..Len(notes') : /\ shown' = Append(shown, n)
                               /\ \A x \in 1..Len(shown) : Precedes(shown[x], n)'

\* A notification that has arrived does not change any more.
LEMMA NotesStay ==
  ASSUME DeliveryTypeOK, NEW note \in Notes, notes' = Append(notes, note)
  PROVE  /\ Len(notes') = Len(notes) + 1 /\ notes'[Len(notes) + 1] = note
         /\ \A n \in 1..Len(notes) : Saved(n)' <=> Saved(n)
<1>1. notes \in Seq(Notes)
  BY DEF DeliveryTypeOK
<1>2. \A n \in 1..Len(notes) : notes'[n] = notes[n]
  BY <1>1, AppendFacts
<1>3. Len(notes') = Len(notes) + 1 /\ notes'[Len(notes) + 1] = note
  BY <1>1, AppendFacts
<1>. QED BY <1>2, <1>3 DEF Saved, Saves

LEMMA ArriveStep ==
  ASSUME DeliveryInv, NEW note \in Notes, arrive(note)
  PROVE  DeliveryInv' /\ NewFollows
<1>n. PICK n \in Nat : n = Len(notes) + 1
  BY DEF DeliveryInv, DeliveryTypeOK
<1>0. DeliveryTypeOK /\ ChainInv /\ notes \in Seq(Notes) /\ Len(notes) \in Nat
  BY DEF DeliveryInv, DeliveryTypeOK
<1>1. /\ notes' = Append(notes, note) /\ n \in Ids /\ Len(notes') = n
      /\ notes'[n] = note
      /\ \A l \in 1..Len(notes) : Saved(l)' <=> Saved(l)
  BY <1>0, <1>n, NotesStay, DeliveryAssumption DEF arrive
<1>2. notes' \in Seq(Notes)
  BY <1>0, <1>1
<1>3. known' \subseteq Threads
  BY <1>0 DEF arrive, DeliveryTypeOK, Notes
<1>4. /\ saving' \in Seq(Ids)
      /\ \/ saving' = saving
         \/ /\ Saved(n)' /\ Len(saving') = Len(saving) + 1 /\ saving'[Len(saving) + 1] = n
            /\ \A i \in 1..Len(saving) : saving'[i] = saving[i]
  <2>1. CASE saving' = saving
    BY <1>0, <2>1 DEF DeliveryTypeOK
  <2>2. CASE saving' = Append(saving, n) /\ Saves(note)
    <3>1. saving \in Seq(Ids)
      BY <1>0 DEF DeliveryTypeOK
    <3>2. Saved(n)'
      BY <1>1, <2>2 DEF Saved
    <3>. QED BY <1>1, <2>2, <3>1, <3>2, AppendFacts
  <2>. QED BY <1>n, <2>1, <2>2 DEF arrive
<1>5. /\ shown' \in Seq(Ids)
      /\ \/ shown' = shown
         \/ /\ ~Saved(n)' /\ shown' = Append(shown, n)
            /\ Len(shown') = Len(shown) + 1 /\ shown'[Len(shown) + 1] = n
            /\ \A x \in 1..Len(shown) : shown'[x] = shown[x]
  <2>1. CASE shown' = shown
    BY <1>0, <2>1 DEF DeliveryTypeOK
  <2>2. CASE shown' = Append(shown, n) /\ ~Saves(note)
    <3>1. shown \in Seq(Ids)
      BY <1>0 DEF DeliveryTypeOK
    <3>2. ~Saved(n)'
      BY <1>1, <2>2 DEF Saved
    <3>. QED BY <1>1, <2>2, <3>1, <3>2, AppendFacts
  <2>. QED BY <1>n, <2>1, <2>2 DEF arrive, showsAtOnce
<1>6. UNCHANGED <<up, disk, crashes>>
  BY DEF arrive
<1>7. DeliveryTypeOK'
  BY <1>0, <1>2, <1>3, <1>4, <1>5, <1>6 DEF DeliveryTypeOK
<1>8. Len(saving) \in Nat /\ Len(shown) \in Nat
      /\ (\A i \in 1..Len(saving) : saving[i] \in 1..Len(notes))
      /\ (\A x \in 1..Len(shown) : shown[x] \in 1..Len(notes))
  <2>1. Len(saving) \in Nat /\ Len(shown) \in Nat
        /\ (\A i \in 1..Len(saving) : saving[i] \in Ids)
        /\ (\A x \in 1..Len(shown) : shown[x] \in Ids)
    <3>1. saving \in Seq(Ids) /\ shown \in Seq(Ids)
      BY <1>0 DEF DeliveryTypeOK
    <3> HIDE DEF Ids
    <3>. QED BY <3>1, SeqFacts
  <2>2. \A i \in Ids : i \in Nat /\ i >= 1
    OBVIOUS
  <2>. QED BY <1>0, <2>1, <2>2 DEF ChainInv
<1>9. ChainInv'
  <2>1. Len(notes') <= MaxNotes /\ disk' <= Len(notes')
    BY <1>0, <1>1, <1>6, <1>n, DeliveryAssumption DEF ChainInv, DeliveryTypeOK
  <2>2. (\A i \in 1..Len(saving) : saving[i] <= Len(notes) /\ Saved(saving[i]))'
    BY <1>0, <1>1, <1>n, <1>4, <1>8 DEF ChainInv
  <2>3. (\A i, j \in 1..Len(saving) : i < j => saving[i] < saving[j])'
    BY <1>0, <1>1, <1>n, <1>4, <1>8, SMTT(30) DEF ChainInv
  <2>4. (\A x \in 1..Len(shown) : shown[x] <= Len(notes))'
    BY <1>0, <1>1, <1>n, <1>5, <1>8 DEF ChainInv
  <2>5. (\A x \in 1..Len(shown), i \in 1..Len(saving) :
           Saved(shown[x]) => shown[x] < saving[i])'
    <3> SUFFICES ASSUME NEW x \in 1..Len(shown'), NEW i \in 1..Len(saving'),
                        Saved(shown[x])'
                 PROVE  shown'[x] < saving'[i]
      OBVIOUS
    <3>1. x \in 1..Len(shown) /\ shown'[x] = shown[x]
      BY <1>5, <1>8
    <3>2. shown[x] \in 1..Len(notes) /\ Saved(shown[x])
      BY <1>1, <1>8, <3>1
    <3>3. CASE i \in 1..Len(saving) /\ saving'[i] = saving[i]
      BY <1>0, <3>1, <3>2, <3>3 DEF ChainInv
    <3>4. CASE saving'[i] = n
      BY <1>0, <1>n, <3>1, <3>2, <3>4
    <3>. QED BY <1>4, <1>8, <3>3, <3>4
  <2>. QED BY <2>1, <2>2, <2>3, <2>4, <2>5 DEF ChainInv
<1>10. SavedBeforeShown'
  BY <1>0, <1>1, <1>n, <1>5, <1>6, <1>8 DEF DeliveryInv, SavedBeforeShown
<1>11. ShownInOrder'
  BY <1>0, <1>1, <1>n, <1>5, <1>8 DEF DeliveryInv, ShownInOrder, Overtakes
<1>12. NewFollows
  <2>1. CASE shown' = shown
    BY <2>1 DEF NewFollows
  <2>2. CASE shown' = Append(shown, n) /\ \A x \in 1..Len(shown) : shown'[x] = shown[x]
    <3>1. n \in 1..Len(notes')
      BY <1>0, <1>1, <1>n
    <3>2. \A x \in 1..Len(shown) : Precedes(shown[x], n)'
      BY <1>0, <1>n, <1>8, <2>2 DEF Precedes
    <3>. QED BY <2>2, <3>1, <3>2 DEF NewFollows
  <2>. QED BY <1>5, <2>1, <2>2
<1>. QED BY <1>7, <1>9, <1>10, <1>11, <1>12 DEF DeliveryInv

LEMMA SaveEndsStep ==
  ASSUME DeliveryInv, saveEnds
  PROVE  DeliveryInv' /\ NewFollows
<1>0. DeliveryTypeOK /\ ChainInv /\ Len(notes) \in Nat /\ shown \in Seq(Ids)
  BY DEF DeliveryInv, DeliveryTypeOK
<1>1. saving # <<>> /\ saving \in Seq(Ids)
  BY <1>0 DEF saveEnds, due, DeliveryTypeOK
<1>2. PICK n \in Ids : n = saving[1]
  <2> HIDE DEF Ids
  <2>1. 1 \in 1..Len(saving)
    BY <1>1
  <2>. QED BY <1>1, <2>1, SeqFacts
<1>3. /\ \E upTo \in n..Len(notes) : disk' = IF upTo > disk THEN upTo ELSE disk
      /\ saving' = SubSeq(saving, 1, 0) \o SubSeq(saving, 2, Len(saving))
      /\ shown' = Append(shown, n)
      /\ UNCHANGED <<up, known, notes, crashes>>
  BY <1>1, <1>2 DEF saveEnds, due
<1>4. /\ saving' \in Seq(Ids) /\ Len(saving') = Len(saving) - 1
      /\ \A i \in 1..Len(saving') : saving'[i] = saving[i + 1] /\ i + 1 \in 1..Len(saving)
  <2> HIDE DEF Ids
  <2>. QED BY <1>1, <1>3, DropFacts
<1>5. /\ shown' \in Seq(Ids) /\ Len(shown') = Len(shown) + 1 /\ shown'[Len(shown) + 1] = n
      /\ \A x \in 1..Len(shown) : shown'[x] = shown[x]
  BY <1>0, <1>3, AppendFacts
<1>6. /\ n <= Len(notes) /\ Saved(n) /\ n \in Nat
      /\ \A i \in 1..Len(saving') : n < saving'[i]
  BY <1>0, <1>1, <1>2, <1>4, SMTT(30) DEF ChainInv
<1>7. disk' \in Nat /\ disk' >= disk /\ disk' >= n /\ disk' <= Len(notes) /\ disk \in Nat
  BY <1>0, <1>3, <1>6 DEF ChainInv, DeliveryTypeOK
<1>8. \A a : Saved(a)' <=> Saved(a)
  BY <1>3 DEF Saved
<1>9. Len(saving) \in Nat /\ Len(shown) \in Nat
      /\ (\A i \in 1..Len(saving) : saving[i] \in Nat)
      /\ (\A x \in 1..Len(shown) : shown[x] \in Nat)
  <2>1. Ids \subseteq Nat
    OBVIOUS
  <2> HIDE DEF Ids
  <2>. QED BY <1>0, <1>1, <2>1, SeqFacts
<1>10. DeliveryTypeOK'
  BY <1>0, <1>3, <1>4, <1>5, <1>7, DeliveryAssumption DEF DeliveryTypeOK, ChainInv
<1>11. \A x \in 1..Len(shown) : Saved(shown[x]) => shown[x] < n
  BY <1>0, <1>1, <1>2 DEF ChainInv
<1>12. ChainInv'
  <2>1. Len(notes') <= MaxNotes /\ disk' <= Len(notes')
    BY <1>0, <1>3, <1>7 DEF ChainInv
  <2>2. (\A i \in 1..Len(saving) : saving[i] <= Len(notes) /\ Saved(saving[i]))'
    BY <1>0, <1>3, <1>4, <1>8 DEF ChainInv
  <2>3. (\A i, j \in 1..Len(saving) : i < j => saving[i] < saving[j])'
    <3> SUFFICES ASSUME NEW i \in 1..Len(saving'), NEW j \in 1..Len(saving'), i < j
                 PROVE  saving'[i] < saving'[j]
      OBVIOUS
    <3>1. /\ i + 1 \in 1..Len(saving) /\ j + 1 \in 1..Len(saving) /\ i + 1 < j + 1
          /\ saving'[i] = saving[i + 1] /\ saving'[j] = saving[j + 1]
      BY <1>4, <1>9
    <3>. QED BY <1>0, <3>1 DEF ChainInv
  <2>4. (\A x \in 1..Len(shown) : shown[x] <= Len(notes))'
    BY <1>0, <1>3, <1>5, <1>6, <1>9 DEF ChainInv
  <2>5. (\A x \in 1..Len(shown), i \in 1..Len(saving) :
           Saved(shown[x]) => shown[x] < saving[i])'
    <3> SUFFICES ASSUME NEW x \in 1..Len(shown'), NEW i \in 1..Len(saving'),
                        Saved(shown[x])'
                 PROVE  shown'[x] < saving'[i]
      OBVIOUS
    <3>1. CASE x \in 1..Len(shown)
      <4>1. i + 1 \in 1..Len(saving) /\ saving'[i] = saving[i + 1]
        BY <1>4
      <4>2. shown'[x] = shown[x] /\ Saved(shown[x])
        BY <1>5, <1>8, <3>1
      <4>. QED BY <1>0, <3>1, <4>1, <4>2 DEF ChainInv
    <3>2. CASE x = Len(shown) + 1
      BY <1>5, <1>6, <3>2
    <3>. QED BY <1>5, <1>9, <3>1, <3>2
  <2>. QED BY <2>1, <2>2, <2>3, <2>4, <2>5 DEF ChainInv
<1>13. SavedBeforeShown'
  <2>1. \A x \in 1..Len(shown) : Saved(shown[x]) => shown[x] <= disk
    BY DEF DeliveryInv, SavedBeforeShown
  <2>2. ASSUME NEW x \in 1..Len(shown'), Saved(shown[x])'
        PROVE  (shown[x] <= disk)'
    <3>1. CASE x \in 1..Len(shown)
      BY <1>5, <1>7, <1>8, <1>9, <2>1, <2>2, <3>1
    <3>2. CASE x = Len(shown) + 1
      BY <1>5, <1>7, <3>2
    <3>. QED BY <1>5, <1>9, <3>1, <3>2
  <2>. QED BY <2>2 DEF SavedBeforeShown
<1>14. \A x \in 1..Len(shown) : Precedes(shown[x], n)
  <2> SUFFICES ASSUME NEW x \in 1..Len(shown) PROVE Precedes(shown[x], n)
    OBVIOUS
  <2>1. CASE Saved(shown[x])
    BY <1>11, <2>1 DEF Precedes
  <2>2. CASE ~Saved(shown[x])
    BY <1>6, <1>9, <2>2 DEF Precedes, Overtakes
  <2>. QED BY <2>1, <2>2
<1>15. ShownInOrder'
  <2> SUFFICES ASSUME NEW x \in 1..Len(shown'), NEW y \in 1..Len(shown'), x < y
               PROVE  shown'[x] < shown'[y] \/ Overtakes(shown[x], shown[y])'
    BY DEF ShownInOrder
  <2>1. x \in 1..Len(shown)
    BY <1>5, <1>9
  <2>2. CASE y \in 1..Len(shown)
    BY <1>5, <1>8, <2>1, <2>2 DEF DeliveryInv, ShownInOrder, Overtakes
  <2>3. CASE y = Len(shown) + 1
    BY <1>5, <1>8, <1>14, <2>1, <2>3 DEF Precedes, Overtakes
  <2>. QED BY <1>5, <1>9, <2>2, <2>3
<1>16. NewFollows
  <2>1. n \in 1..Len(notes')
    BY <1>0, <1>3, <1>6
  <2>2. \A x \in 1..Len(shown) : Precedes(shown[x], n)'
    BY <1>5, <1>8, <1>14 DEF Precedes, Overtakes
  <2>. QED BY <1>3, <2>1, <2>2 DEF NewFollows
<1>. QED BY <1>10, <1>12, <1>13, <1>15, <1>16 DEF DeliveryInv

\* Crashes and restarts lose handlers, and nothing that was shown.
LEMMA CrashStep ==
  ASSUME DeliveryInv, processEnds \/ restart
  PROVE  DeliveryInv' /\ shown' = shown /\ notes' = notes
<1>0. DeliveryTypeOK /\ ChainInv
  BY DEF DeliveryInv
<1>1. /\ UNCHANGED <<notes, disk, shown>> /\ saving' \in {saving, <<>>}
      /\ up' \in BOOLEAN /\ crashes' \in 0..MaxCrashes
  <2>1. CASE processEnds
    <3>1. crashes + 1 \in 0..MaxCrashes
      BY <1>0, <2>1, DeliveryAssumption DEF processEnds, DeliveryTypeOK
    <3>. QED BY <2>1, <3>1 DEF processEnds
  <2>2. CASE restart
    BY <1>0, <2>2 DEF restart, DeliveryTypeOK
  <2>. QED BY <2>1, <2>2
<1>2. known' \subseteq Threads
  <2>1. \A i \in 1..disk : notes[i].method = "thread/started" => notes[i].thread \in Threads
    <3>1. \A i \in 1..disk : notes[i] \in Notes
      BY <1>0 DEF DeliveryTypeOK, ChainInv
    <3>. QED BY <3>1 DEF Notes
  <2>2. CASE processEnds
    BY <1>0, <2>2 DEF processEnds, DeliveryTypeOK
  <2>3. CASE restart
    BY <2>1, <2>3, DeliveryAssumption DEF restart
  <2>. QED BY <2>2, <2>3
<1>3. DeliveryTypeOK'
  <2>1. <<>> \in Seq(Ids)
    OBVIOUS
  <2> HIDE DEF Ids
  <2>. QED BY <1>0, <1>1, <1>2, <2>1 DEF DeliveryTypeOK
<1>4. \A a : Saved(a)' <=> Saved(a)
  BY <1>1 DEF Saved
<1>5. ChainInv'
  BY <1>0, <1>1, <1>4 DEF ChainInv
<1>6. SavedBeforeShown' /\ ShownInOrder'
  BY <1>1, <1>4 DEF DeliveryInv, SavedBeforeShown, ShownInOrder, Overtakes
<1>. QED BY <1>1, <1>3, <1>5, <1>6 DEF DeliveryInv

-------------------------------------------------------------------------------
(***************************************************************************)
(* The page.  RegisteredOnce says of every hub how often it is registered; *)
(* with it, a page loses its socket only when nobody is registered, or     *)
(* with a timer set.                                                       *)
(***************************************************************************)

PageInv == EventSocketTypeOK /\ RegisteredOnce /\ OneSocket /\ WillConnect

\* A socket that counts for OneSocket.
Live(s) == socket[s] \in {"connecting", "open", "lost"}

\* connectWebSocket() leaves the page with a socket, and makes a live one of no
\* other socket.
LEMMA ConnectFacts ==
  ASSUME EventSocketTypeOK, connectWebSocket
  PROVE  /\ webSocket' \in Sockets
         /\ socket' \in [Sockets -> SocketStates]
         /\ \/ webSocket # 0 /\ UNCHANGED <<webSocket, socket>>
            \/ /\ webSocket = 0 /\ socket[webSocket'] = "free"
               /\ socket' = [socket EXCEPT ![webSocket'] = "connecting"]
BY SocketAssumption DEF EventSocketTypeOK, connectWebSocket, connected

\* unlisten() takes one registration away, and the socket only with the last.
LEMMA UnlistenFacts ==
  ASSUME EventSocketTypeOK, RegisteredOnce, NEW h \in Hubs, hub[h] # "off", unlisten(h)
  PROVE  /\ registered' \in [Hubs -> Nat]
         /\ registered'[h] = 0
         /\ \A g \in Hubs : g # h => registered'[g] = registered[g]
         /\ webSocket' \in 0..MaxSockets
         /\ socket' \in [Sockets -> SocketStates]
         /\ \/ UNCHANGED <<webSocket, socket>>
            \/ /\ ~Registered' /\ webSocket' = 0 /\ webSocket \in Sockets
               /\ socket' = [socket EXCEPT ![webSocket] = "closing"]
<1>1. registered[h] = 1 /\ registered' = [registered EXCEPT ![h] = registered[h] - 1]
  BY DEF RegisteredOnce, unlisten
<1>2. registered' \in [Hubs -> Nat] /\ registered'[h] = 0
      /\ \A g \in Hubs : g # h => registered'[g] = registered[g]
  BY <1>1 DEF EventSocketTypeOK
<1>3. CASE UNCHANGED <<webSocket, socket>>
  BY <1>2, <1>3 DEF EventSocketTypeOK
<1>4. CASE /\ webSocket # 0 /\ ~Registered' /\ webSocket' = 0
           /\ socket' = [socket EXCEPT ![webSocket] = "closing"]
  BY <1>2, <1>4, SocketAssumption DEF EventSocketTypeOK
<1>. QED BY <1>3, <1>4 DEF unlisten

\* OneSocket and WillConnect after each of the two.
LEMMA ConnectStep ==
  ASSUME PageInv, connectWebSocket, stale' = stale
  PROVE  OneSocket' /\ WillConnect'
<1>1. OneSocket'
  BY ConnectFacts, SocketAssumption DEF PageInv, EventSocketTypeOK, OneSocket
<1>2. webSocket' # 0
  BY ConnectFacts, SocketAssumption DEF PageInv
<1>. QED BY <1>1, <1>2 DEF WillConnect

LEMMA UnlistenStep ==
  ASSUME PageInv, NEW h \in Hubs, hub[h] # "off", unlisten(h), UNCHANGED <<stale, timer>>
  PROVE  OneSocket' /\ WillConnect'
<1>1. OneSocket'
  <2>1. EventSocketTypeOK /\ RegisteredOnce
    BY DEF PageInv
  <2>2. CASE UNCHANGED <<webSocket, socket>>
    BY <2>2 DEF PageInv, OneSocket
  <2>3. CASE socket' = [socket EXCEPT ![webSocket] = "closing"] /\ webSocket \in Sockets
    BY <2>1, <2>3 DEF PageInv, EventSocketTypeOK, OneSocket
  <2>. QED BY <2>1, <2>2, <2>3, UnlistenFacts
<1>2. WillConnect'
  <2>1. Registered' => Registered
    <3>1. RegisteredOnce
      BY DEF PageInv
    <3>. QED BY <3>1, UnlistenFacts DEF PageInv, Registered, RegisteredOnce
  <2>. QED BY <2>1, UnlistenFacts DEF PageInv, WillConnect
<1>. QED BY <1>1, <1>2

LEMMA SubscribeStep ==
  ASSUME PageInv, NEW l \in Subscribers, subscribe(l)
  PROVE  PageInv'
<1> DEFINE h == HubOf[l]
<1>0. /\ EventSocketTypeOK /\ RegisteredOnce /\ h \in Hubs
      /\ subs' \in 0..MaxSubs
      /\ listeners' = [listeners EXCEPT ![h] = @ \cup {l}]
      /\ UNCHANGED <<wire, timer, losses, got, stale>>
  BY SocketAssumption DEF PageInv, subscribe, EventSocketTypeOK
<1>1. listeners' \in [Hubs -> SUBSET Subscribers]
      /\ \A g \in Hubs : listeners'[g] = IF g = h THEN listeners[g] \cup {l} ELSE listeners[g]
  BY <1>0 DEF EventSocketTypeOK
<1>2. CASE hub[h] = "off"
  <2>1. /\ hub' = [hub EXCEPT ![h] = "starting"]
        /\ registered' = [registered EXCEPT ![h] = @ + 1] /\ connectWebSocket
    BY <1>2 DEF subscribe, notStarted
  <2>2. registered[h] = 0
    BY <1>0, <1>2 DEF RegisteredOnce
  <2>3. \A g \in Hubs : /\ registered'[g] = IF g = h THEN 1 ELSE registered[g]
                        /\ hub'[g] = IF g = h THEN "starting" ELSE hub[g]
    BY <1>0, <2>1, <2>2 DEF EventSocketTypeOK
  <2>4. RegisteredOnce'
    BY <1>0, <1>1, <2>3 DEF RegisteredOnce
  <2>5. EventSocketTypeOK'
    <3>1. registered' \in [Hubs -> Nat] /\ hub' \in [Hubs -> {"off", "starting", "on"}]
      BY <1>0, <2>1 DEF EventSocketTypeOK
    <3>. QED BY <1>0, <1>1, <2>1, <3>1, ConnectFacts DEF EventSocketTypeOK
  <2>. QED BY <1>0, <2>1, <2>4, <2>5, ConnectStep DEF PageInv
<1>3. CASE hub[h] # "off"
  <2>1. UNCHANGED <<hub, registered, webSocket, socket>>
    BY <1>3 DEF subscribe, notStarted
  <2>. QED BY <1>0, <1>1, <1>3, <2>1
           DEF PageInv, EventSocketTypeOK, RegisteredOnce, OneSocket, WillConnect, Registered
<1>. QED BY <1>2, <1>3

LEMMA UnsubscribeStep ==
  ASSUME PageInv, NEW l \in Subscribers, unsubscribe(l)
  PROVE  PageInv'
<1> DEFINE h == HubOf[l]
<1>0. /\ EventSocketTypeOK /\ RegisteredOnce /\ h \in Hubs
      /\ listeners' = [listeners EXCEPT ![h] = @ \ {l}]
      /\ UNCHANGED <<subs, wire, timer, losses, got, stale>>
  BY SocketAssumption DEF PageInv, unsubscribe
<1>1. listeners' \in [Hubs -> SUBSET Subscribers]
      /\ \A g \in Hubs : listeners'[g] = IF g = h THEN listeners[g] \ {l} ELSE listeners[g]
  BY <1>0 DEF EventSocketTypeOK
<1>2. CASE listeners[h] = {l} /\ hub[h] = "on"
  <2>1. hub' = [hub EXCEPT ![h] = "off"] /\ unlisten(h)
    BY <1>2 DEF unsubscribe, stop
  <2>2. \A g \in Hubs : hub'[g] = IF g = h THEN "off" ELSE hub[g]
    BY <1>0, <2>1 DEF EventSocketTypeOK
  <2>3. RegisteredOnce'
    BY <1>0, <1>1, <1>2, <2>1, <2>2, UnlistenFacts DEF RegisteredOnce
  <2>4. EventSocketTypeOK'
    <3>1. hub' \in [Hubs -> {"off", "starting", "on"}]
      BY <1>0, <2>1 DEF EventSocketTypeOK
    <3>. QED BY <1>0, <1>1, <1>2, <2>1, <3>1, UnlistenFacts DEF EventSocketTypeOK
  <2>. QED BY <1>0, <1>2, <2>1, <2>3, <2>4, UnlistenStep DEF PageInv
<1>3. CASE ~(listeners[h] = {l} /\ hub[h] = "on")
  <2>1. UNCHANGED <<hub, registered, webSocket, socket>>
    BY <1>3 DEF unsubscribe, stop
  <2>2. RegisteredOnce'
    BY <1>0, <1>1, <1>3, <2>1 DEF RegisteredOnce
  <2>. QED BY <1>0, <1>1, <2>1, <2>2
           DEF PageInv, EventSocketTypeOK, OneSocket, WillConnect, Registered
<1>. QED BY <1>2, <1>3

LEMMA ListeningStep ==
  ASSUME PageInv, NEW h \in Hubs, listening(h)
  PROVE  PageInv'
<1>0. /\ EventSocketTypeOK /\ RegisteredOnce /\ hub[h] = "starting"
      /\ UNCHANGED <<subs, listeners, wire, timer, losses, got, stale>>
  BY DEF PageInv, listening
<1>1. CASE listeners[h] = {}
  <2>1. hub' = [hub EXCEPT ![h] = "off"] /\ unlisten(h)
    BY <1>1 DEF listening, nobodyLeft
  <2>2. \A g \in Hubs : hub'[g] = IF g = h THEN "off" ELSE hub[g]
    BY <1>0, <2>1 DEF EventSocketTypeOK
  <2>3. RegisteredOnce'
    BY <1>0, <1>1, <2>1, <2>2, UnlistenFacts DEF RegisteredOnce
  <2>4. EventSocketTypeOK'
    <3>1. hub' \in [Hubs -> {"off", "starting", "on"}]
      BY <1>0, <2>1 DEF EventSocketTypeOK
    <3>. QED BY <1>0, <2>1, <3>1, UnlistenFacts DEF EventSocketTypeOK
  <2>. QED BY <1>0, <2>1, <2>3, <2>4, UnlistenStep DEF PageInv
<1>2. CASE listeners[h] # {}
  <2>1. hub' = [hub EXCEPT ![h] = "on"] /\ UNCHANGED <<registered, webSocket, socket>>
    BY <1>2 DEF listening, nobodyLeft
  <2>. QED BY <1>0, <1>2, <2>1
           DEF PageInv, EventSocketTypeOK, RegisteredOnce, OneSocket, WillConnect, Registered
<1>. QED BY <1>1, <1>2

LEMMA CloseStep ==
  ASSUME PageInv, NEW s \in Sockets, onClose(s)
  PROVE  PageInv'
<1>1. /\ socket' = [socket EXCEPT ![s] = "free"] /\ webSocket' = 0 /\ timer' = TRUE
      /\ stale' = (stale \/ webSocket \notin {0, s})
      /\ UNCHANGED <<hubVars, losses>>
  BY DEF onClose, timerAfter
<1>2. EventSocketTypeOK' /\ RegisteredOnce' /\ WillConnect'
  BY <1>1, SocketAssumption
     DEF PageInv, EventSocketTypeOK, RegisteredOnce, WillConnect, hubVars
<1>3. OneSocket'
  BY <1>1, SocketAssumption DEF PageInv, EventSocketTypeOK, OneSocket
<1>. QED BY <1>2, <1>3 DEF PageInv

\* Connections that come up or break.
LEMMA SocketStep ==
  ASSUME PageInv, UNCHANGED <<hubVars, webSocket, timer, stale>>, losses' \in 0..MaxLosses,
         socket' \in [Sockets -> SocketStates],
         \A s \in Sockets : Live(s)' => Live(s)
  PROVE  PageInv'
BY DEF PageInv, EventSocketTypeOK, RegisteredOnce, OneSocket, WillConnect, Registered,
       hubVars, Live

LEMMA LoseFacts ==
  ASSUME EventSocketTypeOK, NEW broken \in SUBSET Sockets, lose(broken),
         \A s \in broken : socket[s] \in {"connecting", "open"}
  PROVE  /\ socket' \in [Sockets -> SocketStates]
         /\ \A s \in Sockets : Live(s)' => Live(s)
         /\ \A s \in Sockets : \/ socket'[s] = socket[s]
                               \/ socket'[s] = "lost" /\ socket[s] \in {"connecting", "open"}
BY DEF EventSocketTypeOK, lose, Live

LEMMA PageStep ==
  ASSUME PageInv, Page
  PROVE  PageInv'
<1>1. ASSUME NEW s \in Sockets, onMessage(s) PROVE PageInv'
  BY <1>1 DEF onMessage, PageInv, EventSocketTypeOK, RegisteredOnce, OneSocket, WillConnect,
              Registered, hubVars
<1>2. ASSUME reconnectTimer PROVE PageInv'
  <2>1. timer' = FALSE /\ UNCHANGED <<hubVars, losses, stale>>
    BY <1>2 DEF reconnectTimer
  <2>2. CASE connectWebSocket
    <3>1. OneSocket' /\ WillConnect'
      BY <2>1, <2>2, ConnectStep
    <3>2. webSocket' \in 0..MaxSockets /\ socket' \in [Sockets -> SocketStates]
      BY <2>2, ConnectFacts, SocketAssumption DEF PageInv
    <3>3. EventSocketTypeOK' /\ RegisteredOnce'
      BY <2>1, <3>2 DEF PageInv, EventSocketTypeOK, RegisteredOnce, hubVars
    <3>. QED BY <3>1, <3>3 DEF PageInv
  <2>3. CASE ~Registered /\ UNCHANGED <<webSocket, socket>>
    BY <2>1, <2>3
       DEF PageInv, EventSocketTypeOK, RegisteredOnce, OneSocket, WillConnect, Registered, hubVars
  <2>. QED BY <1>2, <2>2, <2>3 DEF reconnectTimer
<1>. QED BY <1>1, <1>2, SubscribeStep, UnsubscribeStep, ListeningStep, CloseStep DEF Page

-------------------------------------------------------------------------------
\* The server and the page together: a broadcast changes only what is on the wires,
\* the end of the server only breaks connections.
IInv == DeliveryInv /\ PageInv

LEMMA InvStep == IInv /\ [Next]_vars => IInv'
<1> SUFFICES ASSUME IInv, [Next]_vars PROVE IInv'
  OBVIOUS
<1>1. UNCHANGED pageVars => PageInv'
  BY DEF pageVars, hubVars, IInv, PageInv, EventSocketTypeOK, RegisteredOnce, OneSocket,
         WillConnect, Registered
<1>2. UNCHANGED deliveryVars => DeliveryInv'
  BY DEF deliveryVars, IInv, DeliveryInv, DeliveryTypeOK, ChainInv, SavedBeforeShown,
         ShownInOrder, Overtakes, Saved
<1>3. CASE Notification
  BY <1>1, <1>3, ArriveStep DEF Notification, Broadcasts, IInv
<1>4. CASE Saving
  BY <1>1, <1>4, SaveEndsStep DEF Saving, Broadcasts, IInv
<1>5. CASE ServerEnds
  <2>1. PageInv'
    <3>1. /\ socket' \in [Sockets -> SocketStates]
          /\ \A s \in Sockets : Live(s)' => Live(s)
      BY <1>5, LoseFacts DEF ServerEnds, IInv, PageInv
    <3>. QED BY <1>5, <3>1, SocketStep
             DEF ServerEnds, lose, IInv, PageInv, EventSocketTypeOK
  <2>. QED BY <1>5, <2>1, CrashStep DEF ServerEnds, IInv
<1>6. CASE ServerStarts
  BY <1>1, <1>6, CrashStep DEF ServerStarts, pageVars, socketVars, IInv
<1>7. CASE Connection
  <2>1. ASSUME NEW s \in Sockets, accept(s) PROVE PageInv'
    <3>1. /\ socket' \in [Sockets -> SocketStates]
          /\ \A t \in Sockets : Live(t)' => Live(t)
      BY <2>1 DEF accept, IInv, PageInv, EventSocketTypeOK, Live
    <3>. QED BY <2>1, <3>1, SocketStep DEF accept, IInv, PageInv, EventSocketTypeOK
  <2>2. ASSUME loseOne PROVE PageInv'
    <3>1. PICK s \in Sockets : socket[s] \in {"connecting", "open"} /\ lose({s})
      BY <2>2 DEF loseOne
    <3>2. /\ socket' \in [Sockets -> SocketStates]
          /\ \A t \in Sockets : Live(t)' => Live(t)
      BY <3>1, LoseFacts DEF IInv, PageInv
    <3>3. losses' \in 0..MaxLosses
      BY <2>2, SocketAssumption DEF loseOne, IInv, PageInv, EventSocketTypeOK
    <3>. QED BY <3>1, <3>2, <3>3, SocketStep DEF lose, IInv
  <2>. QED BY <1>2, <1>7, <2>1, <2>2 DEF Connection, IInv
<1>8. CASE InPage
  BY <1>2, <1>8, PageStep DEF InPage, IInv
<1>9. CASE UNCHANGED vars
  BY <1>1, <1>2, <1>9 DEF vars, pageVars, socketVars, IInv
<1>. QED BY <1>3, <1>4, <1>5, <1>6, <1>7, <1>8, <1>9 DEF Next

LEMMA InitInv == Init => IInv
<1> SUFFICES ASSUME Init PROVE IInv
  OBVIOUS
<1>1. DeliveryInv
  BY DeliveryAssumption
     DEF Init, DeliveryInit, DeliveryInv, DeliveryTypeOK, ChainInv, SavedBeforeShown, ShownInOrder
<1>2. PageInv
  <2>1. EventSocketTypeOK
    <3>1. timer \in BOOLEAN /\ stale \in BOOLEAN
      BY DEF Init, EventSocketInit
    <3>2. /\ subs \in 0..MaxSubs /\ losses \in 0..MaxLosses /\ webSocket \in 0..MaxSockets
          /\ socket \in [Sockets -> SocketStates]
      BY SocketAssumption DEF Init, EventSocketInit
    <3>3. /\ listeners \in [Hubs -> SUBSET Subscribers]
          /\ hub \in [Hubs -> {"off", "starting", "on"}]
          /\ registered \in [Hubs -> Nat]
      BY DEF Init, EventSocketInit
    <3>. QED BY <3>1, <3>2, <3>3 DEF EventSocketTypeOK
  <2>2. RegisteredOnce /\ OneSocket /\ WillConnect
    BY SocketAssumption DEF Init, EventSocketInit, RegisteredOnce, OneSocket, WillConnect,
                            Registered
  <2>. QED BY <2>1, <2>2 DEF PageInv
<1>. QED BY <1>1, <1>2 DEF IInv

LEMMA Invariance == Spec => []IInv
BY InitInv, InvStep, PTL DEF Spec

\* The variables of the event path keep their types.
THEOREM TypeCorrect == Spec => []TypeOK
<1>1. IInv => TypeOK
  BY DEF IInv, DeliveryInv, PageInv, TypeOK
<1>. QED BY <1>1, Invariance, PTL

\* No browser is shown what a restart of the server would forget.
THEOREM SavedFirst == Spec => []SavedBeforeShown
<1>1. IInv => SavedBeforeShown
  BY DEF IInv, DeliveryInv
<1>. QED BY <1>1, Invariance, PTL

\* Changes of threads are broadcast in the order of the app-server.
THEOREM InOrder == Spec => []ShownInOrder
<1>1. IInv => ShownInOrder
  BY DEF IInv, DeliveryInv
<1>. QED BY <1>1, Invariance, PTL

\* A hub is registered once or not at all, in every order of calls and promises.
THEOREM OneRegistration == Spec => []RegisteredOnce
<1>1. IInv => RegisteredOnce
  BY DEF IInv, PageInv
<1>. QED BY <1>1, Invariance, PTL

\* A page has one connection, but for those a late close event made it forget.
THEOREM OneConnection == Spec => []OneSocket
<1>1. IInv => OneSocket
  BY DEF IInv, PageInv
<1>. QED BY <1>1, Invariance, PTL

\* A page that listens has a socket, or a timer that will open one.
THEOREM Connects == Spec => []WillConnect
<1>1. IInv => WillConnect
  BY DEF IInv, PageInv
<1>. QED BY <1>1, Invariance, PTL

-------------------------------------------------------------------------------
(***************************************************************************)
(* The whole way.  That callbacks get events in order needs to know that   *)
(* what is on the wire of a live socket may follow what a callback got,    *)
(* and that a wire starts empty whenever its socket is used again.         *)
(***************************************************************************)

Event == [hub : Hubs, id : Nat]
Carries(s) == socket[s] \in {"open", "lost"}
WasShown(a) == \E i \in 1..Len(shown) : shown[i] = a

WayTypes ==
  /\ wire \in [Sockets -> Seq(Event)]
  /\ got \in [Subscribers -> Seq(Nat)]

WayShown ==
  /\ \A l \in Subscribers : \A x \in 1..Len(got[l]) : WasShown(got[l][x])
  /\ \A s \in Sockets : \A i \in 1..Len(wire[s]) : WasShown(wire[s][i].id)
  /\ \A s \in Sockets : socket[s] \in {"free", "connecting"} => wire[s] = <<>>

WayInOrder ==
  ~stale =>
    /\ \A l \in Subscribers : \A x, y \in 1..Len(got[l]) :
         x < y => Precedes(got[l][x], got[l][y])
    /\ \A s \in Sockets : Carries(s) =>
         /\ \A i, j \in 1..Len(wire[s]) :
              i < j => Precedes(wire[s][i].id, wire[s][j].id)
         /\ \A l \in Subscribers : \A x \in 1..Len(got[l]), i \in 1..Len(wire[s]) :
              Precedes(got[l][x], wire[s][i].id)

WayInv == WayTypes /\ WayShown /\ WayInOrder

\* A step that brings no event further.
LEMMA QuietStep ==
  ASSUME WayInv, UNCHANGED <<notes, shown, got>>, stale => stale',
         wire' \in [Sockets -> Seq(Event)],
         \A s \in Sockets :
           /\ wire'[s] = wire[s] \/ wire'[s] = <<>>
           /\ Carries(s)' => Carries(s) \/ wire'[s] = <<>>
           /\ socket'[s] \in {"free", "connecting"} => wire'[s] = <<>>
  PROVE  WayInv'
<1>1. \A a, b : Precedes(a, b)' <=> Precedes(a, b)
  BY DEF Precedes, Overtakes, Saved
<1>2. \A a : WasShown(a)' <=> WasShown(a)
  BY DEF WasShown
<1>3. WayTypes' /\ WayShown'
  BY <1>2 DEF WayInv, WayTypes, WayShown
<1>4. WayInOrder'
  <2>1. CASE stale'
    BY <2>1 DEF WayInOrder
  <2>2. CASE ~stale'
    <3>1. ~stale
      BY <2>2
    <3>2. \A l \in Subscribers : \A x, y \in 1..Len(got[l]) :
            x < y => Precedes(got[l][x], got[l][y])
      BY <3>1 DEF WayInv, WayInOrder
    <3>3. ASSUME NEW s \in Sockets, wire'[s] # <<>>, Carries(s)'
          PROVE  /\ wire'[s] = wire[s]
                 /\ \A i, j \in 1..Len(wire[s]) :
                      i < j => Precedes(wire[s][i].id, wire[s][j].id)
                 /\ \A l \in Subscribers : \A x \in 1..Len(got[l]), i \in 1..Len(wire[s]) :
                      Precedes(got[l][x], wire[s][i].id)
      BY <3>1, <3>3 DEF WayInv, WayInOrder
    <3>4. \A s \in Sockets : wire'[s] = <<>> => 1..Len(wire'[s]) = {}
      OBVIOUS
    <3>. QED BY <1>1, <3>2, <3>3, <3>4 DEF WayInOrder
  <2>. QED BY <2>1, <2>2
<1>. QED BY <1>3, <1>4 DEF WayInv

\* A broadcast: the new event may follow everything shown, and so everything that
\* is on a wire or was got.
LEMMA BroadcastStep ==
  ASSUME IInv, WayInv, Broadcasts, NewFollows, stale' = stale,
         \A a \in 1..Len(notes) : Saved(a)' <=> Saved(a)
  PROVE  WayInv'
<1>0. UNCHANGED <<got, socket, stale>> /\ WayTypes /\ WayShown
  BY DEF Broadcasts, pageVars, WayInv
<1>1. \A a : WasShown(a) => a \in Nat /\ a \in 1..Len(notes)
  <2>1. \A x \in 1..Len(shown) : shown[x] \in Nat /\ shown[x] \in 1..Len(notes)
    <3>1. shown \in Seq(Ids) /\ Len(notes) \in Nat /\ Ids \subseteq Nat \ {0}
      BY DEF IInv, DeliveryInv, DeliveryTypeOK
    <3>2. \A x \in 1..Len(shown) : shown[x] \in Ids
      <4> HIDE DEF Ids
      <4>. QED BY <3>1, SeqFacts
    <3>. QED BY <3>1, <3>2 DEF IInv, DeliveryInv, ChainInv
  <2>. QED BY <2>1 DEF WasShown
<1>2. \A a, b : WasShown(a) /\ WasShown(b) /\ Precedes(a, b) => Precedes(a, b)'
  BY <1>1 DEF Precedes, Overtakes
<1>3. \A a : WasShown(a) => WasShown(a)'
  <2>1. shown \in Seq(Ids)
    BY DEF IInv, DeliveryInv, DeliveryTypeOK
  <2>2. CASE shown' = shown
    BY <2>2 DEF WasShown
  <2>3. ASSUME NEW n \in 1..Len(notes'), shown' = Append(shown, n) PROVE \A a : WasShown(a) => WasShown(a)'
    <3>1. Len(shown') = Len(shown) + 1 /\ \A x \in 1..Len(shown) : shown'[x] = shown[x]
      BY <2>1, <2>3
    <3>2. 1..Len(shown) \subseteq 1..Len(shown')
      BY <2>1, <3>1
    <3>. QED BY <3>1, <3>2 DEF WasShown
  <2>. QED BY <2>2, <2>3 DEF NewFollows
<1>4. CASE shown' = shown
  <2>1. wire' = wire
    BY <1>4 DEF Broadcasts
  <2>2. WayShown' /\ WayTypes'
    BY <1>0, <1>3, <2>1 DEF WayShown, WayTypes
  <2>3. WayInOrder'
    <3> SUFFICES ASSUME ~stale PROVE WayInOrder'
      BY <1>0 DEF WayInOrder
    <3>1. (\A l \in Subscribers : \A x, y \in 1..Len(got[l]) :
             x < y => Precedes(got[l][x], got[l][y]))'
      BY <1>0, <1>2 DEF WayShown, WayInv, WayInOrder
    <3>2. ASSUME NEW s \in Sockets, Carries(s), NEW i \in 1..Len(wire[s]), NEW j \in 1..Len(wire[s]), i < j
          PROVE  Precedes(wire[s][i].id, wire[s][j].id)'
      <4>1. /\ WasShown(wire[s][i].id) /\ WasShown(wire[s][j].id)
            /\ Precedes(wire[s][i].id, wire[s][j].id)
        BY <1>0, <3>2 DEF WayShown, WayInv, WayInOrder
      <4>. QED BY <1>2, <2>1, <4>1
    <3>3. ASSUME NEW s \in Sockets, Carries(s), NEW l \in Subscribers,
                 NEW x \in 1..Len(got[l]), NEW i \in 1..Len(wire[s])
          PROVE  Precedes(got[l][x], wire[s][i].id)'
      <4>1. /\ WasShown(got[l][x]) /\ WasShown(wire[s][i].id)
            /\ Precedes(got[l][x], wire[s][i].id)
        BY <1>0, <3>3 DEF WayShown, WayInv, WayInOrder
      <4>. QED BY <1>0, <1>2, <2>1, <4>1
    <3>. QED BY <1>0, <2>1, <3>1, <3>2, <3>3 DEF WayInOrder, Carries
  <2>. QED BY <2>2, <2>3 DEF WayInv
<1>5. ASSUME NEW n \in 1..Len(notes'), shown' = Append(shown, n),
             \A x \in 1..Len(shown) : Precedes(shown[x], n)', shown' # shown
      PROVE  WayInv'
  <2> DEFINE e == [hub |-> AppServerEvent, id |-> n]
  <2>1. e \in Event /\ n \in Nat
    BY PathAssumption DEF Event
  <2>2. shown \in Seq(Ids)
    BY DEF IInv, DeliveryInv, DeliveryTypeOK
  <2>3. Len(shown') = Len(shown) + 1 /\ shown'[Len(shown) + 1] = n /\ Len(shown) \in Nat
        /\ \A x \in 1..Len(shown) : shown'[x] = shown[x]
    BY <1>5, <2>2
  <2>4. \A a : WasShown(a) => Precedes(a, n)'
    BY <1>5, <2>3 DEF WasShown, Precedes, Overtakes
  <2>5. WasShown(n)'
    BY <2>3 DEF WasShown
  <2>6. wire' = [s \in Sockets |-> IF socket[s] = "open" THEN Append(wire[s], e) ELSE wire[s]]
    <3>1. shown'[Len(shown')] = n
      BY <2>3
    <3>. QED BY <1>5, <3>1 DEF Broadcasts, sent
  <2>7. ASSUME NEW s \in Sockets
        PROVE  /\ wire[s] \in Seq(Event) /\ Len(wire[s]) \in Nat
               /\ \/ wire'[s] = wire[s]
                  \/ /\ socket[s] = "open" /\ wire'[s] \in Seq(Event)
                     /\ Len(wire'[s]) = Len(wire[s]) + 1
                     /\ wire'[s][Len(wire[s]) + 1].id = n
                     /\ \A i \in 1..Len(wire[s]) : wire'[s][i] = wire[s][i]
    <3>1. wire[s] \in Seq(Event)
      BY <1>0 DEF WayTypes
    <3>2. wire'[s] = IF socket[s] = "open" THEN Append(wire[s], e) ELSE wire[s]
      BY <2>6
    <3>3. e.id = n
      OBVIOUS
    <3> HIDE DEF e
    <3>. QED BY <2>1, <3>1, <3>2, <3>3, AppendFacts
  <2> HIDE DEF e
  <2>8. WayTypes'
    BY <1>0, <2>6, <2>7 DEF WayTypes
  <2>9. ASSUME NEW s \in Sockets, NEW i \in 1..Len(wire'[s])
        PROVE  \/ i \in 1..Len(wire[s]) /\ wire'[s][i] = wire[s][i]
               \/ wire'[s][i].id = n /\ i = Len(wire[s]) + 1
    BY <2>7
  <2>10. WayShown'
    <3>1. (\A s \in Sockets : \A i \in 1..Len(wire[s]) : WasShown(wire[s][i].id))'
      <4> SUFFICES ASSUME NEW s \in Sockets, NEW i \in 1..Len(wire'[s])
                   PROVE  WasShown(wire[s][i].id)'
        OBVIOUS
      <4>. QED BY <1>0, <1>3, <2>5, <2>9 DEF WayShown
    <3>2. (\A s \in Sockets : socket[s] \in {"free", "connecting"} => wire[s] = <<>>)'
      BY <1>0, <2>7 DEF WayShown
    <3>. QED BY <1>0, <1>3, <3>1, <3>2 DEF WayShown
  <2>11. WayInOrder'
    <3> SUFFICES ASSUME ~stale PROVE WayInOrder'
      BY <1>0 DEF WayInOrder
    <3>1. (\A l \in Subscribers : \A x, y \in 1..Len(got[l]) :
             x < y => Precedes(got[l][x], got[l][y]))'
      BY <1>0, <1>2 DEF WayShown, WayInv, WayInOrder
    <3>2. ASSUME NEW s \in Sockets, Carries(s), NEW i \in 1..Len(wire'[s]), NEW j \in 1..Len(wire'[s]), i < j
          PROVE  Precedes(wire[s][i].id, wire[s][j].id)'
      <4>1. i \in 1..Len(wire[s]) /\ wire'[s][i] = wire[s][i]
        BY <2>7, <2>9, <3>2
      <4>2. WasShown(wire[s][i].id)
        BY <1>0, <4>1 DEF WayShown
      <4>3. CASE j \in 1..Len(wire[s]) /\ wire'[s][j] = wire[s][j]
        BY <1>0, <1>2, <3>2, <4>1, <4>2, <4>3 DEF WayShown, WayInv, WayInOrder
      <4>4. CASE wire'[s][j].id = n
        BY <2>4, <4>1, <4>2, <4>4 DEF Precedes, Overtakes
      <4>. QED BY <2>9, <4>3, <4>4
    <3>3. ASSUME NEW s \in Sockets, Carries(s), NEW l \in Subscribers,
                 NEW x \in 1..Len(got[l]), NEW i \in 1..Len(wire'[s])
          PROVE  Precedes(got[l][x], wire[s][i].id)'
      <4>2. WasShown(got[l][x]) /\ got' = got
        BY <1>0 DEF WayShown
      <4>3. CASE i \in 1..Len(wire[s]) /\ wire'[s][i] = wire[s][i]
        BY <1>0, <1>2, <3>3, <4>2, <4>3 DEF WayShown, WayInv, WayInOrder
      <4>4. CASE wire'[s][i].id = n
        BY <2>4, <4>2, <4>4 DEF Precedes, Overtakes
      <4>. QED BY <2>9, <4>3, <4>4
    <3>. QED BY <1>0, <3>1, <3>2, <3>3 DEF WayInOrder, Carries
  <2>. QED BY <2>8, <2>10, <2>11 DEF WayInv
<1>. QED BY <1>4, <1>5 DEF NewFollows

\* A message is handled: its listeners, registered once, get it once.
LEMMA MessageStep ==
  ASSUME IInv, WayInv, NEW s \in Sockets, onMessage(s), UNCHANGED deliveryVars
  PROVE  WayInv'
<1> DEFINE e == Head(wire[s])
<1>0. /\ wire[s] \in Seq(Event) /\ wire[s] # <<>> /\ Carries(s)
      /\ WayTypes /\ WayShown
      /\ UNCHANGED <<notes, shown, stale, socket>>
  BY DEF onMessage, WayInv, WayTypes, deliveryVars, Carries, hubVars
<1>1. /\ e = wire[s][1] /\ 1 \in 1..Len(wire[s]) /\ Len(wire[s]) \in Nat
      /\ Tail(wire[s]) \in Seq(Event)
      /\ Len(Tail(wire[s])) = Len(wire[s]) - 1
      /\ \A i \in 1..Len(Tail(wire[s])) : Tail(wire[s])[i] = wire[s][i + 1]
                                          /\ i + 1 \in 1..Len(wire[s])
  BY <1>0, HeadTailProperties
<1>2. PICK n \in Nat : n = e.id
  <2>1. e \in Event
    BY <1>0
  <2>. QED BY <2>1 DEF Event
<1>3. e.hub \in Hubs
  <2>1. e \in Event
    BY <1>0
  <2>. QED BY <2>1 DEF Event
<1>4. /\ \A t \in Sockets : t # s => wire'[t] = wire[t]
      /\ wire'[s] = Tail(wire[s])
      /\ wire' \in [Sockets -> Seq(Event)]
  BY <1>0, <1>1 DEF onMessage, WayTypes
<1>5. ASSUME NEW l \in Subscribers
      PROVE  /\ got'[l] \in Seq(Nat) /\ got[l] \in Seq(Nat) /\ Len(got[l]) \in Nat
             /\ \/ got'[l] = got[l]
                \/ /\ Len(got'[l]) = Len(got[l]) + 1 /\ got'[l][Len(got[l]) + 1] = n
                   /\ \A x \in 1..Len(got[l]) : got'[l][x] = got[l][x]
  <2>1. got[l] \in Seq(Nat)
    BY <1>0 DEF WayTypes
  <2>2. CASE l \in listeners[e.hub]
    <3>1. registered[e.hub] = 1
      BY <1>3, <2>2 DEF IInv, PageInv, RegisteredOnce
    <3>2. got'[l] = got[l] \o Times(n, 1)
      BY <1>2, <2>2, <3>1 DEF onMessage
    <3>3. Times(n, 1) = <<n>>
      BY DEF Times
    <3>4. got'[l] = Append(got[l], n)
      BY <2>1, <3>2, <3>3, AppendIsConcat
    <3>. QED BY <2>1, <3>4, AppendFacts
  <2>3. CASE l \notin listeners[e.hub]
    BY <2>1, <2>3 DEF onMessage
  <2>. QED BY <2>2, <2>3
<1>6. got' \in [Subscribers -> Seq(Nat)]
  <2>1. got' = [l \in Subscribers |-> got'[l]]
    BY DEF onMessage
  <2>. QED BY <1>5, <2>1
<1>7. WayTypes'
  BY <1>4, <1>6 DEF WayTypes
<1> HIDE DEF e
<1>8. ASSUME NEW l \in Subscribers, NEW x \in 1..Len(got'[l])
      PROVE  \/ x \in 1..Len(got[l]) /\ got'[l][x] = got[l][x]
             \/ got'[l][x] = n /\ x = Len(got[l]) + 1
  <2>1. Len(got[l]) \in Nat
    BY <1>5
  <2>2. CASE got'[l] = got[l]
    BY <2>2
  <2>3. CASE /\ Len(got'[l]) = Len(got[l]) + 1 /\ got'[l][Len(got[l]) + 1] = n
             /\ \A y \in 1..Len(got[l]) : got'[l][y] = got[l][y]
    BY <2>1, <2>3
  <2>. QED BY <1>5, <2>2, <2>3
<1>9. \A a, b : Precedes(a, b)' <=> Precedes(a, b)
  BY <1>0 DEF Precedes, Overtakes, Saved
<1>10. (\A a : WasShown(a)' <=> WasShown(a)) /\ WasShown(n)
  BY <1>0, <1>1, <1>2 DEF WasShown, WayShown
<1>11. ASSUME NEW t \in Sockets, NEW i \in 1..Len(wire'[t])
       PROVE  \/ t # s /\ wire'[t] = wire[t]
              \/ /\ t = s /\ i + 1 \in 1..Len(wire[t]) /\ wire'[t][i] = wire[t][i + 1]
                 /\ 1 < i + 1
  <2>1. CASE t # s
    BY <1>4, <2>1
  <2>2. CASE t = s
    <3>1. wire'[t] = Tail(wire[s]) /\ i \in 1..Len(Tail(wire[s]))
      BY <1>4, <2>2
    <3>2. 1 < i + 1
      BY <1>1, <3>1
    <3>. QED BY <1>1, <2>2, <3>1, <3>2
  <2>. QED BY <2>1, <2>2
<1>12. WayShown'
  <2>1. (\A l \in Subscribers : \A x \in 1..Len(got[l]) : WasShown(got[l][x]))'
    BY <1>0, <1>8, <1>10 DEF WayShown
  <2>2. (\A t \in Sockets : \A i \in 1..Len(wire[t]) : WasShown(wire[t][i].id))'
    <3> SUFFICES ASSUME NEW t \in Sockets, NEW i \in 1..Len(wire'[t])
                 PROVE  WasShown(wire[t][i].id)'
      OBVIOUS
    <3>. QED BY <1>0, <1>10, <1>11 DEF WayShown
  <2>3. (\A t \in Sockets : socket[t] \in {"free", "connecting"} => wire[t] = <<>>)'
    BY <1>0, <1>4 DEF WayShown, Carries
  <2>. QED BY <2>1, <2>2, <2>3 DEF WayShown
<1>13. WayInOrder'
  <2> SUFFICES ASSUME ~stale PROVE WayInOrder'
    BY <1>0 DEF WayInOrder
  <2>0. \A l \in Subscribers : \A x \in 1..Len(got[l]) : Precedes(got[l][x], n)
    BY <1>0, <1>1, <1>2 DEF WayInv, WayInOrder
  <2>1. (\A l \in Subscribers : \A x, y \in 1..Len(got[l]) :
           x < y => Precedes(got[l][x], got[l][y]))'
    <3> SUFFICES ASSUME NEW l \in Subscribers, NEW x \in 1..Len(got'[l]),
                        NEW y \in 1..Len(got'[l]), x < y
                 PROVE  Precedes(got'[l][x], got'[l][y])
      BY <1>9
    <3>0. Len(got[l]) \in Nat /\ Len(got'[l]) \in {Len(got[l]), Len(got[l]) + 1}
      BY <1>5
    <3>1. x \in 1..Len(got[l]) /\ got'[l][x] = got[l][x]
      <4>1. x # Len(got[l]) + 1
        BY <3>0
      <4>. QED BY <1>8, <4>1
    <3>2. CASE y \in 1..Len(got[l]) /\ got'[l][y] = got[l][y]
      BY <3>1, <3>2 DEF WayInv, WayInOrder
    <3>3. CASE got'[l][y] = n
      BY <2>0, <3>1, <3>3
    <3>. QED BY <1>8, <3>2, <3>3
  <2>2. ASSUME NEW t \in Sockets, Carries(t)
        PROVE  t = s
    BY <1>0, <2>2 DEF Carries, IInv, PageInv, OneSocket
  <2>3. ASSUME NEW i \in 1..Len(wire'[s]), NEW j \in 1..Len(wire'[s]), i < j
        PROVE  Precedes(wire'[s][i].id, wire'[s][j].id)
    <3>1. /\ i + 1 \in 1..Len(wire[s]) /\ wire'[s][i] = wire[s][i + 1]
          /\ j + 1 \in 1..Len(wire[s]) /\ wire'[s][j] = wire[s][j + 1]
          /\ i + 1 < j + 1
      BY <1>11, <2>3
    <3>. QED BY <1>0, <3>1 DEF WayInv, WayInOrder
  <2>4. ASSUME NEW l \in Subscribers, NEW x \in 1..Len(got'[l]), NEW i \in 1..Len(wire'[s])
        PROVE  Precedes(got'[l][x], wire'[s][i].id)
    <3>1. i + 1 \in 1..Len(wire[s]) /\ wire'[s][i] = wire[s][i + 1] /\ 1 < i + 1
      BY <1>11
    <3>2. CASE x \in 1..Len(got[l]) /\ got'[l][x] = got[l][x]
      BY <1>0, <3>1, <3>2 DEF WayInv, WayInOrder
    <3>3. CASE got'[l][x] = n
      BY <1>0, <1>1, <1>2, <3>1, <3>3 DEF WayInv, WayInOrder
    <3>. QED BY <1>8, <3>2, <3>3
  <2>. QED BY <1>0, <1>9, <2>1, <2>2, <2>3, <2>4 DEF WayInOrder, Carries
<1>. QED BY <1>7, <1>12, <1>13 DEF WayInv

LEMMA WayStep == IInv /\ WayInv /\ [Next]_vars => WayInv'
<1> SUFFICES ASSUME IInv, WayInv, [Next]_vars PROVE WayInv'
  OBVIOUS
<1>0. /\ EventSocketTypeOK /\ WayTypes /\ WayShown
      /\ \A s \in Sockets : Carries(s) <=> socket[s] \in {"open", "lost"}
      /\ \A s \in Sockets : Carries(s)' <=> socket'[s] \in {"open", "lost"}
  BY DEF IInv, PageInv, WayInv, Carries
<1>1. CASE Notification
  <2>1. PICK note \in Notes : arrive(note)
    BY <1>1 DEF Notification
  <2>2. NewFollows /\ \A a \in 1..Len(notes) : Saved(a)' <=> Saved(a)
    BY <2>1, ArriveStep, NotesStay DEF IInv, DeliveryInv, arrive
  <2>. QED BY <1>1, <2>2, BroadcastStep DEF Notification, Broadcasts, pageVars
<1>2. CASE Saving
  <2>1. NewFollows /\ \A a \in 1..Len(notes) : Saved(a)' <=> Saved(a)
    BY <1>2, SaveEndsStep DEF Saving, IInv, saveEnds, Saved
  <2>. QED BY <1>2, <2>1, BroadcastStep DEF Saving, Broadcasts, pageVars
<1>3. CASE ServerEnds
  <2>1. /\ UNCHANGED <<notes, shown, got, stale, wire>>
        /\ \A s \in Sockets : \/ socket'[s] = socket[s]
                              \/ socket'[s] = "lost" /\ socket[s] \in {"connecting", "open"}
    <3>1. UNCHANGED <<notes, shown, got, stale, wire>>
      BY <1>3 DEF ServerEnds, processEnds, lose
    <3>2. lose({s \in Sockets : socket[s] \in {"connecting", "open"}})
      BY <1>3 DEF ServerEnds
    <3>. QED BY <1>0, <3>1, <3>2, LoseFacts
  <2>. QED BY <1>0, <2>1, QuietStep DEF WayTypes, WayShown
<1>4. CASE ServerStarts
  BY <1>0, <1>4, QuietStep DEF ServerStarts, restart, socketVars, WayTypes, WayShown
<1>5. CASE Connection
  <2>1. UNCHANGED <<notes, shown>>
    BY <1>5 DEF Connection, deliveryVars
  <2>2. ASSUME NEW s \in Sockets, accept(s) PROVE WayInv'
    <3>1. /\ UNCHANGED <<got, stale, wire>> /\ socket[s] = "connecting"
          /\ \A t \in Sockets : socket'[t] = IF t = s THEN "open" ELSE socket[t]
      BY <1>0, <2>2 DEF accept, EventSocketTypeOK
    <3>. QED BY <1>0, <2>1, <3>1, QuietStep DEF WayTypes, WayShown
  <2>3. ASSUME loseOne PROVE WayInv'
    <3>1. /\ UNCHANGED <<got, stale, wire>>
          /\ \A s \in Sockets : \/ socket'[s] = socket[s]
                                \/ socket'[s] = "lost" /\ socket[s] \in {"connecting", "open"}
      <4>1. PICK s \in Sockets : socket[s] \in {"connecting", "open"} /\ lose({s})
        BY <2>3 DEF loseOne
      <4>2. UNCHANGED <<got, stale, wire>>
        BY <4>1 DEF lose
      <4>. QED BY <1>0, <4>1, <4>2, LoseFacts
    <3>. QED BY <1>0, <2>1, <3>1, QuietStep DEF WayTypes, WayShown
  <2>. QED BY <1>5, <2>2, <2>3 DEF Connection
<1>6. CASE InPage
  <2>1. UNCHANGED deliveryVars /\ UNCHANGED <<notes, shown>>
    BY <1>6 DEF InPage, deliveryVars
  <2>2. ASSUME UNCHANGED <<got, stale, wire>>, socket' = socket \/ connectWebSocket
        PROVE  WayInv'
    <3>1. \A s \in Sockets : \/ socket'[s] = socket[s]
                             \/ socket[s] = "free" /\ socket'[s] = "connecting"
      <4>1. CASE connectWebSocket
        <5>1. webSocket' \in Sockets
          BY <1>0, <4>1, ConnectFacts
        <5>2. \/ socket' = socket
              \/ socket[webSocket'] = "free" /\ socket' = [socket EXCEPT ![webSocket'] = "connecting"]
          BY <1>0, <4>1, ConnectFacts
        <5>. QED BY <1>0, <5>1, <5>2 DEF EventSocketTypeOK
      <4>. QED BY <2>2, <4>1
    <3>. QED BY <1>0, <2>1, <2>2, <3>1, QuietStep DEF WayTypes, WayShown
  <2>3. ASSUME UNCHANGED <<got, stale, wire>>, NEW h \in Hubs, hub[h] # "off", unlisten(h)
        PROVE  WayInv'
    <3>1. \A s \in Sockets : socket'[s] = socket[s] \/ socket'[s] = "closing"
      BY <1>0, <2>3, UnlistenFacts DEF IInv, PageInv, EventSocketTypeOK
    <3>. QED BY <1>0, <2>1, <2>3, <3>1, QuietStep DEF WayTypes, WayShown
  <2>4. ASSUME NEW l \in Subscribers, subscribe(l) PROVE WayInv'
    BY <2>2, <2>4 DEF subscribe
  <2>5. ASSUME NEW l \in Subscribers, unsubscribe(l) PROVE WayInv'
    <3>1. HubOf[l] \in Hubs
      BY SocketAssumption
    <3>. QED BY <2>2, <2>3, <2>5, <3>1 DEF unsubscribe, stop
  <2>6. ASSUME NEW h \in Hubs, listening(h) PROVE WayInv'
    BY <2>2, <2>3, <2>6 DEF listening
  <2>7. ASSUME NEW s \in Sockets, onClose(s) PROVE WayInv'
    <3>1. /\ got' = got /\ (stale => stale')
          /\ wire' = [wire EXCEPT ![s] = <<>>]
          /\ \A t \in Sockets : socket'[t] = IF t = s THEN "free" ELSE socket[t]
      BY <1>0, <2>7 DEF onClose, EventSocketTypeOK
    <3>2. /\ wire' \in [Sockets -> Seq(Event)]
          /\ \A t \in Sockets : wire'[t] = IF t = s THEN <<>> ELSE wire[t]
      <4>1. <<>> \in Seq(Event)
        OBVIOUS
      <4>. QED BY <1>0, <3>1, <4>1 DEF WayTypes
    <3>3. ASSUME NEW t \in Sockets
          PROVE  /\ wire'[t] = wire[t] \/ wire'[t] = <<>>
                 /\ Carries(t)' => Carries(t) \/ wire'[t] = <<>>
                 /\ socket'[t] \in {"free", "connecting"} => wire'[t] = <<>>
      BY <1>0, <3>1, <3>2 DEF WayShown
    <3>4. wire' \in [Sockets -> Seq(Event)] /\ got' = got /\ (stale => stale')
      BY <3>1, <3>2
    <3>. QED BY <2>1, <3>3, <3>4, QuietStep
  <2>8. ASSUME reconnectTimer PROVE WayInv'
    BY <2>2, <2>8 DEF reconnectTimer
  <2>. QED BY <1>6, <2>1, <2>4, <2>5, <2>6, <2>7, <2>8, MessageStep DEF InPage, Page
<1>7. CASE UNCHANGED vars
  BY <1>0, <1>7, QuietStep DEF vars, deliveryVars, socketVars, WayTypes, WayShown
<1>. QED BY <1>1, <1>2, <1>3, <1>4, <1>5, <1>6, <1>7 DEF Next

LEMMA InitWay == Init => WayInv
<1> SUFFICES ASSUME Init PROVE WayInv
  OBVIOUS
<1>1. /\ \A s \in Sockets : wire[s] = <<>>
      /\ \A l \in Subscribers : got[l] = <<>>
      /\ wire = [s \in Sockets |-> <<>>] /\ got = [l \in Subscribers |-> <<>>]
  BY DEF Init, EventSocketInit
<1>2. WayTypes
  BY <1>1 DEF WayTypes
<1>3. Len(<<>>) = 0 /\ 1..0 = {}
  OBVIOUS
<1>. QED BY <1>1, <1>2, <1>3 DEF WayInv, WayShown, WayInOrder

\* From the app-server to the callback: in order and nothing twice, across lost
\* connections and restarts of the server.
THEOREM EventsInOrder == Spec => []GotInOrder
<1>1. IInv /\ WayInv => GotInOrder
  BY DEF WayInv, WayInOrder, GotInOrder, Precedes
<1>2. Init => IInv /\ WayInv
  BY InitInv, InitWay
<1>. QED BY <1>1, <1>2, InvStep, WayStep, PTL DEF Spec
===============================================================================

---------------------------- MODULE ThreadStateProofs ---------------------------
(***************************************************************************)
(* Theorems about ThreadState, for any threads, calls, methods and number  *)
(* of turns.                                                               *)
(*                                                                         *)
(* A message is refused when the object its handler holds has an active    *)
(* turn.  That object got it from a thread/read, from a turn/started that  *)
(* was handled since, or from the answer to another message that holds the *)
(* same object.  BusyInv follows each of them back to the moment the       *)
(* app-server had the turn: what says so now, or is on its way and will    *)
(* say so, is younger than the call.  An older turn/started does not       *)
(* count: it is before the answer in stdout, and so handled before it.     *)
(***************************************************************************)
EXTENDS ThreadState, SequenceTheorems, FiniteSetTheorems, TLAPS

Waits == {"reading", "asked", "syncing"}
Given == {"answer", "empty"}
Reply(line, k) == line.kind \in Replies /\ line.call = {k}
SaysBusy(snap) == snap.status # "idle" \/ snap.active # 0
Alarming(line) == \/ line.kind = "empty"
                  \/ line.kind = "answer" /\ SaysBusy(line.snap)
Started(line, t) == line.kind = "turn/started" /\ line.thread = t

\* A request is answered once, while its call waits.
LinesInv ==
  \A n \in 1..Len(stdout) :
    /\ stdout[n].kind \in Replies => \E k \in Calls : Reply(stdout[n], k) /\ stage[k] \in Waits
    /\ stdout[n].kind \in {"turn/started", "turn/completed"} => stdout[n].turn # 0

OneReply ==
  \A k \in Calls : \A m, n \in 1..Len(stdout) :
    Reply(stdout[m], k) /\ Reply(stdout[n], k) => m = n

FramesInv ==
  \A k \in Calls :
    /\ stage[k] \notin Running => frame[k] = NoFrame
    /\ stage[k] \in {"reading", "read", "refreshed"} => frame[k].method = "send_user_message"
    /\ stage[k] \in Running /\ frame[k].method \notin {"start_thread", "resume_thread"} =>
         frame[k].held # 0

\* Threads share no object, and the object a handler holds is, or was, that of its
\* thread; but for the one that start_review has imported.
StoreInv == \A t, u \in Threads : store[t] = store[u] /\ store[t] # 0 => t = u

HeldInv ==
  \A k \in Calls :
    stage[k] # "imported" /\ frame[k].held # 0 =>
      /\ \A t \in Threads : store[t] = frame[k].held => frame[k].thread = t
      /\ \A j \in Calls : stage[j] # "imported" /\ frame[j].held = frame[k].held =>
           frame[j].thread = frame[k].thread

\* The thread of message k has an active turn;
Message(k) == stage[k] \in Running /\ frame[k].method = "send_user_message"
RunsBusy(k) == Message(k) /\ srv[frame[k].thread].active # 0

\* thread/read will say so, or a notification behind its answer;
AnswerBusy(k) ==
  /\ stage[k] = "reading"
  /\ \E n \in 1..Len(stdout) :
       /\ Reply(stdout[n], k)
       /\ \/ Alarming(stdout[n])
          \/ \E m \in 1..Len(stdout) : m > n /\ Started(stdout[m], frame[k].thread)

\* thread/read said so;
ReadBusy(k) ==
  stage[k] = "read" /\ Alarming(frame[k].answer)

\* a notification on its way will;
StartedBehind(k) ==
  /\ stage[k] \in {"read", "refreshed"}
  /\ \E n \in 1..Len(stdout) : Started(stdout[n], frame[k].thread)

\* the object it holds does;
HoldsActive(k) == stage[k] = "refreshed" /\ heap[frame[k].held].active # 0

\* and that object will, because of the answer to another message.
TurnReply(j) ==
  /\ frame[j].method = "send_user_message"
  /\ \/ /\ stage[j] = "asked"
        /\ \E n \in 1..Len(stdout) : stdout[n].kind \in Given /\ stdout[n].call = {j}
     \/ stage[j] = "answered" /\ frame[j].answer.kind # "error"

WillHoldActive(k) ==
  /\ stage[k] = "refreshed"
  /\ \E j \in Calls \ {k} : frame[j].held = frame[k].held /\ TurnReply(j)

MustBeBusy(k) ==
  \/ RunsBusy(k) \/ AnswerBusy(k) \/ ReadBusy(k) \/ StartedBehind(k)
  \/ HoldsActive(k) \/ WillHoldActive(k)

BusyInv == \A k \in Calls : MustBeBusy(k) => k \in Excused

Shape == StateOK /\ LinesInv /\ OneReply /\ FramesInv /\ StoreInv /\ HeldInv
TInv == Shape /\ BusyInv /\ RefusedOnlyIfBusy

-------------------------------------------------------------------------------
\* Objects, lines and frames.

LEMMA RefFacts ==
  /\ 0 \notin Refs /\ Refs \subseteq Nat
  /\ IsFiniteSet(Refs) /\ Cardinality(Refs) = Cardinality(Threads) + Cardinality(Calls) + 1
<1>1. Cardinality(Threads) \in Nat /\ Cardinality(Calls) \in Nat
  BY FS_CardinalityType, ThreadAssumption
<1> DEFINE N == Cardinality(Threads) + Cardinality(Calls) + 1
<1>2. N \in Nat /\ N >= 1
  BY <1>1
<1>. HIDE DEF N
<1>3. IsFiniteSet(1..N) /\ Cardinality(1..N) = IF 1 > N THEN 0 ELSE N - 1 + 1
  BY <1>2, FS_Interval
<1>4. Refs = 1..N
  BY DEF Refs, N
<1>5. Cardinality(Refs) = N
  BY <1>2, <1>3, <1>4
<1>. QED BY <1>2, <1>3, <1>4, <1>5 DEF N

\* There is always an object that neither the map nor a handler refers to.
LEMMA FreeRef ==
  ASSUME StateOK
  PROVE  \E o \in Refs : ~Referenced(o)
<1> SUFFICES ASSUME \A o \in Refs : Referenced(o) PROVE FALSE
  OBVIOUS
<1> DEFINE A == {1} \X Threads
           B == {2} \X Calls
           owner(o) == IF \E t \in Threads : store[t] = o
                       THEN <<1, CHOOSE t \in Threads : store[t] = o>>
                       ELSE <<2, CHOOSE k \in Calls : frame[k].held = o>>
           f == [o \in Refs |-> owner(o)]
<1>1. IsFiniteSet(A) /\ Cardinality(A) = Cardinality(Threads)
  <2>1. IsFiniteSet({1}) /\ Cardinality({1}) = 1
    BY FS_Singleton
  <2>2. IsFiniteSet(A) /\ Cardinality(A) = 1 * Cardinality(Threads)
    BY <2>1, FS_Product, ThreadAssumption
  <2>. QED BY <2>2, FS_CardinalityType, ThreadAssumption
<1>2. IsFiniteSet(B) /\ Cardinality(B) = Cardinality(Calls)
  <2>1. IsFiniteSet({2}) /\ Cardinality({2}) = 1
    BY FS_Singleton
  <2>2. IsFiniteSet(B) /\ Cardinality(B) = 1 * Cardinality(Calls)
    BY <2>1, FS_Product, ThreadAssumption
  <2>. QED BY <2>2, FS_CardinalityType, ThreadAssumption
<1>3. IsFiniteSet(A \cup B) /\ Cardinality(A \cup B) < Cardinality(Refs)
  <2>1. /\ IsFiniteSet(A \cup B)
        /\ Cardinality(A \cup B) = Cardinality(A) + Cardinality(B) - Cardinality(A \cap B)
    BY <1>1, <1>2, FS_Union
  <2>2. A \cap B = {}
    OBVIOUS
  <2>3. Cardinality(A \cap B) = 0
    BY <2>2, FS_EmptySet
  <2>4. Cardinality(Threads) \in Nat /\ Cardinality(Calls) \in Nat
    BY FS_CardinalityType, ThreadAssumption
  <2>. QED BY <1>1, <1>2, <2>1, <2>3, <2>4, RefFacts
<1>4. \A o \in Refs :
        \/ owner(o)[1] = 1 /\ owner(o)[2] \in Threads /\ store[owner(o)[2]] = o /\ owner(o) \in A
        \/ owner(o)[1] = 2 /\ owner(o)[2] \in Calls /\ frame[owner(o)[2]].held = o /\ owner(o) \in B
  BY DEF Referenced
<1>. HIDE DEF owner, A, B
<1>5. f \in [Refs -> A \cup B]
  BY <1>4
<1>6. PICK o \in Refs, p \in Refs : o # p /\ f[o] = f[p]
  <2>. HIDE DEF f
  <2>. QED BY <1>3, <1>5, RefFacts, FS_PigeonHole
<1>7. owner(o) = owner(p)
  BY <1>6
<1>. QED BY <1>4, <1>6, <1>7

LEMMA FrameFacts ==
  ASSUME StateOK, NEW k \in Calls
  PROVE  /\ stage[k] \in Stages /\ frame[k] \in Frames
         /\ frame[k].thread \in Threads /\ frame[k].held \in Refs \cup {0}
         /\ frame[k].answer \in Lines /\ frame[k].answer.thread \in Threads
         /\ frame[k].answer.turn \in 0..MaxTurns /\ frame[k].answer.snap \in Snapshots
BY DEF StateOK, Frames, Lines

LEMMA NoFrameFacts ==
  /\ NoAnswer \in Lines /\ NoFrame \in Frames
  /\ NoFrame.held = 0 /\ NoFrame.method = "none" /\ NoSnap \in Snapshots /\ Garbage \in Objects
  /\ NoAnswer.kind = "error" /\ NoSnap.active = 0 /\ NoSnap.status = "idle"
<1>1. 0 \in 0..MaxTurns /\ NoTurns \in [Turns -> Statuses] /\ First \in Threads
  BY ThreadAssumption DEF NoTurns, Statuses
<1>2. NoSnap \in Snapshots /\ Garbage \in Objects /\ NoSnap.active = 0 /\ NoSnap.status = "idle"
  BY <1>1 DEF NoSnap, Snapshots, Garbage, Objects
<1>3. NoAnswer \in Lines /\ NoAnswer.kind = "error"
  BY <1>1, <1>2 DEF NoAnswer, Lines, LineKinds
<1>. QED BY <1>1, <1>2, <1>3 DEF NoFrame, Frames

LEMMA BuiltFacts ==
  ASSUME StateOK, NEW snap \in Snapshots, NEW o \in Refs \cup {0}
  PROVE  /\ Built(snap, o) \in Objects
         /\ Built(snap, o).active # 0 => SaysBusy(snap)
         /\ o # 0 => Built(snap, o).meta = heap[o].meta
BY ThreadAssumption, RefFacts DEF StateOK, Built, Snapshots, Objects, Alarming, SaysBusy

LEMMA SetActiveFacts ==
  ASSUME heap \in [Refs -> Objects], NEW o \in Refs, NEW u \in 0..MaxTurns, setActiveTurn(o, u)
  PROVE  /\ heap' \in [Refs -> Objects] /\ heap'[o].meta = heap[o].meta
         /\ \A p \in Refs \ {o} : heap'[p] = heap[p]
BY DEF setActiveTurn, Objects, Statuses

LEMMA ClearFacts ==
  ASSUME heap \in [Refs -> Objects], NEW o \in Refs, NEW u \in 0..MaxTurns,
         clearStoredActiveTurn(o, u)
  PROVE  /\ heap' \in [Refs -> Objects] /\ heap'[o].meta = heap[o].meta
         /\ heap'[o].active = 0
         /\ \A p \in Refs \ {o} : heap'[p] = heap[p]
<1> DEFINE ts == IF u = 0 THEN heap[o].turns ELSE [heap[o].turns EXCEPT ![u] = "completed"]
<1>1. heap[o] \in Objects /\ 0 \in 0..MaxTurns
  BY ThreadAssumption
<1>2. ts \in [Turns -> Statuses]
  BY <1>1 DEF Objects, Statuses
<1>3. heap' = [heap EXCEPT ![o].active = 0, ![o].turns = ts]
  BY DEF clearStoredActiveTurn
<1>. HIDE DEF ts
<1>4. heap' = [heap EXCEPT ![o] = [@ EXCEPT !.active = 0, !.turns = ts]]
  BY <1>3
<1>5. [heap[o] EXCEPT !.active = 0, !.turns = ts] \in Objects
  BY <1>1, <1>2 DEF Objects
<1>. QED BY <1>1, <1>4, <1>5 DEF Objects

\* A new object takes the place of the one of thread t; every other object that is still
\* referred to stays as it is.
Replaced(n, new, t, by, next) ==
  /\ ~Referenced(n)
  /\ store' = [store EXCEPT ![t] = n]
  /\ \A k \in Calls \ by : stage'[k] = stage[k] /\ frame'[k] = frame[k]
  /\ \A k \in by : /\ stage'[k] = next
                   /\ frame'[k] = IF next = "done" THEN NoFrame
                                  ELSE [frame[k] EXCEPT !.held = n, !.answer = NoAnswer]
  /\ heap'[n] = new
  /\ \A o \in Refs \ {n} : Referenced(o)' => heap'[o] = heap[o]
  /\ heap' \in [Refs -> Objects] /\ store' \in [Threads -> Refs \cup {0}]
  /\ stage' \in [Calls -> Stages] /\ frame' \in [Calls -> Frames]

LEMMA ReplaceFacts ==
  ASSUME StateOK, NEW new \in Objects, NEW t \in Threads, NEW by \in SUBSET Calls,
         NEW next \in {"refreshed", "imported", "done"}, ReplaceWith(new, t, by, next)
  PROVE  \E n \in Refs : Replaced(n, new, t, by, next)
<1> DEFINE n == CHOOSE o \in Refs : ~Referenced(o)
<1>1. n \in Refs /\ ~Referenced(n)
  BY FreeRef
<1>2. /\ store' = [store EXCEPT ![t] = n]
      /\ stage' = [k \in Calls |-> IF k \in by THEN next ELSE stage[k]]
      /\ frame' = [k \in Calls |->
                     CASE k \notin by   -> frame[k]
                       [] k \in by /\ next = "done" -> NoFrame
                       [] OTHER -> [frame[k] EXCEPT !.held = n, !.answer = NoAnswer]]
      /\ heap' = [o \in Refs |-> IF o = n THEN new
                                 ELSE IF Referenced(o)' THEN heap[o] ELSE Garbage]
  BY DEF ReplaceWith
<1>. HIDE DEF n
<1>3. \A k \in Calls : [frame[k] EXCEPT !.held = n, !.answer = NoAnswer] \in Frames
  BY <1>1, FrameFacts, NoFrameFacts DEF Frames
<1>4. heap' \in [Refs -> Objects]
  BY <1>2, NoFrameFacts DEF StateOK
<1>5. store' \in [Threads -> Refs \cup {0}]
  BY <1>1, <1>2 DEF StateOK
<1>6. stage' \in [Calls -> Stages]
  BY <1>2 DEF StateOK, Stages
<1>7. /\ \A k \in Calls \ by : frame'[k] = frame[k]
      /\ \A k \in by : frame'[k] = IF next = "done" THEN NoFrame
                                   ELSE [frame[k] EXCEPT !.held = n, !.answer = NoAnswer]
  BY <1>2
<1>8. frame' \in [Calls -> Frames]
  <2>1. frame' = [k \in Calls |-> frame'[k]]
    BY <1>2
  <2>2. \A k \in Calls : frame'[k] \in Frames
    BY <1>3, <1>7, FrameFacts, NoFrameFacts
  <2>. QED BY <2>1, <2>2
<1>9. /\ heap'[n] = new
      /\ \A o \in Refs \ {n} : Referenced(o)' => heap'[o] = heap[o]
  BY <1>1, <1>2
<1>. QED BY <1>1, <1>2, <1>4, <1>5, <1>6, <1>7, <1>8, <1>9 DEF Replaced

-------------------------------------------------------------------------------
\* What is on its way.

LEMMA SeqFacts ==
  ASSUME NEW T, NEW s \in Seq(T)
  PROVE  Len(s) \in Nat /\ \A i \in 1..Len(s) : s[i] \in T
OBVIOUS

LEMMA SentFacts ==
  ASSUME NEW T, NEW s \in Seq(T), NEW r \in Seq(T)
  PROVE  /\ s \o r \in Seq(T) /\ Len(s \o r) = Len(s) + Len(r)
         /\ \A n \in 1..Len(s) : (s \o r)[n] = s[n] /\ n \in 1..Len(s \o r)
         /\ \A n \in 1..Len(s \o r) :
              n \in 1..Len(s) \/ (n - Len(s) \in 1..Len(r) /\ (s \o r)[n] = r[n - Len(s)])
<1> DEFINE q == s \o r
<1>1. Len(s) \in Nat /\ Len(r) \in Nat
  OBVIOUS
<1>2. /\ q \in Seq(T) /\ Len(q) = Len(s) + Len(r)
      /\ \A n \in 1..(Len(s) + Len(r)) : q[n] = IF n <= Len(s) THEN s[n] ELSE r[n - Len(s)]
  BY ConcatProperties
<1>. HIDE DEF q
<1>3. \A n \in 1..Len(s) : q[n] = s[n] /\ n \in 1..Len(q)
  BY <1>1, <1>2
<1>4. \A n \in 1..Len(q) :
        n \in 1..Len(s) \/ (n - Len(s) \in 1..Len(r) /\ q[n] = r[n - Len(s)])
  BY <1>1, <1>2
<1>. QED BY <1>2, <1>3, <1>4 DEF q

LEMMA TakenFacts ==
  ASSUME NEW T, NEW s \in Seq(T), s # <<>>
  PROVE  /\ 1 \in 1..Len(s) /\ Head(s) = s[1] /\ s[1] \in T
         /\ Tail(s) \in Seq(T) /\ Len(Tail(s)) = Len(s) - 1
         /\ \A n \in 1..Len(Tail(s)) : Tail(s)[n] = s[n + 1] /\ n + 1 \in 1..Len(s)
<1>1. Len(s) \in Nat /\ Len(s) >= 1 /\ Head(s) = s[1] /\ Head(s) \in T
  OBVIOUS
<1> DEFINE q == Tail(s)
<1>2. q \in Seq(T) /\ Len(q) = Len(s) - 1 /\ \A n \in 1..Len(q) : q[n] = s[n + 1]
  BY HeadTailProperties
<1>. HIDE DEF q
<1>3. \A n \in 1..Len(q) : n + 1 \in 1..Len(s)
  BY <1>1, <1>2
<1>. QED BY <1>1, <1>2, <1>3 DEF q

\* No reply is on its way to a call that does not wait.
LEMMA NoReply ==
  ASSUME LinesInv, NEW k \in Calls, stage[k] \notin Waits, NEW n \in 1..Len(stdout)
  PROVE  ~Reply(stdout[n], k)
BY DEF LinesInv, Reply

-------------------------------------------------------------------------------
(***************************************************************************)
(* The app-server.  It adds lines to stdout, and begins no turn without    *)
(* making busy the calls that run for the thread.                          *)
(***************************************************************************)
SrvOf == [active : 0..MaxTurns, turns : SUBSET Turns]
Runs(k, t) == Message(k) /\ frame[k].thread = t

\* What may be said of line l, when the app-server sends it
MaySend(l) ==
  /\ l.kind \in Replies => \E k \in Calls : Reply(l, k) /\ Waiting(k)
  /\ l.kind \in {"turn/started", "turn/completed"} => l.turn # 0
  /\ \A k \in Calls :
       /\ Runs(k, l.thread) /\ l.kind = "turn/started" => k \in Excused'
       /\ stage[k] = "reading" /\ Reply(l, k) /\ Alarming(l) => k \in Excused'
       /\ /\ stage[k] = "asked" /\ frame[k].method = "send_user_message"
          /\ Reply(l, k) /\ l.kind \in Given
          => \A j \in Calls : Runs(j, frame[k].thread) => j \in Excused'

ServerStep(lines) ==
  /\ UNCHANGED companionVars
  /\ Send(lines) /\ \A i \in 1..Len(lines) : MaySend(lines[i])
  /\ \A k \in Calls : \A i, j \in 1..Len(lines) :
       Reply(lines[i], k) /\ Reply(lines[j], k) => i = j
  /\ known' \subseteq Threads /\ srv' \in [Threads -> SrvOf] /\ turns' \in 0..MaxTurns
  /\ Excused \subseteq Excused'
  /\ \A k \in Calls : Message(k) /\ srv'[frame[k].thread].active # 0 => k \in Excused'

LEMMA ServerLines ==
  ASSUME TInv, NEW lines \in Seq(Lines), ServerStep(lines)
  PROVE  /\ stdout' \in Seq(Lines) /\ LinesInv' /\ OneReply'
         /\ \A n \in 1..Len(stdout) : stdout'[n] = stdout[n] /\ n \in 1..Len(stdout')
         /\ \A n \in 1..Len(stdout') :
              n \in 1..Len(stdout) \/ (n - Len(stdout) \in 1..Len(lines) /\ MaySend(stdout'[n]))
<1>1. stdout \in Seq(Lines) /\ stdout' = stdout \o lines /\ UNCHANGED <<stage, frame>>
  BY DEF TInv, Shape, StateOK, ServerStep, Send, companionVars
<1>2. /\ stdout' \in Seq(Lines) /\ Len(stdout) \in Nat /\ Len(lines) \in Nat
      /\ \A n \in 1..Len(stdout) : stdout'[n] = stdout[n] /\ n \in 1..Len(stdout')
      /\ \A n \in 1..Len(stdout') :
           n \in 1..Len(stdout)
           \/ (n - Len(stdout) \in 1..Len(lines) /\ stdout'[n] = lines[n - Len(stdout)])
  BY <1>1, SentFacts
<1>3. \A n \in 1..Len(stdout') :
        n \in 1..Len(stdout) \/ (n - Len(stdout) \in 1..Len(lines) /\ MaySend(stdout'[n]))
  BY <1>2 DEF ServerStep
<1>4. LinesInv'
  <2>1. ASSUME NEW n \in 1..Len(stdout')
        PROVE  /\ stdout'[n].kind \in Replies =>
                    \E k \in Calls : Reply(stdout'[n], k) /\ stage[k] \in Waits
               /\ stdout'[n].kind \in {"turn/started", "turn/completed"} => stdout'[n].turn # 0
    <3>1. CASE n \in 1..Len(stdout)
      BY <1>2, <3>1 DEF TInv, Shape, LinesInv
    <3>2. CASE MaySend(stdout'[n])
      BY <3>2 DEF MaySend, Waiting, Waits
    <3>. QED BY <1>3, <3>1, <3>2
  <2>. QED BY <1>1, <2>1 DEF LinesInv, Reply
<1>5. OneReply'
  <2>1. ASSUME NEW k \in Calls, NEW m \in 1..Len(stdout'), NEW n \in 1..Len(stdout'),
               Reply(stdout'[m], k), Reply(stdout'[n], k), m \in 1..Len(stdout)
        PROVE  m = n
    <3>1. Reply(stdout[m], k)
      BY <1>2, <2>1
    <3>2. n \in 1..Len(stdout)
      <4>1. CASE MaySend(stdout'[n])
        <5>1. Waiting(k)
          BY <2>1, <4>1 DEF MaySend, Reply
        <5>. QED BY <2>1, <3>1, <5>1 DEF Waiting, Reply, Replies
      <4>. QED BY <1>3, <4>1
    <3>. QED BY <1>2, <2>1, <3>1, <3>2 DEF TInv, Shape, OneReply
  <2>2. ASSUME NEW k \in Calls, NEW m \in 1..Len(stdout'), NEW n \in 1..Len(stdout'),
               Reply(stdout'[m], k), Reply(stdout'[n], k),
               m \notin 1..Len(stdout), n \notin 1..Len(stdout)
        PROVE  m = n
    <3>1. /\ m - Len(stdout) \in 1..Len(lines) /\ Reply(lines[m - Len(stdout)], k)
          /\ n - Len(stdout) \in 1..Len(lines) /\ Reply(lines[n - Len(stdout)], k)
      BY <1>2, <2>2
    <3>2. m - Len(stdout) = n - Len(stdout)
      BY <3>1 DEF ServerStep
    <3>. QED BY <1>2, <3>2
  <2>. QED BY <2>1, <2>2 DEF OneReply, Reply
<1>. QED BY <1>2, <1>3, <1>4, <1>5

LEMMA ServerStepKeeps ==
  ASSUME TInv, NEW lines \in Seq(Lines), ServerStep(lines)
  PROVE  TInv'
<1>1. /\ stdout' \in Seq(Lines) /\ LinesInv' /\ OneReply'
      /\ \A n \in 1..Len(stdout) : stdout'[n] = stdout[n] /\ n \in 1..Len(stdout')
      /\ \A n \in 1..Len(stdout') :
           n \in 1..Len(stdout) \/ (n - Len(stdout) \in 1..Len(lines) /\ MaySend(stdout'[n]))
  BY ServerLines
<1>2. UNCHANGED <<heap, store, stage, frame, chunk>> /\ Excused \subseteq Excused'
  BY DEF ServerStep, companionVars
<1>3. StateOK'
  BY <1>1, <1>2 DEF ServerStep, SrvOf, TInv, Shape, StateOK
<1>4. FramesInv' /\ StoreInv' /\ HeldInv' /\ RefusedOnlyIfBusy'
  BY <1>2 DEF TInv, Shape, FramesInv, StoreInv, HeldInv, RefusedOnlyIfBusy
<1>5. \A k \in Calls : MustBeBusy(k) => k \in Excused'
  BY <1>2 DEF TInv, BusyInv
<1>6. ASSUME NEW k \in Calls, MustBeBusy(k)'
      PROVE  k \in Excused'
  <2>1. CASE RunsBusy(k)'
    BY <1>2, <2>1 DEF RunsBusy, Message, ServerStep
  <2>2. CASE AnswerBusy(k)'
    <3>1. PICK n \in 1..Len(stdout') :
            /\ Reply(stdout'[n], k)
            /\ \/ Alarming(stdout'[n])
               \/ \E m \in 1..Len(stdout') : m > n /\ Started(stdout'[m], frame[k].thread)
      BY <1>2, <2>2 DEF AnswerBusy, Reply, Alarming, SaysBusy, Started
    <3>2. stage[k] = "reading" /\ stage[k] \in Running
      BY <1>2, <2>2 DEF AnswerBusy, Running, Stages
    <3>3. CASE Alarming(stdout'[n])
      BY <1>1, <1>5, <3>1, <3>2, <3>3 DEF MustBeBusy, AnswerBusy, MaySend
    <3>4. ASSUME NEW m \in 1..Len(stdout'), m > n, Started(stdout'[m], frame[k].thread)
          PROVE  k \in Excused'
      <4>1. CASE m \in 1..Len(stdout)
        <5>1. n \in 1..Len(stdout)
          BY <1>1, <3>4, <4>1
        <5>. QED BY <1>1, <1>5, <3>1, <3>2, <3>4, <4>1, <5>1 DEF MustBeBusy, AnswerBusy
      <4>2. CASE MaySend(stdout'[m])
        BY <3>2, <3>4, <4>2 DEF MaySend, Started, Runs, Message, TInv, Shape, FramesInv
      <4>. QED BY <1>1, <4>1, <4>2
    <3>. QED BY <3>1, <3>3, <3>4
  <2>3. CASE ReadBusy(k)'
    BY <1>2, <1>5, <2>3 DEF MustBeBusy, ReadBusy, Alarming, SaysBusy
  <2>4. CASE StartedBehind(k)'
    <3>1. PICK n \in 1..Len(stdout') : Started(stdout'[n], frame[k].thread)
      BY <1>2, <2>4 DEF StartedBehind, Started
    <3>2. stage[k] \in {"read", "refreshed"} /\ stage[k] \in Running
      BY <1>2, <2>4 DEF StartedBehind, Running, Stages
    <3>3. CASE n \in 1..Len(stdout)
      BY <1>1, <1>5, <3>1, <3>2, <3>3 DEF MustBeBusy, StartedBehind
    <3>4. CASE MaySend(stdout'[n])
      BY <3>1, <3>2, <3>4 DEF MaySend, Started, Runs, Message, TInv, Shape, FramesInv
    <3>. QED BY <1>1, <3>3, <3>4
  <2>5. CASE HoldsActive(k)'
    BY <1>2, <1>5, <2>5 DEF MustBeBusy, HoldsActive
  <2>6. CASE WillHoldActive(k)'
    <3>1. PICK j \in Calls \ {k} : frame[j].held = frame[k].held /\ TurnReply(j)'
      BY <1>2, <2>6 DEF WillHoldActive
    <3>2. stage[k] = "refreshed" /\ stage[k] \in Running
      BY <1>2, <2>6 DEF WillHoldActive, Running, Stages
    <3>3. CASE TurnReply(j)
      BY <1>5, <3>1, <3>2, <3>3 DEF MustBeBusy, WillHoldActive
    <3>4. CASE ~TurnReply(j)
      <4>1. PICK n \in 1..Len(stdout') : stdout'[n].kind \in Given /\ stdout'[n].call = {j}
        BY <1>2, <3>1, <3>4 DEF TurnReply
      <4>2. frame[j].method = "send_user_message" /\ stage[j] = "asked"
        BY <1>2, <3>1, <3>4 DEF TurnReply
      <4>3. MaySend(stdout'[n])
        BY <1>1, <3>4, <4>1, <4>2 DEF TurnReply
      <4>4. frame[k].thread = frame[j].thread
        BY <3>1, <3>2, <4>2 DEF TInv, Shape, FramesInv, HeldInv
      <4>5. Runs(k, frame[j].thread)
        BY <3>2, <4>4 DEF Runs, Message, TInv, Shape, FramesInv
      <4>. QED BY <3>2, <4>1, <4>2, <4>3, <4>5 DEF MaySend, Reply, Replies, Given
    <3>. QED BY <3>3, <3>4
  <2>. QED BY <1>6, <2>1, <2>2, <2>3, <2>4, <2>5, <2>6 DEF MustBeBusy
<1>7. BusyInv'
  BY <1>6 DEF BusyInv
<1>. QED BY <1>1, <1>3, <1>4, <1>7 DEF TInv, Shape

LEMMA KindFacts ==
  /\ {"answer", "error", "empty", "turn/started", "turn/completed", "status/idle",
      "thread/closed", "thread/started", "name/updated"} \subseteq LineKinds
  /\ 0 \in 0..MaxTurns /\ First \in Threads
BY ThreadAssumption DEF LineKinds

Said == {"turn", "status", "nothing"}

LEMMA SnapshotFacts ==
  ASSUME NEW sv \in SrvOf, NEW said \in Said
  PROVE  /\ Snapshot(sv, said) \in Snapshots
         /\ SaysBusy(Snapshot(sv, said)) => sv.active # 0 \/ said = "nothing"
<1> DEFINE ts == [u \in Turns |-> CASE u \notin sv.turns -> "none"
                                    [] u = sv.active     -> "active"
                                    [] OTHER             -> "completed"]
           b == CASE said = "nothing" -> "missing"
                  [] sv.active = 0    -> "idle"
                  [] OTHER            -> "active"
           a == IF said = "turn" THEN sv.active ELSE 0
<1>1. ts \in [Turns -> Statuses]
  BY DEF Statuses
<1>2. Snapshot(sv, said) = [status |-> b, active |-> a, turns |-> ts]
  BY DEF Snapshot
<1>3. a \in 0..MaxTurns /\ (a # 0 => sv.active # 0)
  BY KindFacts DEF SrvOf
<1>4. b \in {"idle", "active", "missing"} /\ (b # "idle" => sv.active # 0 \/ said = "nothing")
  <2>1. CASE said = "nothing"
    BY <2>1
  <2>2. CASE said # "nothing" /\ sv.active = 0
    BY <2>2
  <2>3. CASE said # "nothing" /\ sv.active # 0
    BY <2>3
  <2>. QED BY <2>1, <2>2, <2>3
<1>. HIDE DEF ts, a, b
<1>5. [status |-> b, active |-> a, turns |-> ts] \in Snapshots
  BY <1>1, <1>3, <1>4 DEF Snapshots
<1>6. SaysBusy(Snapshot(sv, said)) => b # "idle" \/ a # 0
  BY <1>2 DEF SaysBusy
<1>. QED BY <1>2, <1>3, <1>4, <1>5, <1>6

\* One line, or two of which at most one is a reply.
LEMMA OneLineStep ==
  ASSUME UNCHANGED companionVars, NEW l \in Lines, Send(<<l>>), MaySend(l),
         known' \subseteq Threads, srv' \in [Threads -> SrvOf], turns' \in 0..MaxTurns,
         Excused \subseteq Excused',
         \A k \in Calls : Message(k) /\ srv'[frame[k].thread].active # 0 => k \in Excused',
         TInv
  PROVE  TInv'
<1> DEFINE lines == <<l>>
<1>1. lines \in Seq(Lines) /\ Len(lines) = 1 /\ lines[1] = l
  OBVIOUS
<1>2. Send(lines)
  OBVIOUS
<1>. HIDE DEF lines
<1>3. ServerStep(lines)
  BY <1>1, <1>2 DEF ServerStep
<1>. QED BY <1>1, <1>3, ServerStepKeeps

LEMMA TwoLineStep ==
  ASSUME UNCHANGED companionVars, NEW a \in Lines, NEW b \in Lines, InAnyOrder(a, b),
         MaySend(a), MaySend(b), b.kind \notin Replies,
         known' \subseteq Threads, srv' \in [Threads -> SrvOf], turns' \in 0..MaxTurns,
         Excused \subseteq Excused',
         \A k \in Calls : Message(k) /\ srv'[frame[k].thread].active # 0 => k \in Excused',
         TInv
  PROVE  TInv'
<1>1. PICK lines \in {<<a, b>>, <<b, a>>} : Send(lines)
  BY DEF InAnyOrder
<1>2. /\ lines \in Seq(Lines) /\ Len(lines) = 2
      /\ \/ lines[1] = a /\ lines[2] = b
         \/ lines[1] = b /\ lines[2] = a
  <2>1. CASE lines = <<a, b>>
    BY <2>1
  <2>2. CASE lines = <<b, a>>
    BY <2>2
  <2>. QED BY <1>1, <2>1, <2>2
<1>3. \A i \in 1..2 : i = 1 \/ i = 2
  OBVIOUS
<1>4. ServerStep(lines)
  BY <1>1, <1>2, <1>3 DEF ServerStep, Reply
<1>. QED BY <1>2, <1>4, ServerStepKeeps

\* The answer to call k, or its time-out, and a notification.
LEMMA AnswerStep ==
  ASSUME UNCHANGED companionVars, NEW k \in Calls, Waiting(k), stage[k] # "reading",
         NEW t \in Threads, NEW u \in 0..MaxTurns, NEW b \in Lines, AnswerAnd(k, t, u, b),
         MaySend(b), b.kind \notin Replies,
         \/ frame[k].method # "send_user_message"
         \/ \A j \in Calls : Runs(j, frame[k].thread) => j \in Excused',
         known' \subseteq Threads, srv' \in [Threads -> SrvOf], turns' \in 0..MaxTurns,
         Excused \subseteq Excused',
         \A j \in Calls : Message(j) /\ srv'[frame[j].thread].active # 0 => j \in Excused',
         TInv
  PROVE  TInv'
<1>1. PICK a \in {Line("answer", {k}, t, u), Line("error", {k}, First, 0)} : InAnyOrder(a, b)
  BY DEF AnswerAnd
<1>2. a \in Lines /\ a.kind \in {"answer", "error"} /\ a.call = {k}
  <2>1. CASE a = Line("answer", {k}, t, u)
    BY <2>1, KindFacts, NoFrameFacts DEF Line, Lines
  <2>2. CASE a = Line("error", {k}, First, 0)
    BY <2>2, KindFacts, NoFrameFacts DEF Line, Lines
  <2>. QED BY <2>1, <2>2
<1>3. a.kind \notin {"turn/started", "turn/completed"} /\ \A j \in Calls : Reply(a, j) <=> j = k
  BY <1>2 DEF Reply, Replies
<1>4. MaySend(a)
  BY <1>2, <1>3 DEF MaySend
<1>. QED BY <1>1, <1>2, <1>4, TwoLineStep

LEMMA ServerFacts ==
  ASSUME TInv
  PROVE  /\ known \subseteq Threads /\ srv \in [Threads -> SrvOf] /\ turns \in 0..MaxTurns
         /\ \A k \in Calls : Message(k) /\ srv[frame[k].thread].active # 0 => k \in Excused
BY DEF TInv, Shape, StateOK, SrvOf, BusyInv, MustBeBusy, RunsBusy, Message

LEMMA WaitingFacts ==
  ASSUME TInv, NEW k \in Calls, Waiting(k)
  PROVE  /\ stage[k] \in Running /\ frame[k].thread \in Threads /\ frame[k].answer.thread \in Threads
         /\ stage[k] = "reading" => frame[k].method = "send_user_message"
BY FrameFacts DEF TInv, Shape, FramesInv, Waiting, Running, Stages

\* A reply, and nothing else.
LEMMA ReplyStep ==
  ASSUME TInv, NEW k \in Calls, Waiting(k), NEW l \in Lines, Send(<<l>>),
         l.kind \in Replies, l.call = {k},
         stage[k] = "reading" /\ Alarming(l) => k \in Excused',
         stage[k] = "asked" /\ l.kind \in Given => frame[k].method # "send_user_message",
         UNCHANGED companionVars, UNCHANGED <<known, turns>>, Excused \subseteq Excused',
         srv' \in [Threads -> SrvOf],
         \A j \in Calls : srv'[frame[j].thread].active # 0 => srv[frame[j].thread].active # 0
  PROVE  TInv'
<1>1. \A j \in Calls : Reply(l, j) <=> j = k
  BY DEF Reply
<1>2. l.kind \notin {"turn/started", "turn/completed"}
  BY DEF Replies
<1>3. MaySend(l)
  BY <1>1, <1>2 DEF MaySend
<1>4. \A j \in Calls : Message(j) /\ srv'[frame[j].thread].active # 0 => j \in Excused'
  BY ServerFacts
<1>. QED BY <1>3, <1>4, ServerFacts, OneLineStep

LEMMA ServeErrorKeeps ==
  ASSUME TInv, NEW k \in Calls, ServeError(k)
  PROVE  TInv'
<1> DEFINE l == Line("error", {k}, First, 0)
<1>1. l \in Lines /\ l.kind = "error" /\ l.call = {k}
  BY KindFacts, NoFrameFacts DEF Line, Lines
<1>2. /\ Waiting(k) /\ Send(<<l>>) /\ UNCHANGED companionVars
      /\ UNCHANGED <<known, srv, turns, Excused>>
  BY DEF ServeError, serverVars, Excused
<1>. HIDE DEF l
<1>3. l.kind \in Replies /\ l.kind \notin Given /\ ~Alarming(l)
  BY <1>1 DEF Replies, Given, Alarming
<1>. QED BY <1>1, <1>2, <1>3, ServerFacts, ReplyStep

LEMMA ServeThreadKeeps ==
  ASSUME TInv, NEW k \in Calls, ServeThread(k)
  PROVE  TInv'
<1> DEFINE t == IF stage[k] = "syncing" THEN frame[k].answer.thread ELSE frame[k].thread
<1>1. PICK said \in Said :
        /\ Send(<<Thread({k}, t, Snapshot(srv[t], said))>>)
        /\ untold' = IF said = "nothing" THEN untold \cup {k} ELSE untold
  BY DEF ServeThread, Said
<1>2. /\ Waiting(k)
      /\ stage[k] \in {"reading", "syncing"} \/ frame[k].method = "resume_thread"
      /\ UNCHANGED companionVars /\ UNCHANGED <<known, srv, turns, busy>>
  BY DEF ServeThread, serverVars
<1>3. /\ t \in Threads /\ srv[t] \in SrvOf /\ stage[k] \in Running
      /\ stage[k] = "reading" => t = frame[k].thread /\ Message(k)
  BY <1>2, WaitingFacts, ServerFacts DEF Message
<1> DEFINE snap == Snapshot(srv[t], said)
           l == Thread({k}, t, snap)
<1>4. snap \in Snapshots /\ (SaysBusy(snap) => srv[t].active # 0 \/ said = "nothing")
  BY <1>3, SnapshotFacts
<1>6. Send(<<l>>)
  BY <1>1
<1>. HIDE DEF snap, t
<1>5. l \in Lines /\ l.kind = "answer" /\ l.call = {k} /\ l.snap = snap
  BY <1>3, <1>4, KindFacts, NoFrameFacts DEF Line, Thread, Lines
<1>. HIDE DEF l
<1>7. Excused \subseteq Excused' /\ (said = "nothing" => k \in Excused')
  BY <1>1, <1>2 DEF Excused
<1>8. ASSUME stage[k] = "reading", Alarming(l)
      PROVE  k \in Excused'
  <2>1. srv[frame[k].thread].active # 0 \/ said = "nothing"
    BY <1>3, <1>4, <1>5, <1>8 DEF Alarming
  <2>. QED BY <1>3, <1>7, <1>8, <2>1, ServerFacts
<1>9. l.kind \in Replies /\ (stage[k] = "asked" => frame[k].method # "send_user_message")
  BY <1>2, <1>5 DEF Replies
<1>. QED BY <1>2, <1>5, <1>6, <1>7, <1>8, <1>9, ServerFacts, ReplyStep

LEMMA ServeEmptyKeeps ==
  ASSUME TInv, NEW k \in Calls, ServeEmpty(k)
  PROVE  TInv'
<1> DEFINE l == Line("empty", {k}, First, 0)
<1>1. l \in Lines /\ l.kind = "empty" /\ l.call = {k}
  BY KindFacts, NoFrameFacts DEF Line, Lines
<1>2. /\ Waiting(k) /\ stage[k] = "reading" /\ Send(<<l>>) /\ UNCHANGED companionVars
      /\ UNCHANGED <<known, srv, turns>>
      /\ Excused \subseteq Excused' /\ k \in Excused'
  BY DEF ServeEmpty, serverVars, Excused
<1>. HIDE DEF l
<1>3. l.kind \in Replies
  BY <1>1 DEF Replies
<1>. QED BY <1>1, <1>2, <1>3, ServerFacts, ReplyStep

LEMMA ServeNameKeeps ==
  ASSUME TInv, NEW k \in Calls, ServeName(k)
  PROVE  TInv'
<1> DEFINE t == frame[k].thread
           b == Line("name/updated", {k}, t, 0)
<1>1. /\ Waiting(k) /\ frame[k].method = "set_thread_name" /\ AnswerAnd(k, t, 0, b)
      /\ UNCHANGED companionVars /\ UNCHANGED <<known, srv, turns, Excused>>
  BY DEF ServeName, serverVars, Excused
<1>2. t \in Threads /\ stage[k] # "reading"
  BY <1>1, WaitingFacts
<1>3. b \in Lines /\ b.kind = "name/updated"
  BY <1>2, KindFacts, NoFrameFacts DEF Line, Lines
<1>. HIDE DEF b, t
<1>4. MaySend(b) /\ b.kind \notin Replies
  BY <1>3 DEF MaySend, Reply, Replies
<1>. QED BY <1>1, <1>2, <1>3, <1>4, KindFacts, ServerFacts, AnswerStep

LEMMA ServeRollbackKeeps ==
  ASSUME TInv, NEW k \in Calls, ServeRollback(k)
  PROVE  TInv'
<1> DEFINE t == frame[k].thread
           cut == {u \in srv[t].turns :
                     Cardinality({v \in srv[t].turns : v >= u}) <= frame[k].numTurns}
           s == [srv[t] EXCEPT !.turns = @ \ cut]
           snap == Snapshot(s, "status")
           l == Thread({k}, t, snap)
           e == Line("error", {k}, First, 0)
<1>1. /\ Waiting(k) /\ frame[k].method = "rollback" /\ srv[t].active = 0
      /\ srv' = [srv EXCEPT ![t] = s]
      /\ Send(<<l>>) \/ Send(<<e>>)
      /\ UNCHANGED companionVars /\ UNCHANGED <<known, turns, Excused>>
  BY DEF ServeRollback, Excused
<1>2. t \in Threads /\ stage[k] # "reading"
  BY <1>1, WaitingFacts
<1>3. s \in SrvOf /\ s.active = 0
  <2>1. srv[t] \in SrvOf
    BY <1>2, ServerFacts
  <2>. HIDE DEF cut
  <2>. QED BY <1>1, <2>1 DEF SrvOf
<1>. HIDE DEF s
<1>4. snap \in Snapshots
  BY <1>3, SnapshotFacts DEF Said
<1>. HIDE DEF snap
<1>5. /\ l \in Lines /\ l.kind \in Replies /\ l.call = {k}
      /\ e \in Lines /\ e.kind \in Replies /\ e.call = {k}
  BY <1>2, <1>4, KindFacts, NoFrameFacts DEF Line, Thread, Lines, Replies
<1>. HIDE DEF l, e
<1>6. /\ srv' \in [Threads -> SrvOf]
      /\ \A j \in Calls : srv'[frame[j].thread].active # 0 => srv[frame[j].thread].active # 0
  BY <1>1, <1>2, <1>3, ServerFacts, FrameFacts DEF TInv, Shape
<1>7. CASE Send(<<l>>)
  BY <1>1, <1>2, <1>5, <1>6, <1>7, ReplyStep
<1>8. CASE Send(<<e>>)
  BY <1>1, <1>2, <1>5, <1>6, <1>8, ReplyStep
<1>. QED BY <1>1, <1>7, <1>8

LEMMA BeginFacts ==
  ASSUME TInv, NEW t \in Threads, NEW u \in Turns, BeginTurn(t, u)
  PROVE  /\ UNCHANGED companionVars /\ u \in 0..MaxTurns
         /\ srv' \in [Threads -> SrvOf] /\ turns' \in 0..MaxTurns
         /\ Excused \subseteq Excused'
         /\ \A k \in Calls : Runs(k, t) => k \in Excused'
         /\ \A k \in Calls :
              Message(k) /\ srv'[frame[k].thread].active # 0 => k \in Excused'
<1>1. /\ UNCHANGED companionVars /\ turns' = u
      /\ srv' = [srv EXCEPT ![t] = [active |-> u, turns |-> @.turns \cup {u}]]
      /\ busy' = busy \cup {k \in Calls : /\ frame[k].thread = t /\ stage[k] \in Running
                                         /\ frame[k].method = "send_user_message"}
      /\ untold' = untold
  BY DEF BeginTurn
<1>2. u \in 0..MaxTurns
  BY ThreadAssumption DEF Turns
<1>3. /\ srv' \in [Threads -> SrvOf]
      /\ \A v \in Threads : v # t => srv'[v] = srv[v]
  <2>1. srv[t].turns \cup {u} \in SUBSET Turns
    BY ServerFacts DEF SrvOf
  <2>2. [active |-> u, turns |-> srv[t].turns \cup {u}] \in SrvOf
    BY <1>2, <2>1 DEF SrvOf
  <2>. QED BY <1>1, <2>2, ServerFacts
<1>4. \A k \in Calls : Runs(k, t) => k \in Excused'
  BY <1>1 DEF Runs, Message, Excused
<1>5. Excused \subseteq Excused'
  BY <1>1 DEF Excused
<1>6. ASSUME NEW k \in Calls, Message(k), srv'[frame[k].thread].active # 0
      PROVE  k \in Excused'
  <2>1. frame[k].thread \in Threads
    BY FrameFacts DEF TInv, Shape
  <2>. QED BY <1>3, <1>4, <1>5, <1>6, <2>1, ServerFacts DEF Runs, Message
<1>. QED BY <1>1, <1>2, <1>3, <1>4, <1>5, <1>6

LEMMA ServeTurnKeeps ==
  ASSUME TInv, NEW k \in Calls, ServeTurn(k)
  PROVE  TInv'
<1>1. PICK t \in Threads, u \in Turns :
        /\ \/ t = frame[k].thread /\ t \in known /\ UNCHANGED known
           \/ /\ frame[k].method = "start_review" /\ t \notin known
              /\ known' = known \cup {t}
        /\ BeginTurn(t, u)
        /\ AnswerAnd(k, t, u, Line("turn/started", {}, t, u))
  BY DEF ServeTurn
<1>2. Waiting(k) /\ stage[k] = "asked"
  BY DEF ServeTurn
<1>3. known' \subseteq Threads /\ (frame[k].method = "send_user_message" => t = frame[k].thread)
  BY <1>1, ServerFacts
<1> DEFINE b == Line("turn/started", {}, t, u)
<1>4. /\ UNCHANGED companionVars /\ u \in 0..MaxTurns
      /\ srv' \in [Threads -> SrvOf] /\ turns' \in 0..MaxTurns
      /\ Excused \subseteq Excused'
      /\ \A j \in Calls : Runs(j, t) => j \in Excused'
      /\ \A j \in Calls :
           Message(j) /\ srv'[frame[j].thread].active # 0 => j \in Excused'
  BY <1>1, BeginFacts
<1>5. b \in Lines /\ b.kind = "turn/started" /\ b.thread = t /\ b.turn # 0
  BY <1>4, KindFacts, NoFrameFacts, ThreadAssumption DEF Line, Lines, Turns
<1>6. AnswerAnd(k, t, u, b)
  BY <1>1
<1>. HIDE DEF b
<1>7. MaySend(b) /\ b.kind \notin Replies
  BY <1>4, <1>5 DEF MaySend, Reply, Replies
<1>. QED BY <1>2, <1>3, <1>4, <1>5, <1>6, <1>7, AnswerStep

LEMMA ServerTurnKeeps ==
  ASSUME TInv, NEW t \in Threads, ServerTurn(t)
  PROVE  TInv'
<1>1. PICK u \in Turns : BeginTurn(t, u) /\ Send(<<Line("turn/started", {}, t, u)>>)
  BY DEF ServerTurn
<1> DEFINE b == Line("turn/started", {}, t, u)
<1>2. /\ UNCHANGED companionVars /\ u \in 0..MaxTurns
      /\ srv' \in [Threads -> SrvOf] /\ turns' \in 0..MaxTurns
      /\ Excused \subseteq Excused'
      /\ \A j \in Calls : Runs(j, t) => j \in Excused'
      /\ \A j \in Calls :
           Message(j) /\ srv'[frame[j].thread].active # 0 => j \in Excused'
  BY <1>1, BeginFacts
<1>3. b \in Lines /\ b.kind = "turn/started" /\ b.thread = t /\ b.turn # 0
  BY <1>2, KindFacts, NoFrameFacts, ThreadAssumption DEF Line, Lines, Turns
<1>4. Send(<<b>>) /\ known' \subseteq Threads
  BY <1>1, ServerFacts DEF ServerTurn
<1>. HIDE DEF b
<1>5. MaySend(b)
  BY <1>2, <1>3 DEF MaySend, Reply, Replies
<1>. QED BY <1>2, <1>3, <1>4, <1>5, OneLineStep

LEMMA ServerTurnEndsKeeps ==
  ASSUME TInv, NEW t \in Threads, ServerTurnEnds(t)
  PROVE  TInv'
<1> DEFINE n(kind) == Line(kind, {}, t, srv[t].active)
           a == n("turn/completed")
           b == n("status/idle")
           c == n("thread/closed")
<1>1. /\ srv[t].active # 0 /\ srv' = [srv EXCEPT ![t].active = 0]
      /\ Send(<<a>>) \/ Send(<<b, a>>) \/ Send(<<a, c>>)
      /\ UNCHANGED companionVars /\ UNCHANGED <<known, turns, Excused>>
  BY DEF ServerTurnEnds, told, Excused
<1>2. srv[t] \in SrvOf /\ srv[t].active \in 0..MaxTurns
  BY ServerFacts DEF SrvOf
<1>3. /\ a \in Lines /\ a.kind = "turn/completed" /\ a.turn # 0
      /\ b \in Lines /\ b.kind = "status/idle"
      /\ c \in Lines /\ c.kind = "thread/closed"
  BY <1>1, <1>2, KindFacts, NoFrameFacts DEF Line, Lines
<1>. HIDE DEF a, b, c
<1>4. MaySend(a) /\ MaySend(b) /\ MaySend(c)
  BY <1>3 DEF MaySend, Reply, Replies
<1>5. a.kind \notin Replies /\ b.kind \notin Replies /\ c.kind \notin Replies
  BY <1>3 DEF Replies
<1>6. /\ srv' \in [Threads -> SrvOf]
      /\ \A j \in Calls : srv'[frame[j].thread].active # 0 => srv[frame[j].thread].active # 0
  <2>1. [srv[t] EXCEPT !.active = 0] \in SrvOf /\ [srv[t] EXCEPT !.active = 0].active = 0
    BY <1>2, KindFacts DEF SrvOf
  <2>2. srv' = [srv EXCEPT ![t] = [srv[t] EXCEPT !.active = 0]]
    BY <1>1
  <2>. QED BY <2>1, <2>2, ServerFacts, FrameFacts DEF TInv, Shape
<1>7. /\ known' \subseteq Threads /\ turns' \in 0..MaxTurns
      /\ Excused \subseteq Excused'
      /\ \A j \in Calls : Message(j) /\ srv'[frame[j].thread].active # 0 => j \in Excused'
  BY <1>1, <1>6, ServerFacts
<1>8. CASE Send(<<a>>)
  BY <1>1, <1>3, <1>4, <1>6, <1>7, <1>8, OneLineStep
<1>9. CASE Send(<<b, a>>)
  <2>1. InAnyOrder(b, a)
    BY <1>9 DEF InAnyOrder
  <2>. QED BY <1>1, <1>3, <1>4, <1>5, <1>6, <1>7, <2>1, TwoLineStep
<1>10. CASE Send(<<a, c>>)
  <2>1. InAnyOrder(a, c)
    BY <1>10 DEF InAnyOrder
  <2>. QED BY <1>1, <1>3, <1>4, <1>5, <1>6, <1>7, <2>1, TwoLineStep
<1>. QED BY <1>1, <1>8, <1>9, <1>10

LEMMA ServeStartKeeps ==
  ASSUME TInv, NEW k \in Calls, ServeStart(k)
  PROVE  TInv'
<1>1. PICK t \in Threads \ known :
        /\ known' = known \cup {t}
        /\ AnswerAnd(k, t, 0, Line("thread/started", {}, t, 0))
  BY DEF ServeStart
<1> DEFINE b == Line("thread/started", {}, t, 0)
<1>2. /\ Waiting(k) /\ frame[k].method = "start_thread" /\ AnswerAnd(k, t, 0, b)
      /\ UNCHANGED companionVars /\ UNCHANGED <<srv, turns, Excused>>
  BY <1>1 DEF ServeStart, Excused
<1>3. stage[k] # "reading"
  BY <1>2, WaitingFacts
<1>4. b \in Lines /\ b.kind = "thread/started"
  BY KindFacts, NoFrameFacts DEF Line, Lines
<1>. HIDE DEF b
<1>5. MaySend(b)
  BY <1>4 DEF MaySend, Reply, Replies
<1>6. b.kind \notin Replies /\ known' \subseteq Threads
  BY <1>1, <1>4, ServerFacts DEF Replies
<1>. QED BY <1>2, <1>3, <1>4, <1>5, <1>6, KindFacts, ServerFacts, AnswerStep

LEMMA AppServerKeeps == TInv /\ AppServer => TInv'
<1> SUFFICES ASSUME TInv, AppServer PROVE TInv'
  OBVIOUS
<1>1. ASSUME NEW k \in Calls, Serve(k) PROVE TInv'
  BY <1>1, ServeErrorKeeps, ServeThreadKeeps, ServeEmptyKeeps, ServeNameKeeps,
     ServeRollbackKeeps, ServeTurnKeeps, ServeStartKeeps DEF Serve
<1>2. ASSUME NEW t \in Threads, ServerTurn(t) \/ ServerTurnEnds(t) PROVE TInv'
  BY <1>2, ServerTurnKeeps, ServerTurnEndsKeeps
<1>. QED BY <1>1, <1>2 DEF AppServer

-------------------------------------------------------------------------------
(***************************************************************************)
(* The handlers.  A step of call k leaves the lines and the other calls    *)
(* alone, and makes no object active that another call holds, unless that  *)
(* call is busy.                                                           *)
(***************************************************************************)
HandlerStep(k) ==
  /\ stage[k] \notin Waits
  /\ UNCHANGED <<stdout, srv>> /\ Excused \subseteq Excused'
  /\ \A j \in Calls \ {k} : stage'[j] = stage[j] /\ frame'[j] = frame[j]
  /\ \A j \in Calls \ {k} :
       stage[j] = "refreshed" /\ heap'[frame[j].held].active # 0 =>
         heap[frame[j].held].active # 0 \/ j \in Excused

LEMMA LinesKept ==
  ASSUME LinesInv, OneReply, UNCHANGED stdout,
         \A j \in Calls : stage[j] \in Waits => stage'[j] \in Waits
  PROVE  LinesInv' /\ OneReply'
BY DEF LinesInv, OneReply, Reply

\* What call k must show to have no reason to be busy.
Settled(k) ==
  /\ Message(k)' /\ srv[frame'[k].thread].active # 0 => k \in Excused'
  /\ stage'[k] \notin {"read", "answered"}
  /\ stage'[k] = "refreshed" =>
       /\ stage[k] = "read" /\ frame'[k].thread = frame[k].thread
       /\ heap'[frame'[k].held].active # 0 => k \in Excused'
       /\ \A j \in Calls \ {k} : frame[j].held # frame'[k].held
  /\ stage'[k] = "refused" => k \in Excused'

LEMMA BusyKept ==
  ASSUME TInv, NEW k \in Calls, HandlerStep(k), Settled(k)
  PROVE  BusyInv' /\ RefusedOnlyIfBusy'
<1>1. UNCHANGED <<stdout, srv>> /\ Excused \subseteq Excused'
  BY DEF HandlerStep
<1>2. \A j \in Calls \ {k} : stage'[j] = stage[j] /\ frame'[j] = frame[j]
  BY DEF HandlerStep
<1>3. \A j \in Calls : MustBeBusy(j) => j \in Excused'
  BY <1>1 DEF TInv, BusyInv
<1>4. \A n \in 1..Len(stdout) : ~Reply(stdout[n], k)
  BY NoReply DEF TInv, Shape, HandlerStep
<1>5. ~TurnReply(k)'
  BY <1>1, <1>4 DEF TurnReply, Settled, Reply, Replies, Given
<1>6. ASSUME NEW j \in Calls \ {k}, MustBeBusy(j)'
      PROVE  j \in Excused'
  <2>1. stage'[j] = stage[j] /\ frame'[j] = frame[j]
    BY <1>2
  <2>2. CASE RunsBusy(j)'
    BY <1>1, <1>3, <2>1, <2>2 DEF MustBeBusy, RunsBusy, Message
  <2>3. CASE AnswerBusy(j)'
    BY <1>1, <1>3, <2>1, <2>3 DEF MustBeBusy, AnswerBusy, Reply, Alarming, SaysBusy, Started
  <2>4. CASE ReadBusy(j)'
    BY <1>3, <2>1, <2>4 DEF MustBeBusy, ReadBusy, Alarming, SaysBusy
  <2>5. CASE StartedBehind(j)'
    BY <1>1, <1>3, <2>1, <2>5 DEF MustBeBusy, StartedBehind, Started
  <2>6. CASE HoldsActive(j)'
    BY <1>1, <1>3, <2>1, <2>6 DEF MustBeBusy, HoldsActive, HandlerStep
  <2>7. CASE WillHoldActive(j)'
    <3>1. PICK i \in Calls \ {j} : frame'[i].held = frame'[j].held /\ TurnReply(i)'
      BY <2>7 DEF WillHoldActive
    <3>2. i # k /\ stage'[i] = stage[i] /\ frame'[i] = frame[i]
      BY <1>2, <1>5, <3>1
    <3>3. TurnReply(i)
      BY <1>1, <3>1, <3>2 DEF TurnReply
    <3>. QED BY <1>3, <2>1, <2>7, <3>1, <3>2, <3>3 DEF MustBeBusy, WillHoldActive
  <2>. QED BY <1>6, <2>2, <2>3, <2>4, <2>5, <2>6, <2>7 DEF MustBeBusy
<1>7. ASSUME MustBeBusy(k)'
      PROVE  k \in Excused'
  <2>1. CASE RunsBusy(k)'
    BY <1>1, <2>1 DEF RunsBusy, Message, Settled
  <2>2. CASE AnswerBusy(k)'
    BY <1>1, <1>4, <2>2 DEF AnswerBusy, Reply
  <2>3. CASE ReadBusy(k)'
    BY <2>3 DEF ReadBusy, Settled
  <2>4. CASE StartedBehind(k)'
    BY <1>1, <1>3, <2>4 DEF MustBeBusy, StartedBehind, Started, Settled
  <2>5. CASE HoldsActive(k)'
    BY <2>5 DEF HoldsActive, Settled
  <2>6. CASE WillHoldActive(k)'
    BY <1>2, <2>6 DEF WillHoldActive, Settled
  <2>. QED BY <1>7, <2>1, <2>2, <2>3, <2>4, <2>5, <2>6 DEF MustBeBusy
<1>8. RefusedOnlyIfBusy'
  <2>1. ASSUME NEW j \in Calls, stage'[j] = "refused" PROVE j \in Excused'
    BY <1>1, <1>2, <2>1 DEF Settled, TInv, RefusedOnlyIfBusy
  <2>. QED BY <2>1 DEF RefusedOnlyIfBusy
<1>9. BusyInv'
  BY <1>6, <1>7 DEF BusyInv
<1>. QED BY <1>8, <1>9

\* The call goes on, or returns, with the map as it is.
LEMMA GotoKeeps ==
  ASSUME TInv, NEW k \in Calls, stage[k] \in Running, stage[k] \notin Waits,
         NEW s \in Stages \ {"read", "answered", "refreshed", "imported"}, Goto(k, s),
         UNCHANGED <<store, chunk, stdout, known, srv, turns, Excused>>,
         heap' \in [Refs -> Objects],
         \A j \in Calls \ {k} :
           stage[j] = "refreshed" /\ heap'[frame[j].held].active # 0 =>
             heap[frame[j].held].active # 0 \/ j \in Excused,
         s = "refused" => k \in Excused,
         s \in Running => stage[k] # "imported",
         s = "reading" => frame[k].method = "send_user_message"
  PROVE  TInv'
<1>1. /\ stage' = [stage EXCEPT ![k] = s]
      /\ frame' = IF s \in Running THEN frame ELSE [frame EXCEPT ![k] = NoFrame]
  BY DEF Goto
<1>2. stage \in [Calls -> Stages] /\ frame \in [Calls -> Frames] /\ NoFrame \in Frames
  BY NoFrameFacts DEF TInv, Shape, StateOK
<1>3. /\ stage' \in [Calls -> Stages] /\ frame' \in [Calls -> Frames] /\ stage'[k] = s
      /\ frame'[k] = IF s \in Running THEN frame[k] ELSE NoFrame
      /\ \A j \in Calls \ {k} : stage'[j] = stage[j] /\ frame'[j] = frame[j]
  BY <1>1, <1>2
<1>4. StateOK'
  BY <1>3 DEF TInv, Shape, StateOK
<1>5. LinesInv' /\ OneReply'
  BY <1>3, LinesKept DEF TInv, Shape
<1>6. FramesInv'
  <2>1. FramesInv
    BY DEF TInv, Shape
  <2>2. ASSUME NEW j \in Calls
        PROVE  /\ stage'[j] \notin Running => frame'[j] = NoFrame
               /\ stage'[j] \in {"reading", "read", "refreshed"} =>
                    frame'[j].method = "send_user_message"
               /\ stage'[j] \in Running /\ frame'[j].method \notin {"start_thread", "resume_thread"}
                    => frame'[j].held # 0
    <3>1. CASE j # k
      BY <1>3, <2>1, <3>1 DEF FramesInv
    <3>2. CASE j = k
      <4>1. "reading" \in Running
        BY DEF Running, Stages
      <4>. QED BY <1>3, <2>1, <3>2, <4>1 DEF FramesInv
    <3>. QED BY <3>1, <3>2
  <2>. QED BY <2>2 DEF FramesInv
<1>7. StoreInv'
  BY DEF TInv, Shape, StoreInv
<1>8. HeldInv'
  <2>1. \A j \in Calls : stage'[j] # "imported" /\ frame'[j].held # 0 =>
          stage[j] # "imported" /\ frame'[j] = frame[j]
    BY <1>3, NoFrameFacts
  <2>. QED BY <2>1 DEF TInv, Shape, HeldInv
<1>9. HandlerStep(k)
  BY <1>3 DEF HandlerStep
<1>10. Settled(k)
  <2>1. "refused" \notin Running
    BY DEF Running
  <2>2. Message(k) /\ srv[frame[k].thread].active # 0 => k \in Excused
    BY ServerFacts
  <2>3. Message(k)' => Message(k) /\ frame'[k] = frame[k]
    BY <1>3 DEF Message
  <2>. QED BY <1>3, <2>1, <2>2, <2>3 DEF Settled
<1>. QED BY <1>4, <1>5, <1>6, <1>7, <1>8, <1>9, <1>10, BusyKept DEF TInv, Shape

\* thread/read told nothing: the call goes on with the object it has.
LEMMA RefreshedInPlace ==
  ASSUME TInv, NEW k \in Calls, stage[k] = "read", k \in Excused, Goto(k, "refreshed"),
         UNCHANGED <<heap, store, chunk, stdout, known, srv, turns, Excused>>
  PROVE  TInv'
<1>1. "refreshed" \in Running /\ "refreshed" \in Stages /\ "read" \in Running
  BY DEF Running, Stages
<1>2. /\ stage' = [stage EXCEPT ![k] = "refreshed"] /\ frame' = frame
      /\ stage \in [Calls -> Stages] /\ frame \in [Calls -> Frames]
  BY <1>1 DEF Goto, TInv, Shape, StateOK
<1>3. /\ stage' \in [Calls -> Stages] /\ stage'[k] = "refreshed"
      /\ \A j \in Calls \ {k} : stage'[j] = stage[j]
  BY <1>1, <1>2
<1>4. StateOK'
  BY <1>2, <1>3 DEF TInv, Shape, StateOK
<1>5. LinesInv' /\ OneReply'
  <2>1. \A j \in Calls : stage[j] \in Waits => stage'[j] \in Waits
    BY <1>3 DEF Waits
  <2>. QED BY <2>1, LinesKept DEF TInv, Shape
<1>6. FramesInv'
  <2>1. FramesInv
    BY DEF TInv, Shape
  <2>. QED BY <1>1, <1>2, <1>3, <2>1 DEF FramesInv
<1>7. StoreInv'
  BY DEF TInv, Shape, StoreInv
<1>8. HeldInv'
  <2>1. \A j \in Calls : stage'[j] # "imported" => stage[j] # "imported"
    BY <1>3
  <2>. QED BY <1>2, <2>1 DEF TInv, Shape, HeldInv
<1>9. ASSUME NEW j \in Calls, MustBeBusy(j)' PROVE j \in Excused
  <2>1. \A i \in Calls : TurnReply(i)' => TurnReply(i)
    BY <1>2, <1>3 DEF TurnReply
  <2>2. CASE j = k
    BY <2>2
  <2>3. CASE j # k
    <3>1. stage'[j] = stage[j]
      BY <1>3, <2>3
    <3>2. MustBeBusy(j)
      BY <1>2, <1>9, <2>1, <3>1
         DEF MustBeBusy, RunsBusy, Message, AnswerBusy, ReadBusy, StartedBehind, HoldsActive,
             WillHoldActive, Reply, Started, Alarming, SaysBusy
    <3>. QED BY <3>2 DEF TInv, BusyInv
  <2>. QED BY <2>2, <2>3
<1>10. BusyInv'
  BY <1>9 DEF BusyInv
<1>11. RefusedOnlyIfBusy'
  BY <1>3 DEF TInv, RefusedOnlyIfBusy
<1>. QED BY <1>4, <1>5, <1>6, <1>7, <1>8, <1>10, <1>11 DEF TInv, Shape

\* A new object in the map keeps the shape of it all.
LEMMA ReplaceShape ==
  ASSUME TInv, NEW new \in Objects, NEW t \in Threads, NEW by \in SUBSET Calls,
         NEW next \in {"refreshed", "imported", "done"}, ReplaceWith(new, t, by, next),
         \A k \in by : next = "refreshed" => stage[k] = "read" /\ t = frame[k].thread
  PROVE  /\ FramesInv' /\ StoreInv' /\ HeldInv'
         /\ heap' \in [Refs -> Objects] /\ store' \in [Threads -> Refs \cup {0}]
         /\ stage' \in [Calls -> Stages] /\ frame' \in [Calls -> Frames]
         /\ \A k \in Calls \ by :
              /\ stage'[k] = stage[k] /\ frame'[k] = frame[k]
              /\ frame[k].held # 0 => heap'[frame[k].held] = heap[frame[k].held]
         /\ \A k \in by : stage'[k] = next
         /\ \A k \in by : next # "done" =>
              /\ frame'[k].thread = frame[k].thread /\ frame'[k].method = frame[k].method
              /\ heap'[frame'[k].held] = new
              /\ \A j \in Calls : frame[j].held # frame'[k].held
<1>1. StateOK /\ FramesInv /\ StoreInv /\ HeldInv
  BY DEF TInv, Shape
<1>0. PICK n \in Refs : Replaced(n, new, t, by, next)
  BY <1>1, ReplaceFacts
<1>2. /\ ~Referenced(n)
      /\ store' = [store EXCEPT ![t] = n]
      /\ \A k \in Calls \ by : stage'[k] = stage[k] /\ frame'[k] = frame[k]
      /\ \A k \in by : /\ stage'[k] = next
                       /\ frame'[k] = IF next = "done" THEN NoFrame
                                      ELSE [frame[k] EXCEPT !.held = n, !.answer = NoAnswer]
      /\ heap'[n] = new
      /\ \A o \in Refs \ {n} : Referenced(o)' => heap'[o] = heap[o]
      /\ heap' \in [Refs -> Objects] /\ store' \in [Threads -> Refs \cup {0}]
      /\ stage' \in [Calls -> Stages] /\ frame' \in [Calls -> Frames]
  BY <1>0 DEF Replaced
<1>3. /\ n # 0 /\ \A k \in Calls : frame[k].held # n
      /\ \A u \in Threads : store[u] # n
  BY <1>2, RefFacts DEF Referenced
<1>4. store \in [Threads -> Refs \cup {0}]
  BY <1>1 DEF StateOK
<1>5. ASSUME NEW k \in by, next # "done"
      PROVE  /\ frame'[k].held = n /\ frame'[k].thread = frame[k].thread
             /\ frame'[k].method = frame[k].method
  <2>1. frame[k] \in Frames /\ frame'[k] = [frame[k] EXCEPT !.held = n, !.answer = NoAnswer]
    BY <1>1, <1>2, <1>5, FrameFacts
  <2>. QED BY <2>1 DEF Frames
<1>6. ASSUME NEW k \in Calls \ by, frame[k].held # 0
      PROVE  heap'[frame[k].held] = heap[frame[k].held]
  <2>1. frame[k].held \in Refs \ {n}
    BY <1>1, <1>3, <1>6, FrameFacts
  <2>2. Referenced(frame[k].held)'
    BY <1>2 DEF Referenced
  <2>. QED BY <1>2, <2>1, <2>2
<1>7. FramesInv'
  <2>1. ASSUME NEW k \in by
        PROVE  /\ stage'[k] \notin Running => frame'[k] = NoFrame
               /\ stage'[k] \in {"reading", "read", "refreshed"} =>
                    frame'[k].method = "send_user_message"
               /\ stage'[k] \in Running /\ frame'[k].method \notin {"start_thread", "resume_thread"}
                    => frame'[k].held # 0
    <3>1. "refreshed" \in Running /\ "imported" \in Running /\ "done" \notin Running
      BY DEF Running, Stages
    <3>0. stage'[k] = next /\ (next = "done" => frame'[k] = NoFrame)
      BY <1>2
    <3>2. stage'[k] \notin Running => frame'[k] = NoFrame
      BY <3>0, <3>1
    <3>3. stage'[k] \in {"reading", "read", "refreshed"} => frame'[k].method = "send_user_message"
      BY <1>1, <1>2, <1>5 DEF FramesInv
    <3>4. stage'[k] \in Running => frame'[k].held # 0
      BY <1>2, <1>3, <1>5, <3>1
    <3>. QED BY <3>2, <3>3, <3>4
  <2>2. \A k \in Calls \ by :
          /\ stage'[k] \notin Running => frame'[k] = NoFrame
          /\ stage'[k] \in {"reading", "read", "refreshed"} =>
               frame'[k].method = "send_user_message"
          /\ stage'[k] \in Running /\ frame'[k].method \notin {"start_thread", "resume_thread"}
               => frame'[k].held # 0
    <3>1. \A k \in Calls \ by : stage'[k] = stage[k] /\ frame'[k] = frame[k]
      BY <1>2
    <3>. QED BY <1>1, <3>1 DEF FramesInv
  <2>. QED BY <2>1, <2>2 DEF FramesInv
<1>8. StoreInv'
  BY <1>1, <1>2, <1>3, <1>4 DEF StoreInv
<1>9. HeldInv'
  <2>1. ASSUME NEW k \in Calls, stage'[k] # "imported", frame'[k].held # 0
        PROVE  \/ /\ k \notin by /\ frame'[k] = frame[k] /\ stage'[k] = stage[k]
                  /\ frame[k].held # n
               \/ /\ k \in by /\ frame'[k].held = n /\ frame'[k].thread = t
    BY <1>2, <1>3, <1>5, <2>1, NoFrameFacts
  <2>2. ASSUME NEW k \in Calls, stage'[k] # "imported", frame'[k].held # 0,
               NEW u \in Threads, store'[u] = frame'[k].held
        PROVE  frame'[k].thread = u
    <3>1. CASE k \in by
      BY <1>2, <1>3, <1>4, <2>1, <2>2, <3>1
    <3>2. CASE k \notin by
      <4>1. store[u] = frame[k].held
        BY <1>2, <1>4, <2>1, <2>2, <3>2
      <4>. QED BY <1>1, <2>1, <2>2, <3>2, <4>1 DEF HeldInv
    <3>. QED BY <3>1, <3>2
  <2>3. ASSUME NEW k \in Calls, stage'[k] # "imported", frame'[k].held # 0,
               NEW j \in Calls, stage'[j] # "imported", frame'[j].held = frame'[k].held
        PROVE  frame'[j].thread = frame'[k].thread
    <3>1. CASE k \in by
      BY <2>1, <2>3, <3>1
    <3>2. CASE k \notin by
      BY <1>1, <2>1, <2>3, <3>2 DEF HeldInv
    <3>. QED BY <3>1, <3>2
  <2>. QED BY <2>2, <2>3 DEF HeldInv
<1>10. \A k \in by : next # "done" =>
              /\ frame'[k].thread = frame[k].thread /\ frame'[k].method = frame[k].method
              /\ heap'[frame'[k].held] = new
              /\ \A j \in Calls : frame[j].held # frame'[k].held
  BY <1>2, <1>3, <1>5
<1>. QED BY <1>2, <1>6, <1>7, <1>8, <1>9, <1>10

\* The call puts a new object in the map.
LEMMA ReplaceKeeps ==
  ASSUME TInv, NEW k \in Calls, stage[k] \in {"read", "answered", "synced"},
         NEW snap \in Snapshots, NEW o \in Refs \cup {0}, NEW t \in Threads,
         NEW next \in {"refreshed", "imported", "done"}, Replace(snap, o, t, {k}, next),
         UNCHANGED <<chunk, stdout, known, srv, turns, Excused>>,
         next = "refreshed" =>
           stage[k] = "read" /\ t = frame[k].thread /\ (SaysBusy(snap) => k \in Excused)
  PROVE  TInv'
<1>1. StateOK /\ Built(snap, o) \in Objects /\ (Built(snap, o).active # 0 => SaysBusy(snap))
  BY BuiltFacts DEF TInv, Shape
<1> DEFINE new == Built(snap, o)
           by == {k}
<1>2. by \in SUBSET Calls /\ k \in by /\ \A j \in Calls \ {k} : j \in Calls \ by
  OBVIOUS
<1>3. ReplaceWith(new, t, by, next)
  BY DEF Replace
<1>4. \A j \in by : next = "refreshed" => stage[j] = "read" /\ t = frame[j].thread
  OBVIOUS
<1>. HIDE DEF new, by
<1>5. /\ FramesInv' /\ StoreInv' /\ HeldInv'
      /\ heap' \in [Refs -> Objects] /\ store' \in [Threads -> Refs \cup {0}]
      /\ stage' \in [Calls -> Stages] /\ frame' \in [Calls -> Frames]
      /\ \A j \in Calls \ by :
           /\ stage'[j] = stage[j] /\ frame'[j] = frame[j]
           /\ frame[j].held # 0 => heap'[frame[j].held] = heap[frame[j].held]
      /\ \A j \in by : stage'[j] = next
      /\ \A j \in by : next # "done" =>
           /\ frame'[j].thread = frame[j].thread /\ frame'[j].method = frame[j].method
              /\ heap'[frame'[j].held] = new
           /\ \A i \in Calls : frame[i].held # frame'[j].held
  BY <1>1, <1>2, <1>3, <1>4, ReplaceShape DEF new
<1>6. /\ stage'[k] = next
      /\ \A j \in Calls \ {k} :
           /\ stage'[j] = stage[j] /\ frame'[j] = frame[j]
           /\ frame[j].held # 0 => heap'[frame[j].held] = heap[frame[j].held]
      /\ next # "done" =>
           /\ frame'[k].thread = frame[k].thread /\ frame'[k].method = frame[k].method
              /\ heap'[frame'[k].held] = new
           /\ \A i \in Calls : frame[i].held # frame'[k].held
  BY <1>2, <1>5
<1>7. StateOK'
  BY <1>1, <1>5 DEF StateOK
<1>0. stage[k] \notin Waits
  BY DEF Waits
<1>8. LinesInv' /\ OneReply'
  <2>1. \A j \in Calls : stage[j] \in Waits => stage'[j] \in Waits
    BY <1>0, <1>6
  <2>. QED BY <2>1, LinesKept DEF TInv, Shape
<1>9. HandlerStep(k)
  <2>1. \A j \in Calls : stage[j] = "refreshed" => frame[j].held # 0
    BY DEF TInv, Shape, FramesInv, Running, Stages
  <2>. QED BY <1>0, <1>6, <2>1 DEF HandlerStep
<1>10. Settled(k)
  <2>1. "refused" \notin Running /\ "done" \notin Running
    BY DEF Running
  <2>2. stage[k] \in Running
    BY DEF Running, Stages
  <2>3. Message(k)' => Message(k) /\ next # "done"
    BY <1>6, <2>1, <2>2 DEF Message
  <2>5. Message(k)' /\ srv[frame'[k].thread].active # 0 => k \in Excused
    BY <1>6, <2>3, ServerFacts
  <2>4. new.active # 0 => SaysBusy(snap)
    BY <1>1 DEF new
  <2>. QED BY <1>6, <2>1, <2>4, <2>5 DEF Settled
<1>. QED BY <1>5, <1>7, <1>8, <1>9, <1>10, BusyKept DEF TInv, Shape

\* An edit, and the parent of a review, make no object active.
LEMMA EditFacts ==
  ASSUME heap \in [Refs -> Objects], NEW o, NEW S, S \subseteq Calls,
         heap' = [heap EXCEPT ![o].meta = @ \cup S]
  PROVE  /\ heap' \in [Refs -> Objects]
         /\ \A p \in Refs : heap'[p].active = heap[p].active /\ heap[p].meta \subseteq heap'[p].meta
<1>1. \A p \in Refs : /\ [heap[p] EXCEPT !.meta = @ \cup S] \in Objects
                     /\ [heap[p] EXCEPT !.meta = @ \cup S].active = heap[p].active
                     /\ heap[p].meta \subseteq [heap[p] EXCEPT !.meta = @ \cup S].meta
  BY DEF Objects
<1> DEFINE new == [heap[o] EXCEPT !.meta = @ \cup S]
<1>2. heap' = [heap EXCEPT ![o] = new]
  OBVIOUS
<1>. HIDE DEF new
<1>3. heap' \in [Refs -> Objects] /\ \A p \in Refs : heap'[p] = IF p = o THEN new ELSE heap[p]
  <2>1. o \in Refs => new \in Objects
    BY <1>1 DEF new
  <2>. QED BY <1>2, <2>1
<1>. QED BY <1>1, <1>3 DEF new

LEMMA ParentFacts ==
  ASSUME heap \in [Refs -> Objects], NEW o, NEW t \in Threads,
         heap' = [heap EXCEPT ![o].parent = {t}]
  PROVE  /\ heap' \in [Refs -> Objects]
         /\ \A p \in Refs : heap'[p].active = heap[p].active /\ heap'[p].meta = heap[p].meta
<1>1. \A p \in Refs : /\ [heap[p] EXCEPT !.parent = {t}] \in Objects
                     /\ [heap[p] EXCEPT !.parent = {t}].active = heap[p].active
                     /\ [heap[p] EXCEPT !.parent = {t}].meta = heap[p].meta
  BY DEF Objects
<1> DEFINE new == [heap[o] EXCEPT !.parent = {t}]
<1>2. heap' = [heap EXCEPT ![o] = new]
  OBVIOUS
<1>. HIDE DEF new
<1>3. heap' \in [Refs -> Objects] /\ \A p \in Refs : heap'[p] = IF p = o THEN new ELSE heap[p]
  <2>1. o \in Refs => new \in Objects
    BY <1>1 DEF new
  <2>. QED BY <1>2, <2>1
<1>. QED BY <1>1, <1>3 DEF new

\* What a call that has been refreshed holds is an object.
LEMMA HeldFacts ==
  ASSUME TInv
  PROVE  /\ heap \in [Refs -> Objects]
         /\ \A j \in Calls : stage[j] = "refreshed" => frame[j].held \in Refs
         /\ \A j \in Calls : stage[j] \in Running /\ frame[j].method \in {"send_user_message", "set_thread_name"}
              => frame[j].held \in Refs
<1>1. "refreshed" \in Running
  BY DEF Running, Stages
<1>. QED BY <1>1, FrameFacts DEF TInv, Shape, FramesInv, StateOK

LEMMA readSettingsKeeps ==
  ASSUME TInv, NEW k \in Calls, readSettings(k)
  PROVE  TInv'
<1> DEFINE s == IF frame[k].method = "send_user_message" /\ heap[frame[k].held].active # 0
                THEN "reading" ELSE "asked"
<1>1. /\ stage[k] = "settings" /\ Goto(k, s)
      /\ UNCHANGED <<heap, store, chunk, stdout, known, srv, turns, Excused>>
  BY DEF readSettings, afterSettings, elsewhere, serverVars, told, Excused
<1>2. s \in Stages \ {"read", "answered", "refreshed", "imported"} /\ s # "refused"
  BY DEF Stages
<1>3. s = "reading" => frame[k].method = "send_user_message"
  OBVIOUS
<1>4. stage[k] \in Running /\ stage[k] \notin Waits /\ stage[k] # "imported"
  BY <1>1 DEF Running, Stages, Waits
<1>5. heap' \in [Refs -> Objects] /\ heap' = heap
  BY <1>1, HeldFacts
<1>. HIDE DEF s
<1>. QED BY <1>1, <1>2, <1>3, <1>4, <1>5, GotoKeeps

LEMMA refreshKeeps ==
  ASSUME TInv, NEW k \in Calls, refresh(k)
  PROVE  TInv'
<1> DEFINE f == frame[k]
           snap == f.answer.snap
<1>1. /\ stage[k] = "read"
      /\ UNCHANGED <<chunk, stdout, known, srv, turns, Excused>>
  BY DEF refresh, elsewhere, serverVars, told, Excused
<1>2. stage[k] \in Running /\ stage[k] \notin Waits
  BY <1>1 DEF Running, Stages, Waits
<1>3. CASE Goto(k, "failed") /\ UNCHANGED <<heap, store>>
  <2>2. "failed" \in Stages \ {"read", "answered", "refreshed", "imported"} /\ "failed" \notin Running
    BY DEF Stages, Running
  <2>3. heap' \in [Refs -> Objects] /\ heap' = heap
    BY <1>3, HeldFacts
  <2>. QED BY <1>1, <1>2, <1>3, <2>2, <2>3, GotoKeeps
<1>4. CASE f.answer.kind = "answer" /\ Replace(snap, f.held, f.thread, {k}, "refreshed")
  <2>2. snap \in Snapshots /\ f.held \in Refs \cup {0} /\ f.thread \in Threads
    BY FrameFacts DEF TInv, Shape
  <2>3. SaysBusy(snap) => k \in Excused
    BY <1>1, <1>4 DEF TInv, BusyInv, MustBeBusy, ReadBusy, Alarming
  <2>. QED BY <1>1, <1>4, <2>2, <2>3, ReplaceKeeps
<1>5. CASE f.answer.kind = "empty" /\ Goto(k, "refreshed") /\ UNCHANGED <<heap, store>>
  <2>1. k \in Excused
    BY <1>1, <1>5 DEF TInv, BusyInv, MustBeBusy, ReadBusy, Alarming
  <2>. QED BY <1>1, <1>5, <2>1, RefreshedInPlace
<1>. QED BY <1>3, <1>4, <1>5 DEF refresh

LEMMA checkActiveTurnKeeps ==
  ASSUME TInv, NEW k \in Calls, checkActiveTurn(k)
  PROVE  TInv'
<1> DEFINE s == IF heap[frame[k].held].active # 0 THEN "refused" ELSE "asked"
<1>1. /\ stage[k] = "refreshed" /\ Goto(k, s)
      /\ UNCHANGED <<heap, store, chunk, stdout, known, srv, turns, Excused>>
  BY DEF checkActiveTurn, elsewhere, serverVars, told, Excused
<1>2. s \in Stages \ {"read", "answered", "refreshed", "imported"} /\ s # "reading"
  BY DEF Stages
<1>3. s = "refused" => k \in Excused
  BY <1>1 DEF TInv, BusyInv, MustBeBusy, HoldsActive
<1>4. stage[k] \in Running /\ stage[k] \notin Waits /\ stage[k] # "imported"
  BY <1>1 DEF Running, Stages, Waits
<1>5. heap' \in [Refs -> Objects] /\ heap' = heap
  BY <1>1, HeldFacts
<1>. HIDE DEF s
<1>. QED BY <1>1, <1>2, <1>3, <1>4, <1>5, GotoKeeps

LEMMA handleAnswerKeeps ==
  ASSUME TInv, NEW k \in Calls, handleAnswer(k)
  PROVE  TInv'
<1> DEFINE f == frame[k]
           a == f.answer
<1>1. /\ stage[k] = "answered"
      /\ UNCHANGED <<chunk, stdout, known, srv, turns, Excused>>
  BY DEF handleAnswer, elsewhere, serverVars, told, Excused
<1>2. stage[k] \in Running /\ stage[k] \notin Waits
  BY <1>1 DEF Running, Stages, Waits
<1>3. /\ {"done", "syncing", "failed", "degraded"}
             \subseteq Stages \ {"read", "answered", "refreshed", "imported"}
      /\ "done" \notin Running
  BY DEF Stages, Running
<1>4. /\ heap \in [Refs -> Objects] /\ f \in Frames /\ f.held \in Refs \cup {0}
      /\ a.snap \in Snapshots /\ a.thread \in Threads /\ a.turn \in 0..MaxTurns
  BY FrameFacts, HeldFacts DEF TInv, Shape
<1>5. ASSUME NEW s \in {"syncing", "failed", "degraded"}, Goto(k, s), UNCHANGED <<heap, store>>
      PROVE  TInv'
  <2>1. heap' \in [Refs -> Objects] /\ heap' = heap
    BY <1>4, <1>5
  <2>. QED BY <1>1, <1>2, <1>3, <1>5, <2>1, GotoKeeps
<1>6. CASE a.kind = "error"
  BY <1>5, <1>6 DEF handleAnswer
<1>7. CASE a.kind # "error" /\ f.method = "start_review" /\ Goto(k, "syncing") /\ UNCHANGED <<heap, store>>
  BY <1>5, <1>7
<1>8. CASE a.kind # "error" /\ f.method = "send_user_message" /\ setActiveTurn(f.held, a.turn)
           /\ Goto(k, "done") /\ UNCHANGED store
  <2>1. f.held \in Refs
    BY <1>2, <1>8, HeldFacts
  <2>2. heap' \in [Refs -> Objects] /\ \A p \in Refs \ {f.held} : heap'[p] = heap[p]
    BY <1>4, <1>8, <2>1, SetActiveFacts
  <2>3. TurnReply(k)
    BY <1>1, <1>8 DEF TurnReply
  <2>4. ASSUME NEW j \in Calls \ {k}, stage[j] = "refreshed", heap'[frame[j].held].active # 0
        PROVE  heap[frame[j].held].active # 0 \/ j \in Excused
    <3>1. CASE frame[j].held = f.held
      BY <2>3, <2>4, <3>1 DEF TInv, BusyInv, MustBeBusy, WillHoldActive
    <3>2. CASE frame[j].held # f.held
      BY <2>2, <2>4, <3>2, HeldFacts
    <3>. QED BY <3>1, <3>2
  <2>. QED BY <1>1, <1>2, <1>3, <1>8, <2>2, <2>4, GotoKeeps
<1>9. CASE a.kind # "error" /\ f.method = "set_thread_name" /\ Goto(k, "done") /\ UNCHANGED store
           /\ heap' = [heap EXCEPT ![f.held].meta = @ \cup {k}]
  <2> DEFINE S == {k}
  <2>0. S \subseteq Calls /\ heap' = [heap EXCEPT ![f.held].meta = @ \cup S]
    BY <1>9
  <2>. HIDE DEF S
  <2>1. heap' \in [Refs -> Objects] /\ \A p \in Refs : heap'[p].active = heap[p].active
    BY <1>4, <2>0, EditFacts
  <2>2. \A j \in Calls \ {k} : stage[j] = "refreshed" /\ heap'[frame[j].held].active # 0 =>
          heap[frame[j].held].active # 0
    BY <2>1, HeldFacts
  <2>. QED BY <1>1, <1>2, <1>3, <1>9, <2>1, <2>2, GotoKeeps
<1>10. CASE a.kind # "error" /\ Replace(a.snap, f.held, a.thread, {k}, "done")
  BY <1>1, <1>4, <1>10, ReplaceKeeps
<1>. QED BY <1>6, <1>7, <1>8, <1>9, <1>10 DEF handleAnswer, onResult

LEMMA syncStoredThreadKeeps ==
  ASSUME TInv, NEW k \in Calls, syncStoredThread(k)
  PROVE  TInv'
<1>1. /\ stage[k] = "synced"
      /\ UNCHANGED <<chunk, stdout, known, srv, turns, Excused>>
  BY DEF syncStoredThread, Synced, elsewhere, serverVars, told, Excused
<1>2. stage[k] \in Running /\ stage[k] \notin Waits
  BY <1>1 DEF Running, Stages, Waits
<1> DEFINE a == frame[k].answer
<1>3. CASE a.kind = "error"
  <2>1. Goto(k, "failed") /\ UNCHANGED <<heap, store>>
    BY <1>3 DEF syncStoredThread, Synced
  <2>2. "failed" \in Stages \ {"read", "answered", "refreshed", "imported"} /\ "failed" \notin Running
    BY DEF Stages, Running
  <2>3. heap' \in [Refs -> Objects] /\ heap' = heap
    BY <2>1, HeldFacts
  <2>. QED BY <1>1, <1>2, <2>1, <2>2, <2>3, GotoKeeps
<1>4. CASE a.kind # "error"
  <2>1. Replace(a.snap, 0, a.thread, {k}, "imported")
    BY <1>4 DEF syncStoredThread, Synced
  <2>2. a.snap \in Snapshots /\ a.thread \in Threads
    BY FrameFacts DEF TInv, Shape
  <2>. QED BY <1>1, <2>1, <2>2, ReplaceKeeps
<1>. QED BY <1>3, <1>4

LEMMA linkReviewKeeps ==
  ASSUME TInv, NEW k \in Calls, linkReview(k)
  PROVE  TInv'
<1>1. /\ stage[k] = "imported" /\ Goto(k, "done")
      /\ heap' = [heap EXCEPT ![frame[k].held].parent = {frame[k].thread}]
      /\ UNCHANGED <<store, chunk, stdout, known, srv, turns, Excused>>
  BY DEF linkReview, elsewhere, serverVars, told, Excused
<1>2. stage[k] \in Running /\ stage[k] \notin Waits
  BY <1>1 DEF Running, Stages, Waits
<1>3. "done" \in Stages \ {"read", "answered", "refreshed", "imported"} /\ "done" \notin Running
  BY DEF Stages, Running
<1>4. heap' \in [Refs -> Objects] /\ \A p \in Refs : heap'[p].active = heap[p].active
  <2>1. frame[k].thread \in Threads
    BY FrameFacts DEF TInv, Shape
  <2>. QED BY <1>1, <2>1, HeldFacts, ParentFacts
<1>5. \A j \in Calls \ {k} : stage[j] = "refreshed" /\ heap'[frame[j].held].active # 0 =>
        heap[frame[j].held].active # 0
  BY <1>4, HeldFacts
<1>. QED BY <1>1, <1>2, <1>3, <1>4, <1>5, GotoKeeps

\* A call begins, with the object of its thread.
LEMMA call_rpcKeeps ==
  ASSUME TInv, NEW k \in Calls, NEW m \in Methods, NEW t \in Threads, call_rpc(k, m, t)
  PROVE  TInv'
<1>1. /\ stage[k] = "new" /\ Excused \subseteq Excused'
      /\ m = "send_user_message" /\ srv[t].active # 0 => k \in Excused'
      /\ UNCHANGED <<store, chunk, stdout, known, srv, turns>>
      /\ m \notin {"start_thread", "resume_thread"} => store[t] # 0
  BY DEF call_rpc, serverVars, Excused
<1>2. stage[k] \notin Waits /\ Excused \subseteq Excused'
  BY <1>1, ServerFacts DEF Waits
<1>3. /\ heap \in [Refs -> Objects] /\ stage \in [Calls -> Stages] /\ frame \in [Calls -> Frames]
      /\ store \in [Threads -> Refs \cup {0}]
  BY DEF TInv, Shape, StateOK
<1> DEFINE Begins(s, F) ==
      /\ stage' = [stage EXCEPT ![k] = s] /\ frame' = [frame EXCEPT ![k] = F]
      /\ s = "done" => F = NoFrame
      /\ s = "settings" => F.thread = t /\ F.method = m /\ F.held \in {0, store[t]}
      /\ s = "settings" /\ F.method \notin {"start_thread", "resume_thread"} => F.held # 0
      /\ heap' \in [Refs -> Objects] /\ \A p \in Refs : heap'[p].active = heap[p].active
<1>4. \E s \in {"done", "settings"}, F \in Frames : Begins(s, F)
  <2>1. CASE /\ m = "edit"
             /\ heap' = [heap EXCEPT ![store[t]].meta = @ \cup {k}]
             /\ Goto(k, "done")
    <3> DEFINE S == {k}
    <3>1. S \subseteq Calls /\ heap' = [heap EXCEPT ![store[t]].meta = @ \cup S]
      BY <2>1
    <3>. HIDE DEF S
    <3>2. heap' \in [Refs -> Objects] /\ \A p \in Refs : heap'[p].active = heap[p].active
      BY <1>3, <3>1, EditFacts
    <3>3. stage' = [stage EXCEPT ![k] = "done"] /\ frame' = [frame EXCEPT ![k] = NoFrame]
      BY <2>1 DEF Goto, Running
    <3>4. Begins("done", NoFrame)
      BY <3>2, <3>3
    <3>. QED BY <3>4, NoFrameFacts
  <2>2. ASSUME m # "edit", stage' = [stage EXCEPT ![k] = "settings"], UNCHANGED heap,
               NEW n \in 0..MaxTurns,
               frame' = [frame EXCEPT ![k] =
                           [method |-> m, thread |-> t, numTurns |-> n,
                            held |-> IF m = "start_thread" THEN 0 ELSE store[t],
                            answer |-> NoAnswer]]
        PROVE  \E s \in {"done", "settings"}, F \in Frames : Begins(s, F)
    <3> DEFINE h == IF m = "start_thread" THEN 0 ELSE store[t]
               F == [method |-> m, thread |-> t, numTurns |-> n, held |-> h, answer |-> NoAnswer]
    <3>1. h \in Refs \cup {0} /\ h \in {0, store[t]}
          /\ (m \notin {"start_thread", "resume_thread"} => h # 0)
      BY <1>1, <1>3
    <3>2. frame' = [frame EXCEPT ![k] = F]
      BY <2>2
    <3>. HIDE DEF h
    <3>3. F \in Frames
      BY <3>1, NoFrameFacts DEF Frames
    <3>4. F.thread = t /\ F.held = h /\ F.method = m
      OBVIOUS
    <3>. HIDE DEF F
    <3>5. Begins("settings", F)
      BY <1>3, <2>2, <3>1, <3>2, <3>3, <3>4
    <3>. QED BY <3>3, <3>5
  <2>. QED BY <2>1, <2>2 DEF call_rpc
<1>. HIDE DEF Begins
<1>0. PICK s \in {"done", "settings"}, F \in Frames : Begins(s, F)
  BY <1>4
<1>5. /\ stage' = [stage EXCEPT ![k] = s] /\ frame' = [frame EXCEPT ![k] = F]
      /\ s = "done" => F = NoFrame
      /\ s = "settings" => F.thread = t /\ F.method = m /\ F.held \in {0, store[t]}
      /\ s = "settings" /\ F.method \notin {"start_thread", "resume_thread"} => F.held # 0
      /\ heap' \in [Refs -> Objects] /\ \A p \in Refs : heap'[p].active = heap[p].active
  BY <1>0 DEF Begins
<1>6. /\ stage' \in [Calls -> Stages] /\ frame' \in [Calls -> Frames]
      /\ stage'[k] = s /\ frame'[k] = F
      /\ \A j \in Calls \ {k} : stage'[j] = stage[j] /\ frame'[j] = frame[j]
  BY <1>3, <1>5 DEF Stages
<1>7. StateOK'
  BY <1>1, <1>2, <1>5, <1>6 DEF TInv, Shape, StateOK
<1>8. LinesInv' /\ OneReply'
  <2>1. \A j \in Calls : stage[j] \in Waits => stage'[j] \in Waits
    BY <1>2, <1>6
  <2>. QED BY <1>1, <2>1, LinesKept DEF TInv, Shape
<1>9. FramesInv'
  <2>1. "settings" \in Running /\ "done" \notin Running
    BY DEF Running, Stages
  <2>. QED BY <1>5, <1>6, <2>1, NoFrameFacts DEF TInv, Shape, FramesInv
<1>10. StoreInv'
  BY <1>1 DEF TInv, Shape, StoreInv
<1>11. HeldInv'
  <2>1. frame'[k].held # 0 => frame'[k].thread = t /\ frame'[k].held = store[t]
    BY <1>5, <1>6, NoFrameFacts
  <2>2. StoreInv /\ HeldInv
    BY DEF TInv, Shape
  <2>3. ASSUME NEW j \in Calls, stage'[j] # "imported", frame'[j].held # 0,
               NEW u \in Threads, store'[u] = frame'[j].held
        PROVE  frame'[j].thread = u
    BY <1>1, <1>6, <2>1, <2>2, <2>3 DEF StoreInv, HeldInv
  <2>4. ASSUME NEW j \in Calls, stage'[j] # "imported", frame'[j].held # 0,
               NEW i \in Calls, stage'[i] # "imported", frame'[i].held = frame'[j].held
        PROVE  frame'[i].thread = frame'[j].thread
    <3>1. CASE i = k \/ j = k
      BY <1>1, <2>1, <2>3, <2>4, <3>1
    <3>2. CASE i # k /\ j # k
      BY <1>6, <2>2, <2>4, <3>2 DEF HeldInv
    <3>. QED BY <3>1, <3>2
  <2>. QED BY <2>3, <2>4 DEF HeldInv
<1>12. HandlerStep(k)
  <2>1. \A j \in Calls \ {k} : stage[j] = "refreshed" /\ heap'[frame[j].held].active # 0 =>
          heap[frame[j].held].active # 0
    BY <1>5, HeldFacts
  <2>. QED BY <1>1, <1>2, <1>6, <2>1 DEF HandlerStep
<1>13. Settled(k)
  <2>1. "done" \notin Running
    BY DEF Running
  <2>2. Message(k)' => s = "settings" /\ m = "send_user_message" /\ frame'[k].thread = t
    BY <1>5, <1>6, <2>1 DEF Message
  <2>. QED BY <1>1, <1>5, <1>6, <2>1, <2>2 DEF Settled
<1>. QED BY <1>7, <1>8, <1>9, <1>10, <1>11, <1>12, <1>13, BusyKept DEF TInv, Shape

-------------------------------------------------------------------------------
\* A line of stdout is handled.

LEMMA StdoutFacts ==
  ASSUME TInv, stdout # <<>>, stdout' = Tail(stdout)
  PROVE  /\ 1 \in 1..Len(stdout) /\ Head(stdout) = stdout[1] /\ stdout[1] \in Lines
         /\ stdout' \in Seq(Lines) /\ Len(stdout) \in Nat
         /\ \A n \in 1..Len(stdout') :
              /\ stdout'[n] = stdout[n + 1] /\ n + 1 \in 1..Len(stdout)
              /\ n + 1 > 1 /\ \A m \in 1..Len(stdout') : m > n => m + 1 > n + 1
         /\ OneReply'
<1>1. stdout \in Seq(Lines) /\ Len(stdout) \in Nat
  BY DEF TInv, Shape, StateOK
<1>2. /\ 1 \in 1..Len(stdout) /\ Head(stdout) = stdout[1] /\ stdout[1] \in Lines
      /\ stdout' \in Seq(Lines) /\ Len(stdout') = Len(stdout) - 1
      /\ \A n \in 1..Len(stdout') : stdout'[n] = stdout[n + 1] /\ n + 1 \in 1..Len(stdout)
  BY <1>1, TakenFacts
<1>3. \A n \in 1..Len(stdout') :
        n + 1 > 1 /\ \A m \in 1..Len(stdout') : m > n => m + 1 > n + 1
  OBVIOUS
<1>4. OneReply'
  BY <1>2 DEF TInv, Shape, OneReply, Reply
<1>. QED BY <1>1, <1>2, <1>3, <1>4

\* An answer: its call continues, with what the thread says already read.
LEMMA ReplyKeeps ==
  ASSUME TInv, stdout # <<>>, stdout' = Tail(stdout), NEW k \in Calls,
         stdout[1].kind \in Replies, k \in stdout[1].call, chunk' \in BOOLEAN,
         frame' = [frame EXCEPT ![k].answer = stdout[1]],
         stage' = [stage EXCEPT ![k] = CASE @ = "reading" -> "read"
                                         [] @ = "asked"   -> "answered"
                                         [] @ = "syncing" -> "synced"],
         UNCHANGED <<heap, store, known, srv, turns, Excused>>
  PROVE  TInv'
<1> DEFINE line == stdout[1]
<1>1. /\ 1 \in 1..Len(stdout) /\ line \in Lines
      /\ stdout' \in Seq(Lines) /\ Len(stdout) \in Nat
      /\ \A n \in 1..Len(stdout') :
           /\ stdout'[n] = stdout[n + 1] /\ n + 1 \in 1..Len(stdout)
           /\ n + 1 > 1 /\ \A m \in 1..Len(stdout') : m > n => m + 1 > n + 1
      /\ OneReply'
  BY StdoutFacts
<1>. HIDE DEF line
<1>2. Reply(line, k) /\ stage[k] \in Waits
  BY <1>1 DEF TInv, Shape, LinesInv, Reply, line
<1>3. stage \in [Calls -> Stages] /\ frame \in [Calls -> Frames]
  BY DEF TInv, Shape, StateOK
<1>4. [frame[k] EXCEPT !.answer = line] \in Frames
  <2>1. frame[k] \in Frames
    BY <1>3
  <2>. QED BY <1>1, <2>1 DEF Frames
<1>5. /\ frame' = [frame EXCEPT ![k] = [frame[k] EXCEPT !.answer = line]]
      /\ stage' = [stage EXCEPT ![k] = stage'[k]]
      /\ \/ stage[k] = "reading" /\ stage'[k] = "read"
         \/ stage[k] = "asked" /\ stage'[k] = "answered"
         \/ stage[k] = "syncing" /\ stage'[k] = "synced"
  BY <1>2, <1>3 DEF Waits, line
<1>6. /\ stage' \in [Calls -> Stages] /\ frame' \in [Calls -> Frames]
      /\ frame'[k].answer = line /\ frame'[k].thread = frame[k].thread
      /\ frame'[k].held = frame[k].held /\ frame'[k].method = frame[k].method
      /\ \A j \in Calls \ {k} : stage'[j] = stage[j] /\ frame'[j] = frame[j]
  <2>1. stage'[k] \in Stages
    BY <1>5 DEF Stages
  <2>2. stage' \in [Calls -> Stages] /\ \A j \in Calls \ {k} : stage'[j] = stage[j]
    BY <1>3, <1>5, <2>1
  <2>3. frame' \in [Calls -> Frames] /\ \A j \in Calls \ {k} : frame'[j] = frame[j]
    BY <1>3, <1>4, <1>5
  <2>4. frame'[k] = [frame[k] EXCEPT !.answer = line]
    BY <1>3, <1>5
  <2>5. /\ frame'[k].answer = line /\ frame'[k].thread = frame[k].thread
        /\ frame'[k].held = frame[k].held /\ frame'[k].method = frame[k].method
    BY <1>3, <2>4 DEF Frames
  <2>. QED BY <2>2, <2>3, <2>5
<1>7. \A n \in 1..Len(stdout') : ~Reply(stdout'[n], k)
  <2>1. ASSUME NEW n \in 1..Len(stdout'), Reply(stdout'[n], k) PROVE FALSE
    <3>1. n + 1 \in 1..Len(stdout) /\ n + 1 > 1 /\ Reply(stdout[n + 1], k) /\ Reply(stdout[1], k)
      BY <1>1, <1>2, <2>1 DEF line
    <3>2. n + 1 = 1
      BY <1>1, <3>1 DEF TInv, Shape, OneReply
    <3>. QED BY <3>1, <3>2
  <2>. QED BY <2>1
<1>8. StateOK'
  BY <1>1, <1>6 DEF TInv, Shape, StateOK
<1>9. LinesInv'
  <2>1. ASSUME NEW n \in 1..Len(stdout')
        PROVE  /\ stdout'[n].kind \in Replies =>
                    \E j \in Calls : Reply(stdout'[n], j) /\ stage'[j] \in Waits
               /\ stdout'[n].kind \in {"turn/started", "turn/completed"} => stdout'[n].turn # 0
    BY <1>1, <1>6, <1>7 DEF TInv, Shape, LinesInv
  <2>. QED BY <2>1 DEF LinesInv, Reply
<1>10. FramesInv'
  <2>1. FramesInv
    BY DEF TInv, Shape
  <2>2. stage[k] \in Running /\ stage'[k] \in Running
    BY <1>5 DEF Running, Stages
  <2>3. /\ stage'[k] \in {"reading", "read", "refreshed"} => frame'[k].method = "send_user_message"
        /\ frame'[k].method \notin {"start_thread", "resume_thread"} => frame'[k].held # 0
    BY <1>5, <1>6, <2>1, <2>2 DEF FramesInv
  <2>4. \A j \in Calls \ {k} :
          /\ stage'[j] \notin Running => frame'[j] = NoFrame
          /\ stage'[j] \in {"reading", "read", "refreshed"} => frame'[j].method = "send_user_message"
          /\ stage'[j] \in Running /\ frame'[j].method \notin {"start_thread", "resume_thread"} =>
               frame'[j].held # 0
    BY <1>6, <2>1 DEF FramesInv
  <2>. QED BY <2>2, <2>3, <2>4 DEF FramesInv
<1>11. StoreInv'
  BY DEF TInv, Shape, StoreInv
<1>12. HeldInv'
  <2>1. \A j \in Calls : frame'[j].held = frame[j].held /\ frame'[j].thread = frame[j].thread
    BY <1>6
  <2>2. \A j \in Calls : stage'[j] # "imported" => stage[j] # "imported"
    BY <1>2, <1>6 DEF Waits
  <2>3. HeldInv
    BY DEF TInv, Shape
  <2>4. ASSUME NEW j \in Calls, stage'[j] # "imported", frame'[j].held # 0,
               NEW t \in Threads, store'[t] = frame'[j].held
        PROVE  frame'[j].thread = t
    <3>1. stage[j] # "imported"
      BY <2>2, <2>4
    <3>. QED BY <2>1, <2>3, <2>4, <3>1 DEF HeldInv
  <2>5. ASSUME NEW j \in Calls, stage'[j] # "imported", frame'[j].held # 0,
               NEW i \in Calls, stage'[i] # "imported", frame'[i].held = frame'[j].held
        PROVE  frame'[i].thread = frame'[j].thread
    <3>1. stage[i] # "imported" /\ stage[j] # "imported"
      BY <2>2, <2>5
    <3>. QED BY <2>1, <2>3, <2>5, <3>1 DEF HeldInv
  <2>. QED BY <2>4, <2>5 DEF HeldInv
<1>13. \A j \in Calls : MustBeBusy(j) => j \in Excused
  BY DEF TInv, BusyInv
<1>14. \A i \in Calls : TurnReply(i)' => TurnReply(i)
  <2>1. ASSUME NEW i \in Calls \ {k}, TurnReply(i)' PROVE TurnReply(i)
    <3>1. stage'[i] = stage[i] /\ frame'[i] = frame[i]
      BY <1>6
    <3>2. ASSUME NEW n \in 1..Len(stdout'), stdout'[n].kind \in Given, stdout'[n].call = {i}
          PROVE  \E m \in 1..Len(stdout) : stdout[m].kind \in Given /\ stdout[m].call = {i}
      BY <1>1, <3>2
    <3>. QED BY <2>1, <3>1, <3>2 DEF TurnReply
  <2>2. ASSUME TurnReply(k)' PROVE TurnReply(k)
    <3>1. frame[k].method = "send_user_message" /\ stage[k] = "asked" /\ line.kind # "error"
      BY <1>5, <1>6, <2>2 DEF TurnReply
    <3>. QED BY <1>1, <1>2, <3>1 DEF TurnReply, Reply, Replies, Given, line
  <2>. QED BY <2>1, <2>2
<1>15. ASSUME NEW j \in Calls \ {k}, MustBeBusy(j)' PROVE MustBeBusy(j)
  <2>1. stage'[j] = stage[j] /\ frame'[j] = frame[j]
    BY <1>6
  <2>2. CASE RunsBusy(j)'
    BY <2>1, <2>2 DEF MustBeBusy, RunsBusy, Message
  <2>3. CASE AnswerBusy(j)'
    <3>1. PICK n \in 1..Len(stdout') :
            /\ Reply(stdout'[n], j)
            /\ \/ Alarming(stdout'[n])
               \/ \E m \in 1..Len(stdout') : m > n /\ Started(stdout'[m], frame[j].thread)
      BY <2>1, <2>3 DEF AnswerBusy, Reply, Alarming, SaysBusy, Started
    <3>2. n + 1 \in 1..Len(stdout) /\ Reply(stdout[n + 1], j)
      BY <1>1, <3>1
    <3>3. \/ Alarming(stdout[n + 1])
          \/ \E m \in 1..Len(stdout) : m > n + 1 /\ Started(stdout[m], frame[j].thread)
      BY <1>1, <3>1
    <3>4. AnswerBusy(j)
      BY <2>1, <2>3, <3>2, <3>3 DEF AnswerBusy
    <3>. QED BY <3>4 DEF MustBeBusy
  <2>4. CASE ReadBusy(j)'
    BY <2>1, <2>4 DEF MustBeBusy, ReadBusy, Alarming, SaysBusy
  <2>5. CASE StartedBehind(j)'
    BY <1>1, <2>1, <2>5 DEF MustBeBusy, StartedBehind, Started
  <2>6. CASE HoldsActive(j)'
    BY <2>1, <2>6 DEF MustBeBusy, HoldsActive
  <2>7. CASE WillHoldActive(j)'
    BY <1>6, <1>14, <2>1, <2>7 DEF MustBeBusy, WillHoldActive
  <2>. QED BY <1>15, <2>2, <2>3, <2>4, <2>5, <2>6, <2>7 DEF MustBeBusy
<1>16. ASSUME MustBeBusy(k)' PROVE MustBeBusy(k)
  <2>1. CASE RunsBusy(k)'
    <3>1. stage[k] \in Running
      BY <1>5 DEF Running, Stages
    <3>. QED BY <1>6, <2>1, <3>1 DEF MustBeBusy, RunsBusy, Message
  <2>2. CASE AnswerBusy(k)' \/ HoldsActive(k)' \/ WillHoldActive(k)'
    BY <1>5, <2>2 DEF AnswerBusy, HoldsActive, WillHoldActive
  <2>3. CASE ReadBusy(k)'
    <3>1. stage[k] = "reading" /\ Alarming(line)
      BY <1>5, <1>6, <2>3 DEF ReadBusy, Alarming, SaysBusy
    <3>. QED BY <1>1, <1>2, <3>1 DEF MustBeBusy, AnswerBusy, Reply, Replies, line
  <2>4. CASE StartedBehind(k)'
    <3>1. PICK n \in 1..Len(stdout') : Started(stdout'[n], frame[k].thread)
      BY <1>6, <2>4 DEF StartedBehind, Started
    <3>2. stage[k] = "reading"
      BY <1>5, <2>4 DEF StartedBehind
    <3>. QED BY <1>1, <1>2, <3>1, <3>2 DEF MustBeBusy, AnswerBusy, line
  <2>. QED BY <1>16, <2>1, <2>2, <2>3, <2>4 DEF MustBeBusy
<1>17. BusyInv'
  BY <1>13, <1>15, <1>16 DEF BusyInv
<1>18. RefusedOnlyIfBusy'
  BY <1>5, <1>6 DEF TInv, RefusedOnlyIfBusy
<1>. QED BY <1>1, <1>8, <1>9, <1>10, <1>11, <1>12, <1>17, <1>18 DEF TInv, Shape

\* A notification, whatever it does to the objects.
LEMMA NoticeKeeps ==
  ASSUME TInv, stdout # <<>>, stdout' = Tail(stdout), stdout[1].kind \notin Replies,
         chunk' \in BOOLEAN, UNCHANGED <<known, srv, turns, Excused>>,
         heap' \in [Refs -> Objects], store' \in [Threads -> Refs \cup {0}],
         stage' \in [Calls -> Stages], frame' \in [Calls -> Frames],
         StoreInv', HeldInv',
         \A j \in Calls : stage'[j] = stage[j] /\ frame'[j] = frame[j],
         \A j \in Calls : stage[j] = "refreshed" /\ heap'[frame[j].held].active # 0 =>
           heap[frame[j].held].active # 0 \/ j \in Excused
  PROVE  TInv'
<1>1. /\ 1 \in 1..Len(stdout)
      /\ stdout' \in Seq(Lines) /\ Len(stdout) \in Nat
      /\ \A n \in 1..Len(stdout') :
           /\ stdout'[n] = stdout[n + 1] /\ n + 1 \in 1..Len(stdout)
           /\ n + 1 > 1 /\ \A m \in 1..Len(stdout') : m > n => m + 1 > n + 1
      /\ OneReply'
  BY StdoutFacts
<1>2. StateOK'
  BY <1>1 DEF TInv, Shape, StateOK
<1>3. LinesInv'
  <2>1. ASSUME NEW n \in 1..Len(stdout')
        PROVE  /\ stdout'[n].kind \in Replies =>
                    \E j \in Calls : Reply(stdout'[n], j) /\ stage'[j] \in Waits
               /\ stdout'[n].kind \in {"turn/started", "turn/completed"} => stdout'[n].turn # 0
    BY <1>1 DEF TInv, Shape, LinesInv
  <2>. QED BY <2>1 DEF LinesInv, Reply
<1>4. FramesInv'
  BY DEF TInv, Shape, FramesInv
<1>5. RefusedOnlyIfBusy'
  BY DEF TInv, RefusedOnlyIfBusy
<1>6. \A j \in Calls : MustBeBusy(j) => j \in Excused
  BY DEF TInv, BusyInv
<1>7. ASSUME NEW i \in Calls, TurnReply(i)' PROVE TurnReply(i)
  <2>1. stage'[i] = stage[i] /\ frame'[i] = frame[i]
    OBVIOUS
  <2>2. ASSUME NEW n \in 1..Len(stdout'), stdout'[n].kind \in Given, stdout'[n].call = {i}
        PROVE  \E m \in 1..Len(stdout) : stdout[m].kind \in Given /\ stdout[m].call = {i}
    BY <1>1, <2>2
  <2>. QED BY <1>7, <2>1, <2>2 DEF TurnReply
<1>8. ASSUME NEW j \in Calls, MustBeBusy(j)' PROVE j \in Excused
  <2>1. stage'[j] = stage[j] /\ frame'[j] = frame[j]
    OBVIOUS
  <2>2. CASE RunsBusy(j)'
    BY <1>6, <2>1, <2>2 DEF MustBeBusy, RunsBusy, Message
  <2>3. CASE AnswerBusy(j)'
    <3>1. PICK n \in 1..Len(stdout') :
            /\ Reply(stdout'[n], j)
            /\ \/ Alarming(stdout'[n])
               \/ \E m \in 1..Len(stdout') : m > n /\ Started(stdout'[m], frame[j].thread)
      BY <2>1, <2>3 DEF AnswerBusy, Reply, Alarming, SaysBusy, Started
    <3>2. n + 1 \in 1..Len(stdout) /\ Reply(stdout[n + 1], j)
      BY <1>1, <3>1
    <3>3. \/ Alarming(stdout[n + 1])
          \/ \E m \in 1..Len(stdout) : m > n + 1 /\ Started(stdout[m], frame[j].thread)
      BY <1>1, <3>1
    <3>4. AnswerBusy(j)
      BY <2>1, <2>3, <3>2, <3>3 DEF AnswerBusy
    <3>. QED BY <1>6, <3>4 DEF MustBeBusy
  <2>4. CASE ReadBusy(j)'
    BY <1>6, <2>1, <2>4 DEF MustBeBusy, ReadBusy, Alarming, SaysBusy
  <2>5. CASE StartedBehind(j)'
    BY <1>1, <1>6, <2>1, <2>5 DEF MustBeBusy, StartedBehind, Started
  <2>6. CASE HoldsActive(j)'
    BY <1>6, <2>1, <2>6 DEF MustBeBusy, HoldsActive
  <2>7. CASE WillHoldActive(j)'
    BY <1>6, <1>7, <2>1, <2>7 DEF MustBeBusy, WillHoldActive
  <2>. QED BY <1>8, <2>2, <2>3, <2>4, <2>5, <2>6, <2>7 DEF MustBeBusy
<1>9. BusyInv'
  BY <1>8 DEF BusyInv
<1>. QED BY <1>1, <1>2, <1>3, <1>4, <1>5, <1>9 DEF TInv, Shape

LEMMA CloseFacts ==
  ASSUME heap \in [Refs -> Objects], NEW o \in Refs, heap' = [heap EXCEPT ![o].active = 0]
  PROVE  /\ heap' \in [Refs -> Objects] /\ heap'[o].meta = heap[o].meta
         /\ heap'[o].active = 0
         /\ \A p \in Refs \ {o} : heap'[p] = heap[p]
<1>1. [heap[o] EXCEPT !.active = 0] \in Objects
  BY KindFacts DEF Objects
<1>. QED BY <1>1 DEF Objects

\* A notification that changes the object of its thread drops no edit, and makes it active
\* only if it is a turn/started.
LEMMA NoticeFacts ==
  ASSUME heap \in [Refs -> Objects], store \in [Threads -> Refs \cup {0}], NEW line \in Lines,
         applyNotification(line), line.kind \notin Replies \cup {"thread/started"}
  PROVE  /\ UNCHANGED <<store, stage, frame>>
         /\ heap' \in [Refs -> Objects]
         /\ \A p \in Refs : heap[p].meta \subseteq heap'[p].meta
         /\ \A p \in Refs : heap'[p].active # 0 =>
              \/ heap[p].active # 0
              \/ line.kind = "turn/started" /\ store[line.thread] = p
<1> DEFINE o == store[line.thread]
<1>1. /\ line.thread \in Threads /\ line.turn \in 0..MaxTurns /\ line.call \subseteq Calls
      /\ line.kind \in LineKinds
  BY DEF Lines
<1>2. UNCHANGED <<store, stage, frame>>
  BY DEF applyNotification, notified, changesObject
<1>3. CASE o = 0
  BY <1>2, <1>3 DEF applyNotification, notified, changesObject
<1>4. CASE o # 0
  <2>1. o \in Refs /\ heap[o].active \in 0..MaxTurns
    BY <1>1, <1>4 DEF Objects
  <2>2. CASE line.kind = "turn/started"
    <3>1. setActiveTurn(o, line.turn)
      BY <1>4, <2>2 DEF applyNotification, notified, changesObject
    <3>. QED BY <1>1, <1>2, <2>1, <2>2, <3>1, SetActiveFacts
  <2>3. ASSUME line.kind # "turn/started", NEW u \in 0..MaxTurns, clearStoredActiveTurn(o, u)
        PROVE  /\ heap' \in [Refs -> Objects]
               /\ \A p \in Refs : heap[p].meta \subseteq heap'[p].meta
               /\ \A p \in Refs : heap'[p].active # 0 => heap[p].active # 0
    BY <2>1, <2>3, ClearFacts
  <2>4. CASE line.kind = "turn/completed"
    <3>1. clearStoredActiveTurn(o, line.turn)
      BY <1>4, <2>4 DEF applyNotification, notified, changesObject
    <3>. QED BY <1>1, <1>2, <2>3, <2>4, <3>1
  <2>5. CASE line.kind = "status/idle"
    <3>1. clearStoredActiveTurn(o, heap[o].active)
      BY <1>4, <2>5 DEF applyNotification, notified, changesObject
    <3>. QED BY <1>2, <2>1, <2>3, <2>5, <3>1
  <2>6. CASE line.kind = "thread/closed"
    <3>1. heap' = [heap EXCEPT ![o].active = 0]
      BY <1>4, <2>6 DEF applyNotification, notified, changesObject
    <3>. QED BY <1>2, <2>1, <3>1, CloseFacts
  <2>7. CASE line.kind = "name/updated"
    <3>1. heap' = [heap EXCEPT ![o].meta = @ \cup line.call]
      BY <1>4, <2>7 DEF applyNotification, notified, changesObject
    <3>. QED BY <1>1, <1>2, <3>1, EditFacts
  <2>. QED BY <1>1, <2>2, <2>4, <2>5, <2>6, <2>7 DEF LineKinds, Replies
<1>. QED BY <1>3, <1>4

LEMMA handleLineKeeps ==
  ASSUME TInv, handleLine
  PROVE  TInv'
<1> DEFINE line == stdout[1]
<1>1. /\ stdout # <<>> /\ stdout' = Tail(stdout) /\ chunk' \in BOOLEAN
      /\ UNCHANGED <<known, srv, turns, Excused>>
  BY DEF handleLine, serverVars, told, Excused
<1>2. 1 \in 1..Len(stdout) /\ Head(stdout) = line /\ line \in Lines
  BY <1>1, StdoutFacts
<1>3. CASE line.kind \in Replies
  <2>1. PICK k \in line.call :
          /\ frame' = [frame EXCEPT ![k].answer = line]
          /\ stage' = [stage EXCEPT ![k] = CASE @ = "reading" -> "read"
                                              [] @ = "asked"   -> "answered"
                                              [] @ = "syncing" -> "synced"]
    BY <1>2, <1>3 DEF handleLine, Replies
  <2>2. k \in Calls
    BY <1>2 DEF Lines
  <2>3. UNCHANGED <<heap, store>>
    BY <1>2, <1>3 DEF handleLine, Replies
  <2>. QED BY <1>1, <1>3, <2>1, <2>2, <2>3, ReplyKeeps
<1>4. CASE line.kind \notin Replies
  <2>1. applyNotification(line)
    BY <1>2, <1>4 DEF handleLine, Replies
  <2>2. /\ StateOK /\ heap \in [Refs -> Objects] /\ store \in [Threads -> Refs \cup {0}]
        /\ stage \in [Calls -> Stages] /\ frame \in [Calls -> Frames]
    BY DEF TInv, Shape, StateOK
  <2>3. line.thread \in Threads /\ line.turn \in 0..MaxTurns /\ line.snap \in Snapshots
    BY <1>2 DEF Lines
  <2>5. CASE line.kind = "thread/started"
    <3> DEFINE o == store[line.thread]
               new == Built(line.snap, o)
    <3>1. o \in Refs \cup {0} /\ new \in Objects
      BY <2>2, <2>3, BuiltFacts
    <3>2. ReplaceWith(new, line.thread, {}, "done")
      BY <2>1, <2>5 DEF applyNotification, notified, changesObject, Replace
    <3> DEFINE by == {}
    <3>3. by \in SUBSET Calls /\ ReplaceWith(new, line.thread, by, "done")
          /\ (\A k \in by : stage[k] = "read" /\ line.thread = frame[k].thread)
          /\ \A k \in Calls : k \in Calls \ by
      BY <3>2
    <3>. HIDE DEF by, new
    <3>4. /\ FramesInv' /\ StoreInv' /\ HeldInv'
          /\ heap' \in [Refs -> Objects] /\ store' \in [Threads -> Refs \cup {0}]
          /\ stage' \in [Calls -> Stages] /\ frame' \in [Calls -> Frames]
          /\ \A k \in Calls \ by :
               /\ stage'[k] = stage[k] /\ frame'[k] = frame[k]
               /\ frame[k].held # 0 => heap'[frame[k].held] = heap[frame[k].held]
      BY <2>3, <3>1, <3>3, ReplaceShape
    <3>5. \A j \in Calls : stage'[j] = stage[j] /\ frame'[j] = frame[j]
      BY <3>3, <3>4
    <3>6. \A j \in Calls : stage[j] = "refreshed" /\ heap'[frame[j].held].active # 0 =>
            heap[frame[j].held].active # 0
      BY <3>3, <3>4, HeldFacts, RefFacts
    <3>. QED BY <1>1, <1>4, <3>4, <3>5, <3>6, NoticeKeeps
  <2>6. CASE line.kind # "thread/started"
    <3>1. /\ UNCHANGED <<store, stage, frame>>
          /\ heap' \in [Refs -> Objects]
          /\ \A p \in Refs : heap'[p].active # 0 =>
               \/ heap[p].active # 0
               \/ line.kind = "turn/started" /\ store[line.thread] = p
      BY <1>2, <1>4, <2>1, <2>2, <2>6, NoticeFacts
    <3>2. StoreInv' /\ HeldInv'
      BY <3>1 DEF TInv, Shape, StoreInv, HeldInv
    <3>3. ASSUME NEW j \in Calls, stage[j] = "refreshed", heap'[frame[j].held].active # 0
          PROVE  heap[frame[j].held].active # 0 \/ j \in Excused
      <4>1. frame[j].held \in Refs /\ frame[j].held # 0
        BY <3>3, HeldFacts, RefFacts
      <4>2. CASE line.kind = "turn/started" /\ store[line.thread] = frame[j].held
        <5>1. frame[j].thread = line.thread
          BY <2>3, <3>3, <4>1, <4>2 DEF TInv, Shape, HeldInv
        <5>2. StartedBehind(j)
          BY <1>2, <3>3, <4>2, <5>1 DEF StartedBehind, Started
        <5>. QED BY <5>2 DEF TInv, BusyInv, MustBeBusy
      <4>. QED BY <3>1, <3>3, <4>1, <4>2
    <3>. QED BY <1>1, <1>4, <2>2, <3>1, <3>2, <3>3, NoticeKeeps
  <2>. QED BY <2>5, <2>6
<1>. QED BY <1>3, <1>4

-------------------------------------------------------------------------------
\* A handler's step, and a step of either side.

LEMMA CompanionKeeps == TInv /\ Companion => TInv'
<1> SUFFICES ASSUME TInv, Companion PROVE TInv'
  OBVIOUS
<1>1. ASSUME NEW k \in Calls, Handler(k) PROVE TInv'
  BY <1>1, readSettingsKeeps, refreshKeeps, checkActiveTurnKeeps, handleAnswerKeeps,
     syncStoredThreadKeeps, linkReviewKeeps DEF Handler
<1>. QED BY <1>1, call_rpcKeeps, handleLineKeeps DEF Companion

LEMMA StutterKeeps ==
  ASSUME TInv, UNCHANGED vars
  PROVE  TInv'
<1>1. /\ UNCHANGED <<heap, store, stage, frame, chunk, stdout, known, srv, turns>>
      /\ Excused' = Excused
  BY DEF vars, serverVars, told, Excused
<1>2. StateOK' /\ LinesInv' /\ OneReply' /\ FramesInv' /\ StoreInv' /\ HeldInv'
  BY <1>1 DEF TInv, Shape, StateOK, LinesInv, OneReply, FramesInv, StoreInv, HeldInv, Reply
<1>3. RefusedOnlyIfBusy'
  BY <1>1 DEF TInv, RefusedOnlyIfBusy
<1>4. BusyInv'
  BY <1>1 DEF TInv, BusyInv, MustBeBusy, RunsBusy, Message, AnswerBusy, ReadBusy, StartedBehind, HoldsActive,
              WillHoldActive, TurnReply, Reply, Started, Alarming, SaysBusy, Excused
<1>. QED BY <1>2, <1>3, <1>4 DEF TInv, Shape

LEMMA InitTInv == Init => TInv
<1> SUFFICES ASSUME Init PROVE TInv
  OBVIOUS
<1>1. /\ store = [t \in Threads |-> IF t = First THEN 1 ELSE 0]
      /\ stage = [k \in Calls |-> "new"] /\ frame = [k \in Calls |-> NoFrame]
      /\ chunk = FALSE /\ stdout = <<>> /\ known = {First}
      /\ srv = [t \in Threads |-> [active |-> 0, turns |-> IF t = First THEN {1} ELSE {}]]
      /\ turns = 1
  BY DEF Init
<1>2. MaxTurns \in Nat \ {0} /\ First \in Threads /\ 1 \in 0..MaxTurns /\ 0 \in 0..MaxTurns
      /\ 1 \in Turns
  BY ThreadAssumption DEF Turns
<1>3. 1 \in Refs
  <2>1. Cardinality(Threads) \in Nat /\ Cardinality(Calls) \in Nat
    BY FS_CardinalityType, ThreadAssumption
  <2>. QED BY <2>1 DEF Refs
<1>4. heap \in [Refs -> Objects]
  <2>1. PICK stale \in 0..1 :
          heap = [o \in Refs |->
                    IF o # 1 THEN Garbage
                    ELSE [Garbage EXCEPT !.active = stale, !.turns[1] = "active"]]
    BY DEF Init
  <2>2. stale \in 0..MaxTurns
    BY <1>2
  <2>3. Garbage \in Objects /\ [Garbage.turns EXCEPT ![1] = "active"] \in [Turns -> Statuses]
    BY NoFrameFacts DEF Objects, Statuses
  <2> DEFINE ts == [Garbage.turns EXCEPT ![1] = "active"]
  <2>4. [Garbage EXCEPT !.active = stale, !.turns[1] = "active"]
          = [Garbage EXCEPT !.active = stale, !.turns = ts]
    BY DEF Garbage
  <2>. HIDE DEF ts
  <2>5. [Garbage EXCEPT !.active = stale, !.turns = ts] \in Objects
    BY <2>2, <2>3 DEF Objects, ts
  <2>. QED BY <2>1, <2>3, <2>4, <2>5
<1>5. srv \in [Threads -> SrvOf] /\ \A t \in Threads : srv[t].active = 0
  BY <1>1, <1>2 DEF SrvOf
<1>6. StateOK
  <2>1. stage \in [Calls -> Stages] /\ frame \in [Calls -> Frames] /\ stdout \in Seq(Lines)
    BY <1>1, NoFrameFacts DEF Stages
  <2>. QED BY <1>1, <1>2, <1>3, <1>4, <1>5, <2>1 DEF StateOK, SrvOf
<1>7. Len(stdout) = 0 /\ \A n \in 1..Len(stdout) : FALSE
  BY <1>1
<1>8. LinesInv /\ OneReply
  BY <1>7 DEF LinesInv, OneReply
<1>9. \A k \in Calls : stage[k] = "new" /\ frame[k] = NoFrame /\ frame[k].held = 0
  BY <1>1, NoFrameFacts
<1>10. FramesInv /\ HeldInv
  BY <1>9 DEF FramesInv, HeldInv, Running
<1>11. StoreInv
  BY <1>1 DEF StoreInv
<1>12. BusyInv /\ RefusedOnlyIfBusy
  BY <1>9 DEF BusyInv, RefusedOnlyIfBusy, MustBeBusy, RunsBusy, Message, AnswerBusy, ReadBusy, StartedBehind,
              HoldsActive, WillHoldActive, Running
<1>. QED BY <1>6, <1>8, <1>10, <1>11, <1>12 DEF TInv, Shape

\* The invariant that the theorems rest on.
THEOREM ThreadInvariant == Spec => []TInv
<1>1. TInv /\ [Next]_vars => TInv'
  BY CompanionKeeps, AppServerKeeps, StutterKeeps DEF Next
<1>. QED BY InitTInv, <1>1, PTL DEF Spec

\* The histories name calls and turns.
LEMMA HistoriesKept ==
  ASSUME TInv, HistoriesOK, [Next]_vars
  PROVE  HistoriesOK'
<1> DEFINE Grows == /\ busy' \subseteq Calls /\ untold' \subseteq Calls /\ unmet' \subseteq Calls
                    /\ ended' \subseteq Turns /\ dropped' \subseteq Turns
<1>1. busy \subseteq Calls /\ untold \subseteq Calls /\ unmet \subseteq Calls
      /\ ended \subseteq Turns /\ dropped \subseteq Turns
  BY DEF HistoriesOK
<1>2. ASSUME NEW k \in Calls, Serve(k) PROVE Grows
  <2>1. UNCHANGED <<ended, dropped>>
    BY <1>2 DEF Serve, ServeError, ServeThread, ServeEmpty, ServeName, ServeRollback, ServeTurn,
                ServeStart, BeginTurn, companionVars
  <2>2. /\ busy' \subseteq busy \cup Calls /\ untold' \subseteq untold \cup {k}
        /\ unmet' \subseteq unmet \cup {k}
    BY <1>2 DEF Serve, ServeError, ServeThread, ServeEmpty, ServeName, ServeRollback, ServeTurn,
                ServeStart, BeginTurn, AnswerAnd
  <2>. QED BY <1>1, <2>1, <2>2
<1>3. ASSUME NEW t \in Threads, ServerTurn(t) \/ ServerTurnEnds(t) PROVE Grows
  <2>1. /\ busy' \subseteq busy \cup Calls
        /\ UNCHANGED <<untold, unmet, ended, dropped>>
    BY <1>3 DEF ServerTurn, ServerTurnEnds, BeginTurn, companionVars, told
  <2>. QED BY <1>1, <2>1
<1>4. ASSUME NEW k \in Calls, NEW m \in Methods, NEW t \in Threads, call_rpc(k, m, t)
      PROVE  Grows
  BY <1>1, <1>4 DEF call_rpc
<1>5. ASSUME NEW k \in Calls, Handler(k) PROVE Grows
  <2>1. UNCHANGED <<told, ended>>
    BY <1>5 DEF Handler, readSettings, afterSettings, refresh, checkActiveTurn, handleAnswer,
                syncStoredThread, Synced, linkReview, elsewhere
  <2>2. dropped' \subseteq dropped \cup Turns
    BY <1>5 DEF Handler, readSettings, afterSettings, refresh, checkActiveTurn, handleAnswer,
                onResult, syncStoredThread, Synced, linkReview, Replace, ReplaceWith
  <2>. QED BY <1>1, <2>1, <2>2 DEF told
<1>6. ASSUME handleLine PROVE Grows
  <2>1. stdout # <<>> /\ stdout' = Tail(stdout) /\ UNCHANGED told
    BY <1>6 DEF handleLine
  <2> DEFINE line == stdout[1]
  <2>2. /\ 1 \in 1..Len(stdout) /\ Head(stdout) = line /\ line \in Lines
    BY <2>1, StdoutFacts
  <2>3. line.kind \in {"turn/started", "turn/completed"} => line.turn \in Turns
    BY <2>2, ThreadAssumption DEF TInv, Shape, LinesInv, Turns, Lines
  <2>4. ended' \subseteq Turns
    BY <1>1, <1>6, <2>2, <2>3 DEF handleLine
  <2>5. dropped' \subseteq dropped \cup Turns
    <3>1. CASE line.kind \in Replies
      BY <1>6, <2>2, <3>1 DEF handleLine, Replies
    <3>2. CASE line.kind = "thread/started"
      BY <1>6, <2>2, <3>2 DEF handleLine, applyNotification, notified, Replace, ReplaceWith, Replies
    <3>3. CASE line.kind \notin Replies \cup {"thread/started"}
      BY <1>6, <2>2, <2>3, <3>3 DEF handleLine, applyNotification, notified
    <3>. QED BY <3>1, <3>2, <3>3
  <2>. QED BY <1>1, <2>1, <2>4, <2>5 DEF told
<1>7. ASSUME UNCHANGED vars PROVE Grows
  BY <1>1, <1>7 DEF vars, told
<1>. QED BY <1>2, <1>3, <1>4, <1>5, <1>6, <1>7 DEF Next, Companion, AppServer, HistoriesOK

\* Every variable keeps its type; there is always an object left for threadsById.set().
THEOREM TypesOK == Spec => []TypeOK
<1>1. TInv => StateOK
  BY DEF TInv, Shape
<1>2. Init => HistoriesOK
  BY DEF Init, HistoriesOK
<1>3. TInv /\ HistoriesOK /\ [Next]_vars => HistoriesOK'
  BY HistoriesKept
<1>4. StateOK /\ HistoriesOK => TypeOK
  BY DEF TypeOK
<1>. QED BY ThreadInvariant, <1>1, <1>2, <1>3, <1>4, PTL DEF Spec

\* "A turn is already active for this thread." is said only to a call during which the
\* app-server had an active turn in the thread.
THEOREM RefusedOnlyWhenBusy == Spec => []RefusedOnlyIfBusy
<1>1. TInv => RefusedOnlyIfBusy
  BY DEF TInv
<1>. QED BY ThreadInvariant, <1>1, PTL

-------------------------------------------------------------------------------
(***************************************************************************)
(* The edits.  An object that is changed in place keeps them, and the one  *)
(* that takes its place has those of the object it was built from.         *)
(***************************************************************************)
Kept(t) == Current(t).meta \subseteq Current(t)'.meta

Overlap(t) ==
  \E k \in Calls : /\ Continuing(k)
                  /\ stage'[k] # stage[k]
                  /\ \/ frame[k].held # store[t]
                     \/ stage[k] = "synced"

LEMMA InPlace ==
  ASSUME StateOK, UNCHANGED store, NEW t \in Threads, store[t] # 0,
         \A p \in Refs : heap[p].meta \subseteq heap'[p].meta
  PROVE  Kept(t)
<1>1. store[t] \in Refs
  BY DEF StateOK
<1>. QED BY <1>1 DEF Kept, Current

LEMMA ReplaceKeepsEdits ==
  ASSUME StateOK, NEW snap \in Snapshots, NEW o \in Refs \cup {0}, NEW u \in Threads,
         NEW by \in SUBSET Calls, NEW next \in {"refreshed", "imported", "done"},
         Replace(snap, o, u, by, next),
         NEW t \in Threads, store[t] # 0, t = u => store[t] = o
  PROVE  Kept(t)
<1> DEFINE new == Built(snap, o)
<1>1. new \in Objects /\ (o # 0 => new.meta = heap[o].meta)
  BY BuiltFacts
<1>2. ReplaceWith(new, u, by, next)
  BY DEF Replace
<1>. HIDE DEF new
<1>3. PICK n \in Refs : Replaced(n, new, u, by, next)
  BY <1>1, <1>2, ReplaceFacts
<1>4. /\ ~Referenced(n) /\ store' = [store EXCEPT ![u] = n] /\ heap'[n] = new
      /\ \A p \in Refs \ {n} : Referenced(p)' => heap'[p] = heap[p]
  BY <1>3 DEF Replaced
<1>5. store \in [Threads -> Refs \cup {0}] /\ store[t] \in Refs
  BY DEF StateOK
<1>6. CASE t = u
  BY <1>1, <1>4, <1>5, <1>6 DEF Kept, Current
<1>7. CASE t # u
  <2>1. store[t] \in Refs \ {n} /\ store'[t] = store[t]
    BY <1>4, <1>5, <1>7 DEF Referenced
  <2>2. Referenced(store[t])'
    BY <2>1 DEF Referenced
  <2>3. heap'[store[t]] = heap[store[t]]
    BY <1>4, <2>1, <2>2
  <2>. QED BY <2>1, <2>3 DEF Kept, Current
<1>. QED BY <1>6, <1>7

LEMMA ReplaceOrOverlap ==
  ASSUME StateOK, NEW snap \in Snapshots, NEW u \in Threads, NEW k \in Calls,
         stage[k] \in {"read", "answered"}, NEW next \in {"refreshed", "done"},
         Replace(snap, frame[k].held, u, {k}, next),
         NEW t \in Threads, store[t] # 0
  PROVE  Kept(t) \/ Overlap(t)
<1> DEFINE by == {k}
<1>1. by \in SUBSET Calls /\ k \in by /\ Replace(snap, frame[k].held, u, by, next)
  OBVIOUS
<1>. HIDE DEF by
<1>2. frame[k].held \in Refs \cup {0}
  BY FrameFacts
<1>3. CASE store[t] = frame[k].held
  BY <1>1, <1>2, <1>3, ReplaceKeepsEdits
<1>4. CASE store[t] # frame[k].held
  <2>1. stage' = [j \in Calls |-> IF j \in by THEN next ELSE stage[j]]
    BY <1>1 DEF Replace, ReplaceWith
  <2>. QED BY <1>1, <1>4, <2>1 DEF Overlap, Continuing
<1>. QED BY <1>3, <1>4

LEMMA HandlerKeepsEdits ==
  ASSUME TInv, NEW k \in Calls, Handler(k), NEW t \in Threads, store[t] # 0
  PROVE  Kept(t) \/ Overlap(t)
<1>1. StateOK /\ heap \in [Refs -> Objects]
  BY DEF TInv, Shape, StateOK
<1>2. ASSUME UNCHANGED <<heap, store>> PROVE Kept(t)
  BY <1>1, <1>2, InPlace
<1> DEFINE f == frame[k]
           a == f.answer
<1>3. /\ f.held \in Refs \cup {0} /\ f.thread \in Threads
      /\ a.snap \in Snapshots /\ a.thread \in Threads /\ a.turn \in 0..MaxTurns
  BY <1>1, FrameFacts
<1>4. CASE readSettings(k) \/ checkActiveTurn(k)
  BY <1>2, <1>4 DEF readSettings, afterSettings, checkActiveTurn
<1>5. CASE refresh(k)
  <2>1. CASE UNCHANGED <<heap, store>>
    BY <1>2, <2>1
  <2>2. CASE ~UNCHANGED <<heap, store>>
    <3>1. stage[k] = "read" /\ Replace(a.snap, f.held, f.thread, {k}, "refreshed")
      BY <1>5, <2>2 DEF refresh
    <3>. QED BY <1>1, <1>3, <3>1, ReplaceOrOverlap
  <2>. QED BY <2>1, <2>2
<1>6. CASE handleAnswer(k)
  <2>1. stage[k] = "answered" /\ stage[k] \in Running
    BY <1>6 DEF handleAnswer, Running, Stages
  <2>2. CASE a.kind = "error" \/ (f.method = "start_review" /\ UNCHANGED <<heap, store>>)
    BY <1>2, <1>6, <2>2 DEF handleAnswer
  <2>3. CASE f.method = "send_user_message" /\ setActiveTurn(f.held, a.turn) /\ UNCHANGED store
    <3>1. f.held \in Refs
      BY <2>1, <2>3, HeldFacts
    <3>2. \A p \in Refs : heap[p].meta \subseteq heap'[p].meta
      BY <1>1, <1>3, <2>3, <3>1, SetActiveFacts
    <3>. QED BY <1>1, <2>3, <3>2, InPlace
  <2>4. CASE UNCHANGED store /\ heap' = [heap EXCEPT ![f.held].meta = @ \cup {k}]
    <3> DEFINE S == {k}
    <3>1. S \subseteq Calls /\ heap' = [heap EXCEPT ![f.held].meta = @ \cup S]
      BY <2>4
    <3>. HIDE DEF S
    <3>2. \A p \in Refs : heap[p].meta \subseteq heap'[p].meta
      BY <1>1, <3>1, EditFacts
    <3>. QED BY <1>1, <2>4, <3>2, InPlace
  <2>5. CASE Replace(a.snap, f.held, a.thread, {k}, "done")
    BY <1>1, <1>3, <2>1, <2>5, ReplaceOrOverlap
  <2>. QED BY <1>6, <2>2, <2>3, <2>4, <2>5 DEF handleAnswer, onResult
<1>7. CASE syncStoredThread(k)
  <2>1. stage[k] = "synced"
    BY <1>7 DEF syncStoredThread, Synced
  <2>2. CASE a.kind = "error"
    BY <1>2, <1>7, <2>2 DEF syncStoredThread, Synced
  <2>3. CASE a.kind # "error"
    <3>1. stage'[k] = "imported"
      BY <1>7, <2>3 DEF syncStoredThread, Synced, Replace, ReplaceWith
    <3>. QED BY <2>1, <3>1 DEF Overlap, Continuing
  <2>. QED BY <2>2, <2>3
<1>8. CASE linkReview(k)
  <2>1. UNCHANGED store /\ heap' = [heap EXCEPT ![f.held].parent = {f.thread}]
    BY <1>8 DEF linkReview
  <2>2. \A p \in Refs : heap[p].meta \subseteq heap'[p].meta
    BY <1>1, <1>3, <2>1, ParentFacts
  <2>. QED BY <1>1, <2>1, <2>2, InPlace
<1>. QED BY <1>4, <1>5, <1>6, <1>7, <1>8 DEF Handler

LEMMA LineKeepsEdits ==
  ASSUME TInv, handleLine, NEW t \in Threads, store[t] # 0
  PROVE  Kept(t)
<1> DEFINE line == stdout[1]
<1>1. /\ StateOK /\ heap \in [Refs -> Objects] /\ store \in [Threads -> Refs \cup {0}]
  BY DEF TInv, Shape, StateOK
<1>2. Head(stdout) = line /\ line \in Lines
  <2>1. stdout # <<>> /\ stdout' = Tail(stdout)
    BY DEF handleLine
  <2>. QED BY <2>1, StdoutFacts
<1>3. CASE line.kind \in Replies
  <2>1. UNCHANGED <<heap, store>>
    BY <1>2, <1>3 DEF handleLine, Replies
  <2>. QED BY <1>1, <2>1, InPlace
<1>4. CASE line.kind \notin Replies
  <2>1. applyNotification(line)
    BY <1>2, <1>4 DEF handleLine, Replies
  <2>2. CASE line.kind = "thread/started"
    <3> DEFINE o == store[line.thread]
               by == {}
    <3>1. /\ by \in SUBSET Calls /\ line.thread \in Threads /\ line.snap \in Snapshots
          /\ Replace(line.snap, o, line.thread, by, "done")
      BY <1>2, <2>1, <2>2 DEF applyNotification, notified, changesObject, Lines
    <3>. HIDE DEF by
    <3>2. o \in Refs \cup {0} /\ (t = line.thread => store[t] = o)
      BY <1>1, <3>1
    <3>. HIDE DEF o, line
    <3>. QED BY <1>1, <3>1, <3>2, ReplaceKeepsEdits
  <2>3. CASE line.kind # "thread/started"
    <3>1. UNCHANGED store /\ \A p \in Refs : heap[p].meta \subseteq heap'[p].meta
      BY <1>1, <1>2, <1>4, <2>1, <2>3, NoticeFacts
    <3>. QED BY <1>1, <3>1, InPlace
  <2>. QED BY <2>2, <2>3
<1>. QED BY <1>3, <1>4

LEMMA StepKeepsEdits ==
  ASSUME TInv, [Next]_vars, NEW t \in Threads, store[t] # 0
  PROVE  Kept(t) \/ Overlap(t)
<1>1. StateOK /\ heap \in [Refs -> Objects]
  BY DEF TInv, Shape, StateOK
<1>2. ASSUME UNCHANGED <<heap, store>> PROVE Kept(t)
  BY <1>1, <1>2, InPlace
<1>3. CASE AppServer
  <2>1. ASSUME NEW k \in Calls, Serve(k) PROVE UNCHANGED <<heap, store>>
    BY <2>1 DEF Serve, ServeError, ServeThread, ServeEmpty, ServeName, ServeRollback, ServeTurn,
                ServeStart, BeginTurn, companionVars
  <2>2. ASSUME NEW u \in Threads, ServerTurn(u) \/ ServerTurnEnds(u) PROVE UNCHANGED <<heap, store>>
    BY <2>2 DEF ServerTurn, ServerTurnEnds, BeginTurn, companionVars
  <2>. QED BY <1>2, <1>3, <2>1, <2>2 DEF AppServer
<1>4. ASSUME NEW k \in Calls, NEW m \in Methods, NEW u \in Threads, call_rpc(k, m, u)
      PROVE  Kept(t)
  <2>1. UNCHANGED store
    BY <1>4 DEF call_rpc
  <2>2. CASE UNCHANGED heap
    BY <1>2, <2>1, <2>2
  <2>3. CASE heap' = [heap EXCEPT ![store[u]].meta = @ \cup {k}]
    <3> DEFINE S == {k}
    <3>1. S \subseteq Calls /\ heap' = [heap EXCEPT ![store[u]].meta = @ \cup S]
      BY <2>3
    <3>. HIDE DEF S
    <3>2. \A p \in Refs : heap[p].meta \subseteq heap'[p].meta
      BY <1>1, <3>1, EditFacts
    <3>. QED BY <1>1, <2>1, <3>2, InPlace
  <2>. QED BY <1>4, <2>2, <2>3 DEF call_rpc
<1>5. CASE UNCHANGED vars
  BY <1>2, <1>5 DEF vars
<1>. QED BY <1>3, <1>4, <1>5, HandlerKeepsEdits, LineKeepsEdits DEF Next, Companion

\* No step loses an edit that a thread of the map contains, but for the one that puts in
\* the map what a handler built from another object than the one that was there.
THEOREM EditsAreKept == Spec => EditsLostOnlyByOverlap
<1>1. TInv /\ [Next]_vars =>
        [\A t \in Threads :
           store[t] # 0 => \/ Current(t).meta \subseteq Current(t)'.meta
                           \/ \E k \in Calls : /\ Continuing(k)
                                               /\ stage'[k] # stage[k]
                                               /\ \/ frame[k].held # store[t]
                                                  \/ stage[k] = "synced"]_vars
  BY StepKeepsEdits DEF Kept, Overlap
<1>. QED BY ThreadInvariant, <1>1, PTL DEF Spec, EditsLostOnlyByOverlap

-------------------------------------------------------------------------------
(***************************************************************************)
(* What a call tells its browser.  A request that was not met is an error  *)
(* on its way to the call, or the one it has, or the failure it has told.  *)
(***************************************************************************)
IsError(line, k) == Reply(line, k) /\ line.kind = "error"
ErrorSent(k) == \E n \in 1..Len(stdout) : IsError(stdout[n], k)
ErrorHeld(k) == \/ stage[k] \in {"read", "answered", "synced"} /\ frame[k].answer.kind = "error"
                \/ stage[k] \in {"failed", "degraded"}

OutcomeInv == \A k \in Calls : k \in unmet <=> ErrorSent(k) \/ ErrorHeld(k)

\* The app-server sends lines, those that are an error to the calls in E.
LEMMA SendOutcome ==
  ASSUME TInv, OutcomeInv, UNCHANGED companionVars, NEW lines \in Seq(Lines), Send(lines),
         NEW E \in SUBSET Calls, unmet' = unmet \cup E,
         \A k \in Calls : k \in E <=> \E i \in 1..Len(lines) : IsError(lines[i], k)
  PROVE  OutcomeInv'
<1>1. stdout \in Seq(Lines) /\ stdout' = stdout \o lines /\ UNCHANGED <<stage, frame>>
  BY DEF TInv, Shape, StateOK, Send, companionVars
<1>2. /\ Len(stdout) \in Nat /\ Len(lines) \in Nat /\ Len(stdout') = Len(stdout) + Len(lines)
      /\ \A n \in 1..Len(stdout) : stdout'[n] = stdout[n] /\ n \in 1..Len(stdout')
      /\ \A n \in 1..Len(stdout') :
           \/ n \in 1..Len(stdout)
           \/ n - Len(stdout) \in 1..Len(lines) /\ stdout'[n] = lines[n - Len(stdout)]
  BY <1>1, SentFacts, SeqFacts
<1>3. \A i \in 1..Len(lines) :
        i + Len(stdout) \in 1..Len(stdout') /\ stdout'[i + Len(stdout)] = lines[i]
  BY <1>1, <1>2, ConcatProperties
<1>4. ASSUME NEW k \in Calls
      PROVE  ErrorSent(k)' <=> ErrorSent(k) \/ k \in E
  <2>1. ASSUME ErrorSent(k) PROVE ErrorSent(k)'
    <3>1. PICK n \in 1..Len(stdout) : IsError(stdout[n], k)
      BY <2>1 DEF ErrorSent
    <3>. QED BY <1>2, <3>1 DEF ErrorSent, IsError, Reply
  <2>2. ASSUME k \in E PROVE ErrorSent(k)'
    <3>1. PICK i \in 1..Len(lines) : IsError(lines[i], k)
      BY <2>2
    <3>. QED BY <1>3, <3>1 DEF ErrorSent, IsError, Reply
  <2>3. ASSUME ErrorSent(k)', ~ErrorSent(k) PROVE k \in E
    <3>1. PICK n \in 1..Len(stdout') : IsError(stdout'[n], k)
      BY <2>3 DEF ErrorSent, IsError, Reply
    <3>2. n \notin 1..Len(stdout)
      BY <1>2, <2>3, <3>1 DEF ErrorSent
    <3>3. n - Len(stdout) \in 1..Len(lines) /\ IsError(lines[n - Len(stdout)], k)
      BY <1>2, <3>1, <3>2
    <3>. QED BY <3>3
  <2>. QED BY <2>1, <2>2, <2>3
<1>. QED BY <1>1, <1>4 DEF OutcomeInv, ErrorHeld

LEMMA OneOutcome ==
  ASSUME TInv, OutcomeInv, UNCHANGED companionVars, NEW l \in Lines, Send(<<l>>),
         NEW E \in SUBSET Calls, unmet' = unmet \cup E,
         \A k \in Calls : k \in E <=> IsError(l, k)
  PROVE  OutcomeInv'
<1>. DEFINE lines == <<l>>
<1>1. lines \in Seq(Lines) /\ Len(lines) = 1 /\ lines[1] = l /\ Send(lines)
  OBVIOUS
<1>. HIDE DEF lines
<1>2. \A k \in Calls : k \in E <=> \E i \in 1..Len(lines) : IsError(lines[i], k)
  BY <1>1
<1>. QED BY <1>1, <1>2, SendOutcome

LEMMA TwoOutcome ==
  ASSUME TInv, OutcomeInv, UNCHANGED companionVars, NEW a \in Lines, NEW b \in Lines,
         InAnyOrder(a, b), b.kind # "error",
         NEW E \in SUBSET Calls, unmet' = unmet \cup E,
         \A k \in Calls : k \in E <=> IsError(a, k)
  PROVE  OutcomeInv'
<1>1. PICK lines \in {<<a, b>>, <<b, a>>} : Send(lines)
  BY DEF InAnyOrder
<1>2. /\ lines \in Seq(Lines) /\ Len(lines) = 2
      /\ \/ lines[1] = a /\ lines[2] = b
         \/ lines[1] = b /\ lines[2] = a
  <2>1. CASE lines = <<a, b>>
    BY <2>1
  <2>2. CASE lines = <<b, a>>
    BY <2>2
  <2>. QED BY <1>1, <2>1, <2>2
<1>3. \A k \in Calls : k \in E <=> \E i \in 1..Len(lines) : IsError(lines[i], k)
  <2>1. \A k : ~IsError(b, k)
    BY DEF IsError
  <2>2. 1 \in 1..Len(lines) /\ 2 \in 1..Len(lines) /\ \A i \in 1..Len(lines) : i = 1 \/ i = 2
    BY <1>2
  <2>. QED BY <1>2, <2>1, <2>2
<1>. QED BY <1>1, <1>2, <1>3, SendOutcome

\* The lines that are sent
LEMMA LineFacts ==
  ASSUME NEW k \in Calls, NEW t \in Threads, NEW u \in 0..MaxTurns
  PROVE  /\ Line("answer", {k}, t, u) \in Lines /\ Line("answer", {k}, t, u).kind = "answer"
         /\ Line("error", {k}, First, 0) \in Lines /\ Line("error", {k}, First, 0).kind = "error"
         /\ \A j \in Calls : IsError(Line("error", {k}, First, 0), j) <=> j = k
<1> DEFINE e == Line("error", {k}, First, 0)
<1>1. e \in Lines /\ e.kind = "error" /\ e.call = {k}
  BY KindFacts, NoFrameFacts DEF Line, Lines
<1>2. Line("answer", {k}, t, u) \in Lines /\ Line("answer", {k}, t, u).kind = "answer"
  BY KindFacts, NoFrameFacts DEF Line, Lines
<1>. HIDE DEF e
<1>3. \A j \in Calls : IsError(e, j) <=> j = k
  BY <1>1 DEF IsError, Reply, Replies
<1>. QED BY <1>1, <1>2, <1>3 DEF e

LEMMA ErrorOutcome ==
  ASSUME TInv, OutcomeInv, UNCHANGED companionVars, NEW k \in Calls,
         Send(<<Line("error", {k}, First, 0)>>), unmet' = unmet \cup {k}
  PROVE  OutcomeInv'
<1> DEFINE l == Line("error", {k}, First, 0)
           E == {k}
<1>1. l \in Lines /\ (\A j \in Calls : j \in E <=> IsError(l, j)) /\ E \in SUBSET Calls
      /\ unmet' = unmet \cup E /\ Send(<<l>>)
  BY LineFacts, KindFacts
<1>. HIDE DEF l, E
<1>. QED BY <1>1, OneOutcome

LEMMA OtherOutcome ==
  ASSUME TInv, OutcomeInv, UNCHANGED <<companionVars, unmet>>, NEW lines \in Seq(Lines),
         Send(lines), \A i \in 1..Len(lines) : lines[i].kind # "error"
  PROVE  OutcomeInv'
<1> DEFINE E == {}
<1>1. E \in SUBSET Calls /\ unmet' = unmet \cup E
  OBVIOUS
<1>2. \A k \in Calls : k \in E <=> \E i \in 1..Len(lines) : IsError(lines[i], k)
  BY DEF IsError
<1>. HIDE DEF E
<1>. QED BY <1>1, <1>2, SendOutcome

LEMMA AnswerOutcome ==
  ASSUME TInv, OutcomeInv, UNCHANGED companionVars, NEW k \in Calls, NEW t \in Threads,
         NEW u \in 0..MaxTurns, NEW b \in Lines, b.kind # "error", AnswerAnd(k, t, u, b)
  PROVE  OutcomeInv'
<1>1. CASE InAnyOrder(Line("answer", {k}, t, u), b) /\ UNCHANGED unmet
  <2> DEFINE a == Line("answer", {k}, t, u)
             E == {}
  <2>1. a \in Lines /\ a.kind = "answer" /\ InAnyOrder(a, b)
    BY <1>1, LineFacts
  <2>2. E \in SUBSET Calls /\ unmet' = unmet \cup E /\ \A j \in Calls : j \in E <=> IsError(a, j)
    BY <1>1, <2>1 DEF IsError
  <2>. HIDE DEF a, E
  <2>. QED BY <2>1, <2>2, TwoOutcome
<1>2. CASE InAnyOrder(Line("error", {k}, First, 0), b) /\ unmet' = unmet \cup {k}
  <2> DEFINE a == Line("error", {k}, First, 0)
             E == {k}
  <2>1. a \in Lines /\ InAnyOrder(a, b) /\ E \in SUBSET Calls /\ unmet' = unmet \cup E
        /\ \A j \in Calls : j \in E <=> IsError(a, j)
    BY <1>2, LineFacts, KindFacts
  <2>. HIDE DEF a, E
  <2>. QED BY <2>1, TwoOutcome
<1>. QED BY <1>1, <1>2 DEF AnswerAnd

LEMMA OneOther ==
  ASSUME TInv, OutcomeInv, UNCHANGED <<companionVars, unmet>>, NEW l \in Lines,
         Send(<<l>>), l.kind # "error"
  PROVE  OutcomeInv'
<1> DEFINE lines == <<l>>
<1>1. lines \in Seq(Lines) /\ Len(lines) = 1 /\ lines[1] = l /\ Send(lines)
  OBVIOUS
<1>. HIDE DEF lines
<1>. QED BY <1>1, OtherOutcome

LEMMA ServeOutcome ==
  ASSUME TInv, OutcomeInv, NEW k \in Calls, Serve(k)
  PROVE  OutcomeInv'
<1>1. CASE ServeError(k)
  BY <1>1, ErrorOutcome DEF ServeError
<1>2. CASE ServeThread(k)
  <2> DEFINE t == IF stage[k] = "syncing" THEN frame[k].answer.thread ELSE frame[k].thread
  <2>1. PICK said \in Said : Send(<<Thread({k}, t, Snapshot(srv[t], said))>>)
    BY <1>2 DEF ServeThread, Said
  <2>2. Waiting(k) /\ UNCHANGED <<companionVars, unmet>>
    BY <1>2 DEF ServeThread
  <2>3. t \in Threads /\ srv[t] \in SrvOf
    BY <2>2, WaitingFacts, ServerFacts
  <2> DEFINE snap == Snapshot(srv[t], said)
             l == Thread({k}, t, snap)
  <2>4. snap \in Snapshots /\ Send(<<l>>)
    BY <2>1, <2>3, SnapshotFacts
  <2>. HIDE DEF snap, t
  <2>5. l \in Lines /\ l.kind = "answer"
    BY <2>3, <2>4, KindFacts, NoFrameFacts DEF Line, Thread, Lines
  <2>. HIDE DEF l
  <2>. QED BY <2>2, <2>4, <2>5, OneOther
<1>3. CASE ServeEmpty(k)
  <2> DEFINE l == Line("empty", {k}, First, 0)
  <2>1. l \in Lines /\ l.kind = "empty"
    BY KindFacts, NoFrameFacts DEF Line, Lines
  <2>2. Send(<<l>>) /\ UNCHANGED <<companionVars, unmet>>
    BY <1>3 DEF ServeEmpty
  <2>. HIDE DEF l
  <2>. QED BY <2>1, <2>2, OneOther
<1>4. CASE ServeName(k)
  <2> DEFINE t == frame[k].thread
             b == Line("name/updated", {k}, t, 0)
  <2>1. Waiting(k) /\ AnswerAnd(k, t, 0, b) /\ UNCHANGED companionVars
    BY <1>4 DEF ServeName
  <2>2. t \in Threads
    BY <2>1, WaitingFacts
  <2>3. b \in Lines /\ b.kind = "name/updated"
    BY <2>2, KindFacts, NoFrameFacts DEF Line, Lines
  <2>. HIDE DEF b, t
  <2>. QED BY <2>1, <2>2, <2>3, KindFacts, AnswerOutcome
<1>5. CASE ServeRollback(k)
  <2> DEFINE t == frame[k].thread
             cut == {u \in srv[t].turns :
                       Cardinality({v \in srv[t].turns : v >= u}) <= frame[k].numTurns}
             s == [srv[t] EXCEPT !.turns = @ \ cut]
             snap == Snapshot(s, "status")
             l == Thread({k}, t, snap)
  <2>1. /\ Waiting(k) /\ UNCHANGED companionVars
        /\ \/ Send(<<l>>) /\ UNCHANGED unmet
           \/ Send(<<Line("error", {k}, First, 0)>>) /\ unmet' = unmet \cup {k}
    BY <1>5 DEF ServeRollback
  <2>2. t \in Threads
    BY <2>1, WaitingFacts
  <2>3. s \in SrvOf
    <3>1. srv[t] \in SrvOf
      BY <2>2, ServerFacts
    <3>. HIDE DEF cut
    <3>. QED BY <3>1 DEF SrvOf
  <2>. HIDE DEF s
  <2>4. snap \in Snapshots
    BY <2>3, SnapshotFacts DEF Said
  <2>. HIDE DEF snap
  <2>5. l \in Lines /\ l.kind = "answer"
    BY <2>2, <2>4, KindFacts, NoFrameFacts DEF Line, Thread, Lines
  <2>. HIDE DEF l
  <2>. QED BY <2>1, <2>5, OneOther, ErrorOutcome
<1>6. CASE ServeTurn(k)
  <2>1. PICK t \in Threads, u \in Turns :
          BeginTurn(t, u) /\ AnswerAnd(k, t, u, Line("turn/started", {}, t, u))
    BY <1>6 DEF ServeTurn
  <2> DEFINE b == Line("turn/started", {}, t, u)
  <2>2. UNCHANGED companionVars /\ u \in 0..MaxTurns /\ AnswerAnd(k, t, u, b)
    BY <2>1, BeginFacts
  <2>3. b \in Lines /\ b.kind = "turn/started"
    BY <2>2, KindFacts, NoFrameFacts DEF Line, Lines
  <2>. HIDE DEF b
  <2>. QED BY <2>2, <2>3, AnswerOutcome
<1>7. CASE ServeStart(k)
  <2>1. PICK t \in Threads : AnswerAnd(k, t, 0, Line("thread/started", {}, t, 0))
    BY <1>7 DEF ServeStart
  <2> DEFINE b == Line("thread/started", {}, t, 0)
  <2>2. UNCHANGED companionVars /\ AnswerAnd(k, t, 0, b)
    BY <1>7, <2>1 DEF ServeStart
  <2>3. b \in Lines /\ b.kind = "thread/started"
    BY KindFacts, NoFrameFacts DEF Line, Lines
  <2>. HIDE DEF b
  <2>. QED BY <2>2, <2>3, KindFacts, AnswerOutcome
<1>. QED BY <1>1, <1>2, <1>3, <1>4, <1>5, <1>6, <1>7 DEF Serve

LEMMA TurnOutcome ==
  ASSUME TInv, OutcomeInv, NEW t \in Threads, ServerTurn(t) \/ ServerTurnEnds(t)
  PROVE  OutcomeInv'
<1>1. CASE ServerTurn(t)
  <2>1. PICK u \in Turns : BeginTurn(t, u) /\ Send(<<Line("turn/started", {}, t, u)>>)
    BY <1>1 DEF ServerTurn
  <2> DEFINE l == Line("turn/started", {}, t, u)
  <2>2. u \in 0..MaxTurns /\ UNCHANGED <<companionVars, unmet>> /\ Send(<<l>>)
    BY <1>1, <2>1, BeginFacts DEF ServerTurn
  <2>3. l \in Lines /\ l.kind = "turn/started"
    BY <2>2, KindFacts, NoFrameFacts DEF Line, Lines
  <2>. HIDE DEF l
  <2>. QED BY <2>2, <2>3, OneOther
<1>2. CASE ServerTurnEnds(t)
  <2> DEFINE n(kind) == Line(kind, {}, t, srv[t].active)
             a == n("turn/completed")
             b == n("status/idle")
             c == n("thread/closed")
  <2>1. /\ UNCHANGED <<companionVars, unmet>>
        /\ Send(<<a>>) \/ Send(<<b, a>>) \/ Send(<<a, c>>)
    BY <1>2 DEF ServerTurnEnds, told
  <2>2. srv[t].active \in 0..MaxTurns
    BY ServerFacts DEF SrvOf
  <2>3. /\ a \in Lines /\ a.kind = "turn/completed"
        /\ b \in Lines /\ b.kind = "status/idle"
        /\ c \in Lines /\ c.kind = "thread/closed"
    BY <2>2, KindFacts, NoFrameFacts DEF Line, Lines
  <2>. HIDE DEF a, b, c
  <2>4. PICK lines \in {<<a>>, <<b, a>>, <<a, c>>} : Send(lines)
    BY <2>1
  <2>5. lines \in Seq(Lines) /\ \A i \in 1..Len(lines) : lines[i].kind # "error"
    <3>1. CASE lines = <<a>>
      BY <2>3, <3>1
    <3>2. CASE lines = <<b, a>>
      BY <2>3, <3>2
    <3>3. CASE lines = <<a, c>>
      BY <2>3, <3>3
    <3>. QED BY <2>4, <3>1, <3>2, <3>3
  <2>. QED BY <2>1, <2>4, <2>5, OtherOutcome
<1>. QED BY <1>1, <1>2

\* A call that waits for no answer takes a step of its own.
LEMMA OwnOutcome ==
  ASSUME TInv, OutcomeInv, NEW k \in Calls, stage[k] \notin Waits, UNCHANGED <<stdout, unmet>>,
         \A j \in Calls \ {k} : stage'[j] = stage[j] /\ frame'[j] = frame[j],
         stage'[k] \notin {"read", "answered", "synced"},
         ErrorHeld(k) <=> stage'[k] \in {"failed", "degraded"}
  PROVE  OutcomeInv'
<1>1. ~ErrorSent(k) /\ ~ErrorSent(k)'
  BY NoReply DEF TInv, Shape, ErrorSent, IsError
<1>2. ErrorHeld(k)' <=> ErrorHeld(k)
  BY DEF ErrorHeld
<1>3. \A j \in Calls \ {k} : (ErrorSent(j)' <=> ErrorSent(j)) /\ (ErrorHeld(j)' <=> ErrorHeld(j))
  BY DEF ErrorSent, ErrorHeld, IsError, Reply
<1>. QED BY <1>1, <1>2, <1>3 DEF OutcomeInv

\* Handler k goes on, or ends; the others stay where they are.
LEMMA GotoOwn ==
  ASSUME StateOK, NEW k \in Calls, NEW st \in Stages, Goto(k, st)
  PROVE  stage'[k] = st /\ \A j \in Calls \ {k} : stage'[j] = stage[j] /\ frame'[j] = frame[j]
<1>1. stage \in [Calls -> Stages] /\ frame \in [Calls -> Frames]
  BY DEF StateOK
<1>. QED BY <1>1 DEF Goto

LEMMA ReplaceOwn ==
  ASSUME StateOK, NEW snap, NEW o, NEW t, NEW k \in Calls, NEW next, Replace(snap, o, t, {k}, next)
  PROVE  stage'[k] = next /\ \A j \in Calls \ {k} : stage'[j] = stage[j] /\ frame'[j] = frame[j]
BY DEF Replace, ReplaceWith

LEMMA CallOutcome ==
  ASSUME TInv, OutcomeInv, NEW k \in Calls, NEW m \in Methods, NEW t \in Threads,
         call_rpc(k, m, t)
  PROVE  OutcomeInv'
<1>1. StateOK /\ stage \in [Calls -> Stages] /\ frame \in [Calls -> Frames]
  BY DEF TInv, Shape, StateOK
<1>2. stage[k] = "new" /\ UNCHANGED <<stdout, unmet>>
  BY DEF call_rpc
<1>3. /\ stage'[k] \in {"done", "settings"}
      /\ \A j \in Calls \ {k} : stage'[j] = stage[j] /\ frame'[j] = frame[j]
  <2>1. CASE Goto(k, "done")
    BY <1>1, <2>1, GotoOwn DEF Stages
  <2>2. CASE m # "edit"
    BY <1>1, <2>2 DEF call_rpc
  <2>. QED BY <2>1, <2>2 DEF call_rpc
<1>. QED BY <1>2, <1>3, OwnOutcome DEF ErrorHeld, Waits

LEMMA HandlerOutcome ==
  ASSUME TInv, OutcomeInv, NEW k \in Calls, Handler(k)
  PROVE  OutcomeInv'
<1> DEFINE f == frame[k]
           Others == \A j \in Calls \ {k} : stage'[j] = stage[j] /\ frame'[j] = frame[j]
<1>1. StateOK
  BY DEF TInv, Shape
<1>2. {"asked", "reading", "refreshed", "refused", "failed", "degraded", "done", "syncing"}
        \subseteq Stages
  BY DEF Stages
<1>3. UNCHANGED <<stdout, unmet>>
  BY DEF Handler, readSettings, afterSettings, refresh, checkActiveTurn, handleAnswer,
         syncStoredThread, Synced, linkReview, elsewhere, told
<1>4. CASE readSettings(k)
  <2>1. stage[k] = "settings" /\ (Goto(k, "reading") \/ Goto(k, "asked"))
    BY <1>4 DEF readSettings, afterSettings
  <2>2. stage'[k] \in {"reading", "asked"} /\ Others
    BY <1>1, <1>2, <2>1, GotoOwn
  <2>. QED BY <1>3, <2>1, <2>2, OwnOutcome DEF ErrorHeld, Waits
<1>5. CASE checkActiveTurn(k)
  <2>1. stage[k] = "refreshed" /\ (Goto(k, "refused") \/ Goto(k, "asked"))
    BY <1>5 DEF checkActiveTurn
  <2>2. stage'[k] \in {"refused", "asked"} /\ Others
    BY <1>1, <1>2, <2>1, GotoOwn
  <2>. QED BY <1>3, <2>1, <2>2, OwnOutcome DEF ErrorHeld, Waits
<1>6. CASE refresh(k)
  <2>1. /\ stage[k] = "read"
        /\ \/ f.answer.kind = "error" /\ Goto(k, "failed")
           \/ f.answer.kind = "empty" /\ Goto(k, "refreshed")
           \/ f.answer.kind = "answer" /\ Replace(f.answer.snap, f.held, f.thread, {k}, "refreshed")
    BY <1>6 DEF refresh
  <2>2. /\ stage'[k] = IF f.answer.kind = "error" THEN "failed" ELSE "refreshed"
        /\ Others
    BY <1>1, <1>2, <2>1, GotoOwn, ReplaceOwn
  <2>. QED BY <1>3, <2>1, <2>2, OwnOutcome DEF ErrorHeld, Waits
<1>7. CASE handleAnswer(k)
  <2>1. stage[k] = "answered"
    BY <1>7 DEF handleAnswer
  <2>2. CASE f.answer.kind = "error"
    <3>1. Goto(k, "degraded") \/ Goto(k, "failed")
      BY <1>7, <2>2 DEF handleAnswer
    <3>2. stage'[k] \in {"degraded", "failed"} /\ Others
      BY <1>1, <1>2, <3>1, GotoOwn
    <3>. QED BY <1>3, <2>1, <2>2, <3>2, OwnOutcome DEF ErrorHeld, Waits
  <2>3. CASE f.answer.kind # "error"
    <3>1. \/ Goto(k, "syncing") \/ Goto(k, "done")
          \/ Replace(f.answer.snap, f.held, f.answer.thread, {k}, "done")
      BY <1>7, <2>3 DEF handleAnswer, onResult
    <3>2. stage'[k] \in {"syncing", "done"} /\ Others
      BY <1>1, <1>2, <3>1, GotoOwn, ReplaceOwn
    <3>. QED BY <1>3, <2>1, <2>3, <3>2, OwnOutcome DEF ErrorHeld, Waits
  <2>. QED BY <2>2, <2>3
<1>8. CASE syncStoredThread(k)
  <2>1. /\ stage[k] = "synced"
        /\ IF f.answer.kind = "error" THEN Goto(k, "failed")
           ELSE Replace(f.answer.snap, 0, f.answer.thread, {k}, "imported")
    BY <1>8 DEF syncStoredThread, Synced
  <2>2. /\ stage'[k] = IF f.answer.kind = "error" THEN "failed" ELSE "imported"
        /\ Others
    BY <1>1, <1>2, <2>1, GotoOwn, ReplaceOwn
  <2>. QED BY <1>3, <2>1, <2>2, OwnOutcome DEF ErrorHeld, Waits
<1>9. CASE linkReview(k)
  <2>1. stage[k] = "imported" /\ Goto(k, "done")
    BY <1>9 DEF linkReview
  <2>2. stage'[k] = "done" /\ Others
    BY <1>1, <1>2, <2>1, GotoOwn
  <2>. QED BY <1>3, <2>1, <2>2, OwnOutcome DEF ErrorHeld, Waits
<1>. QED BY <1>4, <1>5, <1>6, <1>7, <1>8, <1>9 DEF Handler

LEMMA LineOutcome ==
  ASSUME TInv, OutcomeInv, handleLine
  PROVE  OutcomeInv'
<1> DEFINE line == stdout[1]
<1>1. stdout # <<>> /\ stdout' = Tail(stdout) /\ UNCHANGED unmet
  BY DEF handleLine, told
<1>2. /\ 1 \in 1..Len(stdout) /\ Head(stdout) = line /\ line \in Lines /\ Len(stdout) \in Nat
      /\ \A n \in 1..Len(stdout') : stdout'[n] = stdout[n + 1] /\ n + 1 \in 1..Len(stdout)
      /\ Len(stdout') = Len(stdout) - 1
  <2>1. stdout \in Seq(Lines)
    BY DEF TInv, Shape, StateOK
  <2>. QED BY <1>1, <2>1, StdoutFacts, TakenFacts
<1>3. \A n \in 1..Len(stdout) : n = 1 \/ (n - 1 \in 1..Len(stdout') /\ stdout'[n - 1] = stdout[n])
  BY <1>2
<1>4. stage \in [Calls -> Stages] /\ frame \in [Calls -> Frames]
  BY DEF TInv, Shape, StateOK
<1>. HIDE DEF line
<1>5. ASSUME NEW j \in Calls
      PROVE  ErrorSent(j) <=> ErrorSent(j)' \/ IsError(line, j)
  <2>1. ASSUME ErrorSent(j) PROVE ErrorSent(j)' \/ IsError(line, j)
    <3>1. PICK n \in 1..Len(stdout) : IsError(stdout[n], j)
      BY <2>1 DEF ErrorSent
    <3>2. CASE n = 1
      BY <3>1, <3>2 DEF line
    <3>3. CASE n # 1
      BY <1>3, <3>1, <3>3 DEF ErrorSent, IsError, Reply
    <3>. QED BY <3>2, <3>3
  <2>2. ASSUME ErrorSent(j)' PROVE ErrorSent(j)
    BY <1>2, <2>2 DEF ErrorSent, IsError, Reply
  <2>3. IsError(line, j) => ErrorSent(j)
    BY <1>2 DEF ErrorSent, line
  <2>. QED BY <2>1, <2>2, <2>3
<1>6. CASE line.kind \in Replies
  <2>1. PICK k \in line.call :
          /\ frame' = [frame EXCEPT ![k].answer = line]
          /\ stage' = [stage EXCEPT ![k] = CASE @ = "reading" -> "read"
                                              [] @ = "asked"   -> "answered"
                                              [] @ = "syncing" -> "synced"]
    BY <1>2, <1>6 DEF handleLine, Replies
  <2>2. k \in Calls
    BY <1>2, <2>1 DEF Lines
  <2>3. Reply(line, k) /\ stage[k] \in Waits
    BY <1>2, <1>6, <2>1, <2>2 DEF TInv, Shape, LinesInv, Reply, line
  <2>4. /\ stage'[k] \in {"read", "answered", "synced"} /\ frame'[k].answer = line
        /\ \A j \in Calls \ {k} : stage'[j] = stage[j] /\ frame'[j] = frame[j]
    BY <1>4, <2>1, <2>2, <2>3 DEF Waits, Frames
  <2>5. ~ErrorSent(k)'
    <3>1. ASSUME NEW n \in 1..Len(stdout'), Reply(stdout'[n], k) PROVE FALSE
      <4>1. n + 1 \in 1..Len(stdout) /\ Reply(stdout[n + 1], k) /\ n + 1 # 1
        BY <1>2, <3>1
      <4>. QED BY <1>2, <2>2, <2>3, <4>1 DEF TInv, Shape, OneReply, line
    <3>. QED BY <3>1 DEF ErrorSent, IsError, Reply
  <2>6. ~ErrorHeld(k) /\ (ErrorHeld(k)' <=> line.kind = "error")
    BY <2>3, <2>4 DEF ErrorHeld, Waits
  <2>7. k \in unmet' <=> ErrorSent(k)' \/ ErrorHeld(k)'
    BY <1>1, <1>5, <2>2, <2>3, <2>5, <2>6 DEF OutcomeInv, IsError
  <2>8. \A j \in Calls \ {k} : j \in unmet' <=> ErrorSent(j)' \/ ErrorHeld(j)'
    <3>1. \A j \in Calls \ {k} : ~IsError(line, j)
      BY <2>3 DEF IsError, Reply
    <3>2. \A j \in Calls \ {k} : ErrorHeld(j)' <=> ErrorHeld(j)
      BY <2>4 DEF ErrorHeld
    <3>. QED BY <1>1, <1>5, <3>1, <3>2 DEF OutcomeInv
  <2>. QED BY <2>7, <2>8 DEF OutcomeInv
<1>7. CASE line.kind \notin Replies
  <2>1. \A j \in Calls : stage'[j] = stage[j] /\ frame'[j] = frame[j]
    <3>1. applyNotification(line)
      BY <1>2, <1>7 DEF handleLine, Replies
    <3>2. CASE line.kind = "thread/started"
      BY <3>1, <3>2 DEF applyNotification, notified, Replace, ReplaceWith
    <3>3. CASE line.kind # "thread/started"
      BY <3>1, <3>3 DEF applyNotification, notified
    <3>. QED BY <3>2, <3>3
  <2>2. \A j \in Calls : ~IsError(line, j) /\ (ErrorHeld(j)' <=> ErrorHeld(j))
    BY <1>7, <2>1 DEF IsError, Reply, ErrorHeld
  <2>. QED BY <1>1, <1>5, <2>2 DEF OutcomeInv
<1>. QED BY <1>6, <1>7

\* A call succeeds only if all its requests did, and fails, or falls back on the local
\* copy, only if one did not.
THEOREM OutcomesAreTrue == Spec => []OutcomeIsTrue
<1>1. Init => OutcomeInv
  <2>. SUFFICES ASSUME Init PROVE OutcomeInv
    OBVIOUS
  <2>1. Len(stdout) = 0 /\ unmet = {} /\ \A k \in Calls : stage[k] = "new"
    BY DEF Init
  <2>. QED BY <2>1 DEF OutcomeInv, ErrorSent, ErrorHeld
<1>2. TInv /\ OutcomeInv /\ [Next]_vars => OutcomeInv'
  <2>. SUFFICES ASSUME TInv, OutcomeInv, [Next]_vars PROVE OutcomeInv'
    OBVIOUS
  <2>1. CASE UNCHANGED vars
    <3>1. UNCHANGED <<stage, frame, stdout, unmet>>
      BY <2>1 DEF vars, told
    <3>. QED BY <3>1 DEF OutcomeInv, ErrorSent, ErrorHeld, IsError, Reply
  <2>. QED BY <2>1, ServeOutcome, TurnOutcome, CallOutcome, HandlerOutcome, LineOutcome
           DEF Next, Companion, AppServer
<1>3. TInv /\ OutcomeInv => OutcomeIsTrue
  <2>. SUFFICES ASSUME TInv, OutcomeInv, NEW k \in Calls
                PROVE  /\ stage[k] = "done" => k \notin unmet
                       /\ stage[k] \in {"failed", "degraded"} => k \in unmet
    BY DEF OutcomeIsTrue
  <2>1. stage[k] = "done" => ~ErrorSent(k)
    BY NoReply DEF TInv, Shape, ErrorSent, IsError, Waits
  <2>. QED BY <2>1 DEF OutcomeInv, ErrorHeld
<1>. QED BY ThreadInvariant, <1>1, <1>2, <1>3, PTL DEF Spec

-------------------------------------------------------------------------------
(***************************************************************************)
(* The record of the turn that runs.  It is in the object of the map, or   *)
(* the turn/started that puts it there is on its way, or it was dropped.   *)
(***************************************************************************)
Recorded(t, u) == store[t] # 0 /\ heap[store[t]].turns[u] # "none"
OnItsWay(t, u) == \E n \in 1..Len(stdout) : Started(stdout[n], t) /\ stdout[n].turn = u
Accounted(t, u) == u \in dropped \/ Recorded(t, u) \/ OnItsWay(t, u)

RecordInv == \A t \in Threads : srv[t].active # 0 => Accounted(t, srv[t].active)

\* The objects keep the turns they have.
KeepsTurns ==
  \A p \in Refs : \A v \in Turns : heap[p].turns[v] # "none" => heap'[p].turns[v] # "none"

LEMMA SetActiveTurns ==
  ASSUME heap \in [Refs -> Objects], NEW o \in Refs, NEW u \in 0..MaxTurns, setActiveTurn(o, u)
  PROVE  KeepsTurns /\ (u \in Turns => heap'[o].turns[u] # "none")
<1> DEFINE ts == [heap[o].turns EXCEPT ![u] = "active"]
<1>1. heap[o] \in Objects /\ heap[o].turns \in [Turns -> Statuses]
  BY DEF Objects
<1>2. \A v \in Turns : ts[v] = IF v = u THEN "active" ELSE heap[o].turns[v]
  BY <1>1
<1>3. heap' = [heap EXCEPT ![o] = [heap[o] EXCEPT !.turns = ts, !.active = u]]
  BY DEF setActiveTurn
<1>. HIDE DEF ts
<1>4. heap'[o].turns = ts /\ \A p \in Refs \ {o} : heap'[p] = heap[p]
  BY <1>1, <1>3 DEF Objects
<1>. QED BY <1>2, <1>4 DEF KeepsTurns

LEMMA ClearTurns ==
  ASSUME heap \in [Refs -> Objects], NEW o \in Refs, NEW u \in 0..MaxTurns,
         clearStoredActiveTurn(o, u)
  PROVE  KeepsTurns
<1> DEFINE ts == IF u = 0 THEN heap[o].turns ELSE [heap[o].turns EXCEPT ![u] = "completed"]
<1>1. heap[o] \in Objects /\ heap[o].turns \in [Turns -> Statuses]
  BY DEF Objects
<1>2. \A v \in Turns : heap[o].turns[v] # "none" => ts[v] # "none"
  BY <1>1
<1>3. heap' = [heap EXCEPT ![o].active = 0, ![o].turns = ts]
  BY DEF clearStoredActiveTurn
<1>. HIDE DEF ts
<1>4. heap' = [heap EXCEPT ![o] = [@ EXCEPT !.active = 0, !.turns = ts]]
  BY <1>3
<1>5. heap'[o].turns = ts /\ \A p \in Refs \ {o} : heap'[p] = heap[p]
  BY <1>1, <1>4 DEF Objects
<1>. QED BY <1>2, <1>5 DEF KeepsTurns

\* A change of another field
LEMMA OtherField ==
  ASSUME heap \in [Refs -> Objects], NEW o, NEW new, heap' = [heap EXCEPT ![o] = new],
         o \in Refs => new.turns = heap[o].turns
  PROVE  KeepsTurns
BY DEF KeepsTurns

LEMMA FieldTurns ==
  ASSUME heap \in [Refs -> Objects], NEW o,
         \/ \E S \in SUBSET Calls : heap' = [heap EXCEPT ![o].meta = @ \cup S]
         \/ \E t \in Threads : heap' = [heap EXCEPT ![o].parent = {t}]
         \/ heap' = [heap EXCEPT ![o].active = 0]
  PROVE  KeepsTurns
<1>1. \A p \in Refs : heap[p] \in Objects
  OBVIOUS
<1>2. ASSUME NEW S \in SUBSET Calls, heap' = [heap EXCEPT ![o].meta = @ \cup S]
      PROVE  KeepsTurns
  <2> DEFINE new == [heap[o] EXCEPT !.meta = @ \cup S]
  <2>1. heap' = [heap EXCEPT ![o] = new] /\ (o \in Refs => new.turns = heap[o].turns)
    BY <1>1, <1>2 DEF Objects
  <2>. HIDE DEF new
  <2>. QED BY <2>1, OtherField
<1>3. ASSUME NEW t \in Threads, heap' = [heap EXCEPT ![o].parent = {t}]
      PROVE  KeepsTurns
  <2> DEFINE new == [heap[o] EXCEPT !.parent = {t}]
  <2>1. heap' = [heap EXCEPT ![o] = new] /\ (o \in Refs => new.turns = heap[o].turns)
    BY <1>1, <1>3 DEF Objects
  <2>. HIDE DEF new
  <2>. QED BY <2>1, OtherField
<1>4. ASSUME heap' = [heap EXCEPT ![o].active = 0]
      PROVE  KeepsTurns
  <2> DEFINE new == [heap[o] EXCEPT !.active = 0]
  <2>1. heap' = [heap EXCEPT ![o] = new] /\ (o \in Refs => new.turns = heap[o].turns)
    BY <1>1, <1>4 DEF Objects
  <2>. HIDE DEF new
  <2>. QED BY <2>1, OtherField
<1>. QED BY <1>2, <1>3, <1>4

\* What is recorded stays so, or is dropped, when objects change in place and when one
\* takes the place of another.
RecordKept ==
  \A t \in Threads : \A u \in Turns : Recorded(t, u) => Recorded(t, u)' \/ u \in dropped'

LEMMA InPlaceRecord ==
  ASSUME StateOK, UNCHANGED store, KeepsTurns
  PROVE  RecordKept
<1>1. \A t \in Threads : store[t] # 0 => store[t] \in Refs
  BY DEF StateOK
<1>. QED BY <1>1 DEF RecordKept, Recorded, KeepsTurns

LEMMA ReplaceRecord ==
  ASSUME StateOK, NEW snap \in Snapshots, NEW o \in Refs \cup {0}, NEW t \in Threads,
         NEW by \in SUBSET Calls, NEW next \in {"refreshed", "imported", "done"},
         Replace(snap, o, t, by, next)
  PROVE  RecordKept /\ dropped \subseteq dropped'
<1> DEFINE new == Built(snap, o)
<1>1. new \in Objects
  BY BuiltFacts
<1>2. ReplaceWith(new, t, by, next)
  BY DEF Replace
<1>. HIDE DEF new
<1>3. PICK n \in Refs : Replaced(n, new, t, by, next)
  BY <1>1, <1>2, ReplaceFacts
<1>4. /\ ~Referenced(n) /\ store' = [store EXCEPT ![t] = n] /\ heap'[n] = new
      /\ \A p \in Refs \ {n} : Referenced(p)' => heap'[p] = heap[p]
  BY <1>3 DEF Replaced
<1>5. dropped' = dropped \cup {u \in Turns : /\ store[t] # 0 /\ new.turns[u] = "none"
                                            /\ heap[store[t]].turns[u] # "none"}
  BY <1>2 DEF ReplaceWith
<1>6. ASSUME NEW v \in Threads, NEW u \in Turns, Recorded(v, u)
      PROVE  Recorded(v, u)' \/ u \in dropped'
  <2>1. store[v] \in Refs /\ n # 0
    BY <1>6, RefFacts DEF StateOK, Recorded
  <2>2. CASE v = t
    <3>1. store'[v] = n
      BY <1>4, <2>2 DEF StateOK
    <3>. QED BY <1>4, <1>5, <1>6, <2>1, <2>2, <3>1 DEF Recorded
  <2>3. CASE v # t
    <3>1. store[v] # n /\ store'[v] = store[v]
      BY <1>4, <2>3 DEF Referenced, StateOK
    <3>2. Referenced(store[v])'
      BY <3>1 DEF Referenced
    <3>3. heap'[store[v]] = heap[store[v]]
      BY <1>4, <2>1, <3>1, <3>2
    <3>. QED BY <1>6, <3>1, <3>3 DEF Recorded
  <2>. QED BY <2>2, <2>3
<1>. QED BY <1>5, <1>6 DEF RecordKept

\* The app-server sends lines: the turn it has active then is the one it had, or one of
\* them says that it began.
LEMMA SendRecord ==
  ASSUME TInv, RecordInv, UNCHANGED companionVars, NEW T, NEW lines \in Seq(T), Send(lines),
         \A t \in Threads :
           \/ srv'[t].active \in {0, srv[t].active}
           \/ \E i \in 1..Len(lines) : Started(lines[i], t) /\ lines[i].turn = srv'[t].active
  PROVE  RecordInv'
<1> DEFINE U == Lines \cup T
<1>1. /\ stdout \in Seq(U) /\ lines \in Seq(U) /\ stdout' = stdout \o lines
      /\ UNCHANGED <<heap, store, dropped>>
  BY DEF TInv, Shape, StateOK, Send, companionVars
<1>. HIDE DEF U
<1>2. /\ Len(stdout) \in Nat /\ Len(lines) \in Nat
      /\ \A n \in 1..Len(stdout) : stdout'[n] = stdout[n] /\ n \in 1..Len(stdout')
  BY <1>1, SentFacts, SeqFacts
<1>3. \A i \in 1..Len(lines) :
        i + Len(stdout) \in 1..Len(stdout') /\ stdout'[i + Len(stdout)] = lines[i]
  BY <1>1, <1>2, SentFacts, ConcatProperties
<1>4. ASSUME NEW t \in Threads, NEW u, Accounted(t, u) PROVE Accounted(t, u)'
  <2>1. (OnItsWay(t, u) => OnItsWay(t, u)') /\ (Recorded(t, u) => Recorded(t, u)')
    BY <1>1, <1>2 DEF OnItsWay, Started, Recorded
  <2>. QED BY <1>1, <1>4, <2>1 DEF Accounted
<1>5. ASSUME NEW t \in Threads, NEW u, NEW i \in 1..Len(lines), Started(lines[i], t),
             lines[i].turn = u
      PROVE  Accounted(t, u)'
  BY <1>3, <1>5 DEF Accounted, OnItsWay, Started
<1>. QED BY <1>4, <1>5 DEF RecordInv

\* The turn that is begun is told of.
LEMMA BeginRecord ==
  ASSUME TInv, RecordInv, NEW t \in Threads, NEW u \in Turns, BeginTurn(t, u),
         NEW T, NEW lines \in Seq(T), Send(lines), NEW i \in 1..Len(lines),
         lines[i] = Line("turn/started", {}, t, u)
  PROVE  RecordInv'
<1>1. UNCHANGED companionVars /\ srv' = [srv EXCEPT ![t] = [active |-> u, turns |-> @.turns \cup {u}]]
  BY DEF BeginTurn
<1>2. srv'[t].active = u /\ \A v \in Threads \ {t} : srv'[v] = srv[v]
  BY <1>1, ServerFacts
<1>3. Started(lines[i], t) /\ lines[i].turn = u
  BY DEF Started, Line
<1>. QED BY <1>1, <1>2, <1>3, SendRecord

\* The other steps of the app-server begin none.
LEMMA OtherRecord ==
  ASSUME TInv, RecordInv, UNCHANGED companionVars,
         \A t \in Threads : srv'[t].active \in {0, srv[t].active},
         \/ \E a : Send(<<a>>)
         \/ \E a, b : InAnyOrder(a, b)
  PROVE  RecordInv'
<1>1. PICK T : \E lines \in Seq(T) : Send(lines)
  <2>1. ASSUME NEW a, Send(<<a>>) PROVE \E T : \E lines \in Seq(T) : Send(lines)
    <3>1. <<a>> \in Seq({a})
      OBVIOUS
    <3>. QED BY <2>1, <3>1
  <2>2. ASSUME NEW a, NEW b, Send(<<a, b>>) PROVE \E T : \E lines \in Seq(T) : Send(lines)
    <3>1. <<a, b>> \in Seq({a, b})
      OBVIOUS
    <3>. QED BY <2>2, <3>1
  <2>. QED BY <2>1, <2>2 DEF InAnyOrder
<1>2. PICK lines \in Seq(T) : Send(lines)
  BY <1>1
<1>. QED BY <1>2, SendRecord

LEMMA ServeRecord ==
  ASSUME TInv, RecordInv, NEW k \in Calls, Serve(k)
  PROVE  RecordInv'
<1>1. CASE ServeTurn(k)
  <2>1. PICK t \in Threads, u \in Turns :
          BeginTurn(t, u) /\ AnswerAnd(k, t, u, Line("turn/started", {}, t, u))
    BY <1>1 DEF ServeTurn
  <2> DEFINE b == Line("turn/started", {}, t, u)
  <2>2. PICK a : Send(<<a, b>>) \/ Send(<<b, a>>)
    BY <2>1 DEF AnswerAnd, InAnyOrder
  <2> DEFINE T == {a, b}
  <2>3. ASSUME NEW lines \in Seq(T), Send(lines), NEW i \in 1..Len(lines), lines[i] = b
        PROVE  RecordInv'
    BY <2>1, <2>3, BeginRecord
  <2>. HIDE DEF b
  <2>4. /\ <<a, b>> \in Seq(T) /\ 2 \in 1..Len(<<a, b>>) /\ <<a, b>>[2] = b
        /\ <<b, a>> \in Seq(T) /\ 1 \in 1..Len(<<b, a>>) /\ <<b, a>>[1] = b
    OBVIOUS
  <2>. HIDE DEF T
  <2>. QED BY <2>2, <2>3, <2>4
<1>2. CASE ServeRollback(k)
  <2> DEFINE t == frame[k].thread
             cut == {u \in srv[t].turns :
                       Cardinality({v \in srv[t].turns : v >= u}) <= frame[k].numTurns}
             s == [srv[t] EXCEPT !.turns = @ \ cut]
  <2>1. /\ UNCHANGED companionVars /\ srv' = [srv EXCEPT ![t] = s]
        /\ \E a : Send(<<a>>)
    BY <1>2 DEF ServeRollback
  <2>2. \A v \in Threads : srv'[v].active = srv[v].active
    <3>1. s.active = srv[t].active \/ t \notin Threads
      <4>. HIDE DEF cut
      <4>. QED BY ServerFacts DEF SrvOf
    <3>. HIDE DEF s
    <3>. QED BY <2>1, <3>1, ServerFacts
  <2>. QED BY <2>1, <2>2, OtherRecord
<1>3. CASE ServeName(k) \/ ServeStart(k)
  <2>1. UNCHANGED <<companionVars, srv>> /\ \E a, b : InAnyOrder(a, b)
    BY <1>3 DEF ServeName, ServeStart, AnswerAnd, serverVars
  <2>. QED BY <2>1, OtherRecord
<1>4. CASE ServeError(k) \/ ServeThread(k) \/ ServeEmpty(k)
  <2>1. UNCHANGED <<companionVars, srv>> /\ \E a : Send(<<a>>)
    BY <1>4 DEF ServeError, ServeThread, ServeEmpty, serverVars
  <2>. QED BY <2>1, OtherRecord
<1>. QED BY <1>1, <1>2, <1>3, <1>4 DEF Serve

LEMMA TurnRecord ==
  ASSUME TInv, RecordInv, NEW t \in Threads, ServerTurn(t) \/ ServerTurnEnds(t)
  PROVE  RecordInv'
<1>1. CASE ServerTurn(t)
  <2>1. PICK u \in Turns : BeginTurn(t, u) /\ Send(<<Line("turn/started", {}, t, u)>>)
    BY <1>1 DEF ServerTurn
  <2> DEFINE b == Line("turn/started", {}, t, u)
             T == {b}
  <2>2. ASSUME NEW lines \in Seq(T), Send(lines), NEW i \in 1..Len(lines), lines[i] = b
        PROVE  RecordInv'
    BY <2>1, <2>2, BeginRecord
  <2>3. Send(<<b>>)
    BY <2>1
  <2>. HIDE DEF b
  <2>4. <<b>> \in Seq(T) /\ 1 \in 1..Len(<<b>>) /\ <<b>>[1] = b
    OBVIOUS
  <2>. HIDE DEF T
  <2>. QED BY <2>2, <2>3, <2>4
<1>2. CASE ServerTurnEnds(t)
  <2>1. /\ UNCHANGED companionVars /\ srv' = [srv EXCEPT ![t].active = 0]
        /\ (\E a : Send(<<a>>)) \/ (\E a, b : InAnyOrder(a, b))
    BY <1>2 DEF ServerTurnEnds, InAnyOrder
  <2>2. \A v \in Threads : srv'[v].active \in {0, srv[v].active}
    BY <2>1, ServerFacts DEF SrvOf
  <2>. QED BY <2>1, <2>2, OtherRecord
<1>. QED BY <1>1, <1>2

\* A call or a handler takes a step.
LEMMA OwnRecord ==
  ASSUME TInv, RecordInv, UNCHANGED <<stdout, srv>>, RecordKept, dropped \subseteq dropped'
  PROVE  RecordInv'
<1>1. \A t \in Threads : srv[t].active \in 0..MaxTurns
  BY ServerFacts DEF SrvOf
<1>2. ASSUME NEW t \in Threads, NEW u \in Turns, Accounted(t, u) PROVE Accounted(t, u)'
  <2>1. (Recorded(t, u) => Recorded(t, u)' \/ u \in dropped') /\ (OnItsWay(t, u) => OnItsWay(t, u)')
    BY <1>2 DEF RecordKept, OnItsWay, Started
  <2>. QED BY <1>2, <2>1 DEF Accounted
<1>3. \A t \in Threads : srv[t].active # 0 => srv[t].active \in Turns
  BY <1>1, ThreadAssumption DEF Turns
<1>. QED BY <1>2, <1>3 DEF RecordInv

LEMMA SameRecord ==
  ASSUME UNCHANGED <<heap, store>>
  PROVE  RecordKept
BY DEF RecordKept, Recorded

LEMMA CallRecord ==
  ASSUME TInv, RecordInv, NEW k \in Calls, NEW m \in Methods, NEW t \in Threads, call_rpc(k, m, t)
  PROVE  RecordInv'
<1>1. StateOK /\ heap \in [Refs -> Objects]
  BY DEF TInv, Shape, StateOK
<1>2. UNCHANGED <<store, stdout, srv, dropped>>
  BY DEF call_rpc, serverVars
<1>3. CASE heap' = [heap EXCEPT ![store[t]].meta = @ \cup {k}]
  <2> DEFINE S == {k}
  <2>1. S \in SUBSET Calls /\ heap' = [heap EXCEPT ![store[t]].meta = @ \cup S]
    BY <1>3
  <2>. HIDE DEF S
  <2>2. KeepsTurns
    BY <1>1, <2>1, FieldTurns
  <2>. QED BY <1>1, <1>2, <2>2, InPlaceRecord, OwnRecord
<1>4. CASE UNCHANGED heap
  BY <1>2, <1>4, SameRecord, OwnRecord
<1>. QED BY <1>3, <1>4 DEF call_rpc

LEMMA HandlerRecord ==
  ASSUME TInv, RecordInv, NEW k \in Calls, Handler(k)
  PROVE  RecordInv'
<1>1. StateOK /\ heap \in [Refs -> Objects]
  BY DEF TInv, Shape, StateOK
<1>2. UNCHANGED <<stdout, srv>>
  BY DEF Handler, readSettings, afterSettings, refresh, checkActiveTurn, handleAnswer,
         syncStoredThread, Synced, linkReview, elsewhere, serverVars
<1>3. ASSUME UNCHANGED <<heap, store, dropped>> PROVE RecordInv'
  BY <1>2, <1>3, SameRecord, OwnRecord
<1>4. ASSUME UNCHANGED <<store, dropped>>, KeepsTurns PROVE RecordInv'
  BY <1>1, <1>2, <1>4, InPlaceRecord, OwnRecord
<1> DEFINE f == frame[k]
           a == f.answer
           by == {k}
<1>5. /\ f.held \in Refs \cup {0} /\ 0 \in Refs \cup {0} /\ f.thread \in Threads
      /\ a.snap \in Snapshots /\ a.thread \in Threads /\ a.turn \in 0..MaxTurns
      /\ by \in SUBSET Calls
  BY <1>1, FrameFacts
<1>6. ASSUME NEW o \in Refs \cup {0}, NEW t \in Threads,
             NEW next \in {"refreshed", "imported", "done"}, Replace(a.snap, o, t, {k}, next)
      PROVE  RecordInv'
  <2>1. Replace(a.snap, o, t, by, next)
    BY <1>6
  <2>. HIDE DEF by, a
  <2>. QED BY <1>1, <1>2, <1>5, <2>1, ReplaceRecord, OwnRecord
<1>7. CASE readSettings(k) \/ checkActiveTurn(k)
  BY <1>3, <1>7 DEF readSettings, afterSettings, checkActiveTurn
<1>8. CASE refresh(k)
  <2>1. UNCHANGED <<heap, store, dropped>> \/ Replace(a.snap, f.held, f.thread, {k}, "refreshed")
    BY <1>8 DEF refresh
  <2>. QED BY <1>3, <1>5, <1>6, <2>1
<1>9. CASE handleAnswer(k)
  <2>1. stage[k] = "answered" /\ stage[k] \in Running
    BY <1>9 DEF handleAnswer, Running, Stages
  <2>2. CASE UNCHANGED <<heap, store, dropped>>
    BY <1>3, <2>2
  <2>3. CASE f.method = "send_user_message" /\ setActiveTurn(f.held, a.turn)
             /\ UNCHANGED <<store, dropped>>
    <3>1. f.held \in Refs
      BY <2>1, <2>3, HeldFacts
    <3>2. KeepsTurns
      BY <1>1, <1>5, <2>3, <3>1, SetActiveTurns
    <3>. QED BY <1>4, <2>3, <3>2
  <2>4. CASE UNCHANGED <<store, dropped>> /\ heap' = [heap EXCEPT ![f.held].meta = @ \cup {k}]
    <3>1. heap' = [heap EXCEPT ![f.held].meta = @ \cup by]
      BY <2>4
    <3>. HIDE DEF by
    <3>2. KeepsTurns
      BY <1>1, <1>5, <3>1, FieldTurns
    <3>. QED BY <1>4, <2>4, <3>2
  <2>5. CASE Replace(a.snap, f.held, a.thread, {k}, "done")
    BY <1>5, <1>6, <2>5
  <2>. QED BY <1>9, <2>2, <2>3, <2>4, <2>5 DEF handleAnswer, onResult
<1>10. CASE syncStoredThread(k)
  <2>1. UNCHANGED <<heap, store, dropped>> \/ Replace(a.snap, 0, a.thread, {k}, "imported")
    BY <1>10 DEF syncStoredThread, Synced
  <2>. QED BY <1>3, <1>5, <1>6, <2>1
<1>11. CASE linkReview(k)
  <2>1. UNCHANGED <<store, dropped>> /\ heap' = [heap EXCEPT ![f.held].parent = {f.thread}]
    BY <1>11 DEF linkReview
  <2>2. KeepsTurns
    BY <1>1, <1>5, <2>1, FieldTurns
  <2>. QED BY <1>4, <2>1, <2>2
<1>. QED BY <1>7, <1>8, <1>9, <1>10, <1>11 DEF Handler

\* A notification: a turn that begins is put on the record of its thread, if it has one.
LEMMA NoticeRecord ==
  ASSUME TInv, NEW line \in Lines, applyNotification(line), line.kind \notin Replies
  PROVE  /\ RecordKept /\ dropped \subseteq dropped'
         /\ \A t \in Threads : \A u \in Turns :
              Started(line, t) /\ line.turn = u => Recorded(t, u)' \/ u \in dropped'
<1>1. /\ StateOK /\ heap \in [Refs -> Objects] /\ store \in [Threads -> Refs \cup {0}]
  BY DEF TInv, Shape, StateOK
<1>2. /\ line.thread \in Threads /\ line.turn \in 0..MaxTurns /\ line.call \in SUBSET Calls
      /\ line.kind \in LineKinds /\ line.snap \in Snapshots
  BY DEF Lines
<1> DEFINE o == store[line.thread]
<1>3. CASE line.kind = "thread/started"
  <2> DEFINE by == {}
  <2>1. by \in SUBSET Calls /\ Replace(line.snap, o, line.thread, by, "done")
    BY <1>3 DEF applyNotification, notified, changesObject
  <2>2. ~\E t \in Threads : Started(line, t)
    BY <1>3 DEF Started
  <2>3. o \in Refs \cup {0}
    BY <1>1, <1>2
  <2>. HIDE DEF by, o
  <2>. QED BY <1>1, <1>2, <2>1, <2>2, <2>3, ReplaceRecord
<1>4. CASE line.kind # "thread/started"
  <2>1. /\ UNCHANGED store
        /\ IF o = 0 THEN UNCHANGED heap
           ELSE changesObject(line, o, setActiveTurn(o, line.turn))
        /\ dropped' = IF o = 0 /\ line.kind = "turn/started" THEN dropped \cup {line.turn}
                                                             ELSE dropped
    BY <1>4 DEF applyNotification, notified
  <2>2. CASE o = 0
    BY <2>1, <2>2, SameRecord DEF Started
  <2>3. CASE o # 0
    <3>1. o \in Refs /\ heap[o].active \in 0..MaxTurns /\ dropped' = dropped
      BY <1>1, <1>2, <2>1, <2>3 DEF Objects
    <3>2. CASE line.kind = "turn/started"
      <4>1. setActiveTurn(o, line.turn)
        BY <2>1, <2>3, <3>2 DEF changesObject
      <4>2. KeepsTurns /\ (line.turn \in Turns => heap'[o].turns[line.turn] # "none")
        BY <1>1, <1>2, <3>1, <4>1, SetActiveTurns
      <4>. QED BY <1>1, <2>1, <2>3, <3>1, <4>2, InPlaceRecord DEF Started, Recorded
    <3>3. CASE line.kind # "turn/started"
      <4>1. KeepsTurns
        <5>1. CASE clearStoredActiveTurn(o, line.turn) \/ clearStoredActiveTurn(o, heap[o].active)
          BY <1>1, <1>2, <3>1, <5>1, ClearTurns
        <5>2. CASE heap' = [heap EXCEPT ![o].active = 0]
          BY <1>1, <5>2, FieldTurns
        <5>3. CASE heap' = [heap EXCEPT ![o].meta = @ \cup line.call]
          BY <1>1, <1>2, <5>3, FieldTurns
        <5>. QED BY <2>1, <2>3, <3>3, <5>1, <5>2, <5>3 DEF changesObject
      <4>. QED BY <1>1, <2>1, <3>1, <3>3, <4>1, InPlaceRecord DEF Started
    <3>. QED BY <3>2, <3>3
  <2>. QED BY <2>2, <2>3
<1>. QED BY <1>3, <1>4

LEMMA LineRecord ==
  ASSUME TInv, RecordInv, handleLine
  PROVE  RecordInv'
<1> DEFINE line == stdout[1]
<1>1. stdout # <<>> /\ stdout' = Tail(stdout) /\ UNCHANGED srv
  BY DEF handleLine, serverVars
<1>2. /\ 1 \in 1..Len(stdout) /\ Head(stdout) = line /\ line \in Lines
      /\ \A n \in 1..Len(stdout) :
           n = 1 \/ (n - 1 \in 1..Len(stdout') /\ stdout'[n - 1] = stdout[n])
  <2>1. stdout \in Seq(Lines)
    BY DEF TInv, Shape, StateOK
  <2>2. /\ \A n \in 1..Len(stdout') : stdout'[n] = stdout[n + 1]
        /\ Len(stdout') = Len(stdout) - 1 /\ Len(stdout) \in Nat
    BY <1>1, <2>1, StdoutFacts, TakenFacts
  <2>. QED BY <1>1, <2>1, <2>2, StdoutFacts
<1>. HIDE DEF line
<1>3. ASSUME NEW t, NEW u, OnItsWay(t, u)
      PROVE  OnItsWay(t, u)' \/ (Started(line, t) /\ line.turn = u)
  <2>1. PICK n \in 1..Len(stdout) : Started(stdout[n], t) /\ stdout[n].turn = u
    BY <1>3 DEF OnItsWay
  <2>2. CASE n = 1
    BY <2>1, <2>2 DEF line
  <2>3. CASE n # 1
    BY <1>2, <2>1, <2>3 DEF OnItsWay, Started
  <2>. QED BY <2>2, <2>3
<1>4. /\ RecordKept /\ dropped \subseteq dropped'
      /\ \A t \in Threads : \A u \in Turns :
           Started(line, t) /\ line.turn = u => Recorded(t, u)' \/ u \in dropped'
  <2>1. CASE line.kind \in Replies
    <3>1. UNCHANGED <<heap, store, dropped>>
      BY <1>2, <2>1 DEF handleLine, Replies
    <3>. QED BY <2>1, <3>1, SameRecord DEF Started, Replies
  <2>2. CASE line.kind \notin Replies
    <3>1. applyNotification(line)
      BY <1>2, <2>2 DEF handleLine, Replies
    <3>. QED BY <1>2, <2>2, <3>1, NoticeRecord
  <2>. QED BY <2>1, <2>2
<1>5. ASSUME NEW t \in Threads, NEW u \in Turns, Accounted(t, u) PROVE Accounted(t, u)'
  BY <1>3, <1>4, <1>5 DEF Accounted, RecordKept
<1>6. \A t \in Threads : srv[t].active # 0 => srv[t].active \in Turns
  BY ServerFacts, ThreadAssumption DEF SrvOf, Turns
<1>. QED BY <1>1, <1>5, <1>6 DEF RecordInv

\* With nothing on its way, the active turn of a thread in the map is on the thread's
\* record, but for one that was dropped.
THEOREM TurnsOnRecord == Spec => []ActiveTurnOnRecord
<1>1. Init => RecordInv
  <2>. SUFFICES ASSUME Init PROVE \A t \in Threads : srv[t].active = 0
    BY DEF RecordInv
  <2>. QED BY DEF Init
<1>2. TInv /\ RecordInv /\ [Next]_vars => RecordInv'
  <2>. SUFFICES ASSUME TInv, RecordInv, [Next]_vars PROVE RecordInv'
    OBVIOUS
  <2>1. CASE UNCHANGED vars
    BY <2>1, SameRecord, OwnRecord DEF vars, serverVars
  <2>. QED BY <2>1, ServeRecord, TurnRecord, CallRecord, HandlerRecord, LineRecord
           DEF Next, Companion, AppServer
<1>3. TInv /\ RecordInv => ActiveTurnOnRecord
  <2>. SUFFICES ASSUME TInv, RecordInv, stdout = <<>>, NEW t \in Threads, store[t] # 0,
                       srv[t].active # 0, srv[t].active \notin dropped
                PROVE  Current(t).turns[srv[t].active] # "none"
    BY DEF ActiveTurnOnRecord
  <2>1. ~OnItsWay(t, srv[t].active)
    BY DEF OnItsWay
  <2>. QED BY <2>1 DEF RecordInv, Accounted, Recorded, Current
<1>. QED BY ThreadInvariant, <1>1, <1>2, <1>3, PTL DEF Spec

===============================================================================

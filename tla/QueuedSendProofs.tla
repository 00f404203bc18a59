---------------------------- MODULE QueuedSendProofs ----------------------------
(***************************************************************************)
(* Theorems about QueuedSend, for any threads, commands and number of      *)
(* messages.                                                               *)
(*                                                                         *)
(* The strengthening: the queue of a thread holds, once each, exactly the  *)
(* messages of the thread that wait (QueuesInv); a request goes to the     *)
(* thread of its message (SentTo), so an answer that queues the message    *)
(* again finds the right queue; and what was accepted never gets back to a *)
(* stage from which it is sent, but once, to start a turn, after a steer   *)
(* whose answer was lost (RanInv).                                         *)
(***************************************************************************)
EXTENDS QueuedSend, SequenceTheorems, FiniteSetTheorems, TLAPS

Stages == {"new", "queued", "command"} \cup Sending \cup Ended

Holds(q, m) == \E i \in 1..Len(q) : q[i] = m
Distinct(q) == \A i, j \in 1..Len(q) : q[i] = q[j] => i = j

Untyped == \A m \in Msgs : m > typed => at[m] = "new" /\ to[m] = 0

QueuesInv ==
  \A t \in Threads :
    /\ Distinct(queue[t])
    /\ \A m \in Msgs : Holds(queue[t], m) <=> at[m] = "queued" /\ threadOf[m] = t

SentTo ==
  \A m \in Msgs :
    at[m] \in Sending \ {"ensuring"} => to[m] = threadOf[m]

\* It is not sent again from here.
Past == {"accepted", "rejected", "steered", "ran", "refused"}

\* What was accepted is past being sent.  If the page does not know that a steer was
\* accepted, the message may still start a turn, but not be steered again.
Counted(m) ==
  IF m \in lost
  THEN /\ at[m] \notin {"new", "steering", "steered", "stale"}
       /\ at[m] = "ensuring" => target[m] = 0
       /\ ran[m] = 1 \/ (ran[m] = 2 /\ at[m] \in Past)
  ELSE ran[m] = 0 \/ (ran[m] = 1 /\ at[m] \in Past)

RanInv == \A m \in Msgs : Counted(m)

Core == Untyped /\ QueuesInv /\ SentTo /\ OwnThread /\ RanInv
QInv == TypeOK /\ Core

coreVars == <<queue, at, threadOf, typed, to, ran, lost, target>>

-------------------------------------------------------------------------------
LEMMA TurnFacts ==
  /\ 0 \in Turns /\ Msgs \subseteq Turns /\ Turns \subseteq Nat
  /\ \A m \in Msgs : m \in Nat \ {0}
BY QueuedSendAssumption DEF Turns, Msgs

\* What the queues gain and lose.

LEMMA AppendFacts ==
  ASSUME NEW T, NEW q \in Seq(T), NEW m \in T, ~Holds(q, m), Distinct(q)
  PROVE  /\ Append(q, m) \in Seq(T) /\ Distinct(Append(q, m))
         /\ \A n \in T : Holds(Append(q, m), n) <=> Holds(q, n) \/ n = m
<1> DEFINE r == Append(q, m)
<1>1. /\ r \in Seq(T) /\ Len(q) \in Nat /\ Len(r) = Len(q) + 1
      /\ \A i \in 1..Len(q) : r[i] = q[i]
      /\ r[Len(q) + 1] = m
  BY AppendProperties
<1>. HIDE DEF r
<1>. QED BY <1>1 DEF Holds, Distinct

LEMMA PrependFacts ==
  ASSUME NEW T, NEW q \in Seq(T), NEW m \in T, ~Holds(q, m), Distinct(q)
  PROVE  /\ <<m>> \o q \in Seq(T) /\ Distinct(<<m>> \o q)
         /\ \A n \in T : Holds(<<m>> \o q, n) <=> Holds(q, n) \/ n = m
<1> DEFINE r == <<m>> \o q
<1>1. <<m>> \in Seq(T) /\ Len(<<m>>) = 1 /\ <<m>>[1] = m /\ Len(q) \in Nat
  OBVIOUS
<1>2. /\ r \in Seq(T) /\ Len(r) = Len(q) + 1
      /\ \A i \in 1..Len(r) : r[i] = IF i <= 1 THEN <<m>>[i] ELSE q[i - 1]
  BY <1>1, ConcatProperties
<1>. HIDE DEF r
<1>3. r[1] = m /\ \A i \in 1..Len(q) : r[i + 1] = q[i]
  BY <1>1, <1>2
<1>4. \A i \in 1..Len(r) : i = 1 \/ (i - 1 \in 1..Len(q) /\ r[i] = q[i - 1])
  BY <1>1, <1>2
<1>5. Distinct(r)
  <2>1. ASSUME NEW i \in 1..Len(r), NEW j \in 1..Len(r), r[i] = r[j], i # 1
        PROVE  i = j
    <3>1. i - 1 \in 1..Len(q) /\ r[i] = q[i - 1] /\ r[i] # m
      BY <1>4, <2>1 DEF Holds
    <3>2. j # 1
      BY <1>3, <2>1, <3>1
    <3>3. j - 1 \in 1..Len(q) /\ r[j] = q[j - 1]
      BY <1>4, <3>2
    <3>4. i - 1 = j - 1
      BY <2>1, <3>1, <3>3 DEF Distinct
    <3>. QED BY <3>4
  <2>2. ASSUME NEW i \in 1..Len(r), NEW j \in 1..Len(r), r[i] = r[j]
        PROVE  i = j
    BY <2>1, <2>2
  <2>. QED BY <2>2 DEF Distinct
<1>6. ASSUME NEW n \in T
      PROVE  Holds(r, n) <=> Holds(q, n) \/ n = m
  <2>1. Holds(q, n) => Holds(r, n)
    <3>1. ASSUME NEW i \in 1..Len(q), q[i] = n PROVE Holds(r, n)
      <4>1. i + 1 \in 1..Len(r)
        BY <1>1, <1>2
      <4>. QED BY <1>3, <3>1, <4>1 DEF Holds
    <3>. QED BY <3>1 DEF Holds
  <2>2. Holds(r, m)
    BY <1>1, <1>2, <1>3 DEF Holds
  <2>3. Holds(r, n) => Holds(q, n) \/ n = m
    BY <1>3, <1>4 DEF Holds
  <2>. QED BY <2>1, <2>2, <2>3
<1>. QED BY <1>2, <1>5, <1>6 DEF r

LEMMA WithoutFacts ==
  ASSUME NEW T, NEW q \in Seq(T), Distinct(q), NEW i \in 1..Len(q)
  PROVE  /\ without(q, i) \in Seq(T) /\ Distinct(without(q, i))
         /\ \A n \in T : Holds(without(q, i), n) <=> Holds(q, n) /\ n # q[i]
<1> DEFINE r == without(q, i)
           a == SubSeq(q, 1, i - 1)
           b == SubSeq(q, i + 1, Len(q))
<1>1. /\ Len(q) \in Nat /\ i \in Int /\ 1 <= i /\ i <= Len(q)
      /\ \A j \in 1..Len(q) : q[j] \in T
  OBVIOUS
<1>2. a \in Seq(T) /\ Len(a) = i - 1 /\ \A j \in 1..(i - 1) : a[j] = q[j]
  <2>1. 1 \in Int /\ i - 1 \in Int /\ i - 1 - 1 + 1 = i - 1 /\ \A j \in 1..(i - 1) : q[j] \in T
    BY <1>1
  <2>2. /\ a \in Seq(T) /\ Len(a) = IF 1 <= i - 1 THEN i - 1 - 1 + 1 ELSE 0
        /\ \A j \in 1..(i - 1 - 1 + 1) : a[j] = q[1 + j - 1]
    BY <2>1, SubSeqProperties
  <2>. QED BY <1>1, <2>1, <2>2
<1>3. /\ b \in Seq(T) /\ Len(b) = Len(q) - i
      /\ \A j \in 1..(Len(q) - i) : b[j] = q[j + i]
  <2>1. /\ i + 1 \in Int /\ Len(q) \in Int /\ Len(q) - (i + 1) + 1 = Len(q) - i
        /\ \A j \in (i + 1)..Len(q) : q[j] \in T
    BY <1>1
  <2>2. /\ b \in Seq(T) /\ Len(b) = IF i + 1 <= Len(q) THEN Len(q) - (i + 1) + 1 ELSE 0
        /\ \A j \in 1..(Len(q) - (i + 1) + 1) : b[j] = q[(i + 1) + j - 1]
    BY <2>1, SubSeqProperties
  <2>. HIDE DEF b
  <2>3. ASSUME NEW j \in 1..(Len(q) - i) PROVE b[j] = q[j + i]
    <3>1. (i + 1) + j - 1 = j + i /\ j \in 1..(Len(q) - (i + 1) + 1)
      BY <1>1
    <3>. QED BY <2>2, <3>1
  <2>4. Len(b) = Len(q) - i
    BY <1>1, <2>2
  <2>. QED BY <2>2, <2>3, <2>4
<1>4. /\ r \in Seq(T) /\ Len(r) = Len(q) - 1
      /\ \A j \in 1..Len(r) : r[j] = IF j <= i - 1 THEN a[j] ELSE b[j - (i - 1)]
  <2>1. r = a \o b
    BY DEF without, a, b
  <2>. HIDE DEF a, b
  <2>2. /\ a \o b \in Seq(T) /\ Len(a \o b) = Len(a) + Len(b)
        /\ \A j \in 1..(Len(a) + Len(b)) :
             (a \o b)[j] = IF j <= Len(a) THEN a[j] ELSE b[j - Len(a)]
    BY <1>2, <1>3, ConcatProperties
  <2>3. /\ r \in Seq(T) /\ Len(r) = Len(a) + Len(b)
        /\ \A j \in 1..(Len(a) + Len(b)) : r[j] = IF j <= Len(a) THEN a[j] ELSE b[j - Len(a)]
    BY <2>1, <2>2, Zenon
  <2>. QED BY <1>1, <1>2, <1>3, <2>3
<1>. HIDE DEF a, b, r
<1> DEFINE from(j) == IF j < i THEN j ELSE j + 1
<1>5. \A j \in 1..Len(r) : from(j) \in 1..Len(q) /\ from(j) # i /\ r[j] = q[from(j)]
  <2>1. ASSUME NEW j \in 1..Len(r), j < i
        PROVE  j \in 1..Len(q) /\ r[j] = q[j]
    BY <1>1, <1>2, <1>4, <2>1
  <2>2. ASSUME NEW j \in 1..Len(r), j >= i
        PROVE  j + 1 \in 1..Len(q) /\ r[j] = q[j + 1]
    <3>1. r[j] = b[j - (i - 1)] /\ j - (i - 1) \in 1..(Len(q) - i)
      BY <1>1, <1>4, <2>2
    <3>2. j - (i - 1) + i = j + 1
      BY <1>1, <2>2
    <3>. QED BY <1>1, <1>3, <1>4, <2>2, <3>1, <3>2
  <2>. QED BY <1>1, <1>4, <2>1, <2>2
<1>6. \A k \in 1..Len(q) : k # i => \E j \in 1..Len(r) : from(j) = k
  <2>1. ASSUME NEW k \in 1..Len(q), k < i PROVE k \in 1..Len(r) /\ from(k) = k
    BY <1>1, <1>4, <2>1
  <2>2. ASSUME NEW k \in 1..Len(q), k > i PROVE k - 1 \in 1..Len(r) /\ from(k - 1) = k
    BY <1>1, <1>4, <2>2
  <2>. QED BY <1>1, <2>1, <2>2
<1>7. \A j, k \in 1..Len(r) : from(j) = from(k) => j = k
  BY <1>1
<1>. HIDE DEF from
<1>8. Distinct(r)
  BY <1>5, <1>7 DEF Distinct
<1>9. ASSUME NEW n \in T
      PROVE  Holds(r, n) <=> Holds(q, n) /\ n # q[i]
  <2>1. Holds(r, n) => Holds(q, n) /\ n # q[i]
    BY <1>1, <1>5 DEF Holds, Distinct
  <2>2. Holds(q, n) /\ n # q[i] => Holds(r, n)
    <3>1. ASSUME NEW k \in 1..Len(q), q[k] = n, n # q[i] PROVE Holds(r, n)
      <4>1. k # i
        BY <3>1
      <4>2. PICK j \in 1..Len(r) : from(j) = k
        BY <1>6, <4>1
      <4>3. r[j] = q[k]
        BY <1>5, <4>2
      <4>. QED BY <3>1, <4>3 DEF Holds
    <3>. QED BY <3>1 DEF Holds
  <2>. QED BY <2>1, <2>2
<1>. QED BY <1>4, <1>8, <1>9 DEF r

LEMMA TailFacts ==
  ASSUME NEW T, NEW q \in Seq(T), Distinct(q), q # <<>>
  PROVE  /\ Head(q) \in T /\ Holds(q, Head(q))
         /\ Tail(q) \in Seq(T) /\ Distinct(Tail(q))
         /\ \A n \in T : Holds(Tail(q), n) <=> Holds(q, n) /\ n # Head(q)
<1> DEFINE r == Tail(q)
<1>1. /\ Len(q) \in Nat /\ 1 \in 1..Len(q) /\ Head(q) = q[1] /\ q[1] \in T
      /\ r \in Seq(T) /\ Len(r) = Len(q) - 1
      /\ \A j \in 1..Len(r) : r[j] = q[j + 1] /\ j + 1 \in 1..Len(q)
  <2>1. Len(q) \in Nat /\ Len(q) >= 1 /\ Head(q) = q[1] /\ Head(q) \in T
    OBVIOUS
  <2>2. r \in Seq(T) /\ Len(r) = Len(q) - 1 /\ \A j \in 1..Len(r) : r[j] = q[j + 1]
    BY HeadTailProperties
  <2>. QED BY <2>1, <2>2
<1>. HIDE DEF r
<1>2. \A k \in 1..Len(q) : k # 1 => k - 1 \in 1..Len(r) /\ r[k - 1] = q[k]
  BY <1>1
<1>3. Distinct(r)
  <2>1. ASSUME NEW j \in 1..Len(r), NEW k \in 1..Len(r), r[j] = r[k]
        PROVE  j = k
    <3>1. j + 1 = k + 1
      BY <1>1, <2>1 DEF Distinct
    <3>. QED BY <3>1
  <2>. QED BY <2>1 DEF Distinct
<1>4. ASSUME NEW n \in T
      PROVE  Holds(r, n) <=> Holds(q, n) /\ n # q[1]
  <2>1. Holds(r, n) => Holds(q, n)
    BY <1>1 DEF Holds
  <2>2. ~Holds(r, q[1])
    <3>1. ASSUME NEW j \in 1..Len(r), r[j] = q[1] PROVE FALSE
      <4>1. j + 1 = 1
        BY <1>1, <3>1 DEF Distinct
      <4>. QED BY <4>1
    <3>. QED BY <3>1 DEF Holds
  <2>3. Holds(q, n) /\ n # q[1] => Holds(r, n)
    BY <1>2 DEF Holds
  <2>. QED BY <2>1, <2>2, <2>3
<1>5. Holds(q, Head(q))
  BY <1>1 DEF Holds
<1>. QED BY <1>1, <1>3, <1>4, <1>5 DEF r

-------------------------------------------------------------------------------
\* The positions of a queue are no more than there are messages.

LEMMA PositionsBounded ==
  ASSUME NEW q \in Seq(Msgs), Distinct(q)
  PROVE  \A i \in 1..Len(q) : i \in Msgs
<1>1. Len(q) \in Nat /\ q \in [1..Len(q) -> Msgs]
  OBVIOUS
<1>2. q \in Injection(1..Len(q), Msgs)
  BY <1>1 DEF Distinct, Injection, IsInjective
<1>3. /\ IsFiniteSet(1..Len(q)) /\ Cardinality(1..Len(q)) = Len(q)
      /\ IsFiniteSet(Msgs) /\ Cardinality(Msgs) = MaxMsgs
  <2>1. /\ IsFiniteSet(1..Len(q)) /\ Cardinality(1..Len(q)) = IF 1 > Len(q) THEN 0 ELSE Len(q) - 1 + 1
        /\ IsFiniteSet(1..MaxMsgs)
        /\ Cardinality(1..MaxMsgs) = IF 1 > MaxMsgs THEN 0 ELSE MaxMsgs - 1 + 1
    <3>1. 1 \in Int /\ Len(q) \in Int /\ MaxMsgs \in Int
      BY <1>1, QueuedSendAssumption
    <3>. QED BY <3>1, FS_Interval
  <2>. QED BY <1>1, <2>1, QueuedSendAssumption DEF Msgs
<1>4. Len(q) <= MaxMsgs
  BY <1>2, <1>3, FS_Injection
<1>. QED BY <1>1, <1>4, QueuedSendAssumption DEF Msgs

\* One copy in the right queue, or none
LEMMA ConservedIfQueues ==
  ASSUME QInv
  PROVE  Conserved
<1> SUFFICES ASSUME NEW m \in Msgs
             PROVE  LET copies == {p \in Threads \X Msgs :
                                     p[2] \in DOMAIN queue[p[1]] /\ queue[p[1]][p[2]] = m}
                    IN IF at[m] = "queued"
                       THEN \E i \in Msgs : copies = {<<threadOf[m], i>>}
                       ELSE copies = {}
  BY DEF Conserved
<1> DEFINE copies == {p \in Threads \X Msgs :
                        p[2] \in DOMAIN queue[p[1]] /\ queue[p[1]][p[2]] = m}
<1>1. \A t \in Threads : queue[t] \in Seq(Msgs) /\ DOMAIN queue[t] = 1..Len(queue[t])
  BY DEF QInv, TypeOK
<1>2. \A p \in copies : /\ p = <<p[1], p[2]>> /\ p[1] \in Threads
                        /\ p[2] \in 1..Len(queue[p[1]]) /\ queue[p[1]][p[2]] = m
  BY <1>1
<1>3. \A p \in copies : at[m] = "queued" /\ threadOf[m] = p[1]
  BY <1>2 DEF Holds, QInv, Core, QueuesInv
<1>4. CASE at[m] = "queued"
  <2>1. threadOf[m] \in Threads /\ Holds(queue[threadOf[m]], m) /\ Distinct(queue[threadOf[m]])
    BY <1>4 DEF QInv, Core, TypeOK, QueuesInv
  <2>2. PICK i \in 1..Len(queue[threadOf[m]]) : queue[threadOf[m]][i] = m
    BY <2>1 DEF Holds
  <2>3. i \in Msgs
    BY <1>1, <2>1, PositionsBounded
  <2>4. <<threadOf[m], i>> \in copies
    BY <1>1, <2>1, <2>2, <2>3
  <2>5. \A p \in copies : p[1] = threadOf[m] /\ p[2] = i
    BY <1>2, <1>3, <2>1, <2>2 DEF Distinct
  <2>6. \A p \in copies : p = <<threadOf[m], i>>
    BY <1>2, <2>5
  <2>7. copies = {<<threadOf[m], i>>}
    BY <2>4, <2>6
  <2>. QED BY <1>4, <2>3, <2>7
<1>5. CASE at[m] # "queued"
  BY <1>3, <1>5
<1>. QED BY <1>4, <1>5

-------------------------------------------------------------------------------
\* Steps of a message.

\* One that waits in no queue goes on to a stage in which it waits in none either.
LEMMA QueuesKept ==
  ASSUME TypeOK, QueuesInv, NEW m \in Msgs, NEW s \in Stages \ {"queued"}, at[m] # "queued",
         at' = [at EXCEPT ![m] = s], UNCHANGED <<queue, threadOf>>
  PROVE  QueuesInv'
BY DEF TypeOK, QueuesInv

\* It is queued, at either end.
LEMMA QueuesGain ==
  ASSUME TypeOK, QueuesInv, NEW m \in Msgs, at[m] # "queued", at' = [at EXCEPT ![m] = "queued"],
         threadOf' \in [Msgs -> Threads], \A n \in Msgs \ {m} : threadOf'[n] = threadOf[n],
         NEW t \in Threads, t = threadOf'[m],
         queue' = [queue EXCEPT ![t] = Append(@, m)] \/ queue' = [queue EXCEPT ![t] = <<m>> \o @]
  PROVE  QueuesInv' /\ queue' \in [Threads -> Seq(Msgs)]
<1>1. queue[t] \in Seq(Msgs) /\ Distinct(queue[t]) /\ ~Holds(queue[t], m)
  BY DEF TypeOK, QueuesInv
<1>2. PICK r : /\ queue' = [queue EXCEPT ![t] = r]
               /\ r = Append(queue[t], m) \/ r = <<m>> \o queue[t]
  OBVIOUS
<1>3. /\ r \in Seq(Msgs) /\ Distinct(r)
      /\ \A n \in Msgs : Holds(r, n) <=> Holds(queue[t], n) \/ n = m
  <2>1. CASE r = Append(queue[t], m)
    BY <1>1, <2>1, AppendFacts
  <2>2. CASE r = <<m>> \o queue[t]
    BY <1>1, <2>2, PrependFacts
  <2>. QED BY <1>2, <2>1, <2>2
<1>4. queue' \in [Threads -> Seq(Msgs)] /\ queue'[t] = r
      /\ \A u \in Threads \ {t} : queue'[u] = queue[u]
  BY <1>2, <1>3 DEF TypeOK
<1>5. at'[m] = "queued" /\ \A n \in Msgs \ {m} : at'[n] = at[n]
  BY DEF TypeOK
<1>6. ASSUME NEW u \in Threads
      PROVE  /\ Distinct(queue'[u])
             /\ \A n \in Msgs : Holds(queue'[u], n) <=> at'[n] = "queued" /\ threadOf'[n] = u
  <2>1. CASE u = t
    <3>1. ASSUME NEW n \in Msgs, n # m
          PROVE  Holds(r, n) <=> at'[n] = "queued" /\ threadOf'[n] = t
      <4>1. Holds(queue[t], n) <=> at[n] = "queued" /\ threadOf[n] = t
        BY DEF QueuesInv
      <4>2. at'[n] = at[n] /\ threadOf'[n] = threadOf[n]
        BY <1>5, <3>1
      <4>. QED BY <1>3, <3>1, <4>1, <4>2
    <3>2. Holds(r, m) /\ at'[m] = "queued" /\ threadOf'[m] = t
      BY <1>3, <1>5
    <3>. QED BY <1>3, <1>4, <2>1, <3>1, <3>2
  <2>2. CASE u # t
    <3>1. Distinct(queue'[u])
      BY <1>4, <2>2 DEF QueuesInv
    <3>2. \A n \in Msgs \ {m} : Holds(queue'[u], n) <=> at'[n] = "queued" /\ threadOf'[n] = u
      <4>1. ASSUME NEW n \in Msgs, n # m
            PROVE  Holds(queue'[u], n) <=> at'[n] = "queued" /\ threadOf'[n] = u
        <5>1. Holds(queue[u], n) <=> at[n] = "queued" /\ threadOf[n] = u
          BY DEF QueuesInv
        <5>2. at'[n] = at[n] /\ threadOf'[n] = threadOf[n] /\ queue'[u] = queue[u]
          BY <1>4, <1>5, <2>2, <4>1
        <5>. QED BY <5>1, <5>2
      <4>. QED BY <4>1
    <3>3. ~Holds(queue'[u], m) /\ threadOf'[m] # u
      BY <1>4, <2>2 DEF QueuesInv
    <3>. QED BY <3>1, <3>2, <3>3
  <2>. QED BY <2>1, <2>2
<1>. QED BY <1>4, <1>6 DEF QueuesInv

\* It leaves the queue of its thread.
LEMMA QueuesLose ==
  ASSUME TypeOK, QueuesInv, NEW m \in Msgs, NEW s \in Stages \ {"queued"},
         at' = [at EXCEPT ![m] = s], UNCHANGED threadOf,
         NEW t \in Threads, Holds(queue[t], m),
         NEW r \in Seq(Msgs), Distinct(r), \A n \in Msgs : Holds(r, n) <=> Holds(queue[t], n) /\ n # m,
         queue' = [queue EXCEPT ![t] = r]
  PROVE  QueuesInv' /\ queue' \in [Threads -> Seq(Msgs)]
<1>1. queue' \in [Threads -> Seq(Msgs)] /\ queue'[t] = r
      /\ \A u \in Threads \ {t} : queue'[u] = queue[u]
  BY DEF TypeOK
<1>2. at'[m] # "queued" /\ \A n \in Msgs \ {m} : at'[n] = at[n]
  BY DEF TypeOK
<1>3. threadOf[m] = t
  BY DEF QueuesInv
<1>4. ASSUME NEW u \in Threads
      PROVE  /\ Distinct(queue'[u])
             /\ \A n \in Msgs : Holds(queue'[u], n) <=> at'[n] = "queued" /\ threadOf'[n] = u
  <2>1. CASE u = t
    BY <1>1, <1>2, <2>1 DEF QueuesInv
  <2>2. CASE u # t
    BY <1>1, <1>2, <1>3, <2>2 DEF QueuesInv
  <2>. QED BY <2>1, <2>2
<1>. QED BY <1>1, <1>4 DEF QueuesInv

\* A step of a message does not change how often the others were accepted.
LEMMA OthersCounted ==
  ASSUME RanInv, NEW m \in Msgs, Counted(m)', lost' = lost \/ lost' = lost \cup {m},
         \A n \in Msgs \ {m} : at'[n] = at[n] /\ ran'[n] = ran[n] /\ target'[n] = target[n]
  PROVE  RanInv'
<1>1. ASSUME NEW n \in Msgs \ {m} PROVE Counted(n)'
  BY <1>1 DEF RanInv, Counted
<1>. QED BY <1>1 DEF RanInv

\* Nothing but the stage of a message that waits in no queue changes.
LEMMA StageKeeps ==
  ASSUME QInv, NEW m \in Msgs, NEW s \in Stages \ {"new", "queued"},
         at[m] \notin {"new", "queued"}, at' = [at EXCEPT ![m] = s],
         UNCHANGED <<queue, threadOf, typed>>,
         to' = to \/ to' = [to EXCEPT ![m] = threadOf[m]],
         s \in Sending \ {"ensuring"} => to'[m] = threadOf[m],
         ran' = ran \/ ran' = [ran EXCEPT ![m] = @ + 1],
         lost' = lost \/ lost' = lost \cup {m}, target' = target, Counted(m)'
  PROVE  Core' /\ at' \in [Msgs -> Stages] /\ to' \in [Msgs -> Threads \cup {0}]
         /\ ran' \in [Msgs -> Nat]
<1>1. QueuesInv'
  BY QueuesKept DEF QInv, Core
<1>2. /\ at' \in [Msgs -> Stages] /\ to' \in [Msgs -> Threads \cup {0}]
      /\ at'[m] = s /\ \A n \in Msgs \ {m} : at'[n] = at[n] /\ to'[n] = to[n]
      /\ to'[m] \in {to[m], threadOf[m]}
  BY DEF QInv, TypeOK, Stages
<1>3. m <= typed
  BY DEF QInv, Core, Untyped, TypeOK, Turns, Msgs
<1>4. Untyped' /\ SentTo' /\ OwnThread'
  BY <1>2, <1>3 DEF QInv, Core, Untyped, SentTo, OwnThread, TypeOK, Turns, Msgs
<1>5. ran' \in [Msgs -> Nat] /\ \A n \in Msgs \ {m} : ran'[n] = ran[n]
  BY DEF QInv, TypeOK
<1>6. RanInv'
  BY <1>2, <1>5, OthersCounted DEF QInv, Core
<1>. QED BY <1>1, <1>2, <1>4, <1>5, <1>6 DEF Core

\* The queue of a thread gains a message that was sent, or run as a command.
LEMMA EnqueueKeeps ==
  ASSUME QInv, NEW m \in Msgs, at[m] \in Stages \ ({"new", "queued"} \cup Past),
         at' = [at EXCEPT ![m] = "queued"],
         UNCHANGED <<threadOf, typed, to, ran, lost, target>>,
         NEW t \in Threads, t = threadOf[m],
         queue' = [queue EXCEPT ![t] = Append(@, m)] \/ queue' = [queue EXCEPT ![t] = <<m>> \o @]
  PROVE  Core' /\ queue' \in [Threads -> Seq(Msgs)] /\ at' \in [Msgs -> Stages]
<1>1. QueuesInv' /\ queue' \in [Threads -> Seq(Msgs)]
  BY QueuesGain DEF QInv, Core, TypeOK
<1>2. at' \in [Msgs -> Stages] /\ at'[m] = "queued" /\ \A n \in Msgs \ {m} : at'[n] = at[n]
  BY DEF QInv, TypeOK, Stages
<1>3. m <= typed
  BY DEF QInv, Core, Untyped, TypeOK, Turns, Msgs
<1>4. Untyped'
  BY <1>2, <1>3 DEF QInv, Core, Untyped, TypeOK, Turns, Msgs
<1>5. SentTo' /\ OwnThread'
  BY <1>2 DEF QInv, Core, SentTo, OwnThread, Sending
<1>6. RanInv'
  BY <1>2 DEF QInv, Core, RanInv, Counted, Past
<1>. QED BY <1>1, <1>2, <1>4, <1>5, <1>6 DEF Core

\* A message leaves the queue it is in, to be sent, run or dropped.
LEMMA DequeueKeeps ==
  ASSUME QInv, NEW m \in Msgs, NEW s \in {"command", "ensuring", "removed"},
         at' = [at EXCEPT ![m] = s], UNCHANGED <<threadOf, typed, to, ran, lost>>,
         target' = [target EXCEPT ![m] = 0] \/ (target' = target /\ s # "ensuring"),
         NEW t \in Threads, Holds(queue[t], m),
         NEW r \in Seq(Msgs), Distinct(r), \A n \in Msgs : Holds(r, n) <=> Holds(queue[t], n) /\ n # m,
         queue' = [queue EXCEPT ![t] = r]
  PROVE  Core' /\ queue' \in [Threads -> Seq(Msgs)] /\ at' \in [Msgs -> Stages]
<1>1. s \in Stages \ {"queued"}
  BY DEF Stages, Sending, Ended
<1>2. QueuesInv' /\ queue' \in [Threads -> Seq(Msgs)]
  BY <1>1, QueuesLose DEF QInv, Core
<1>3. at' \in [Msgs -> Stages] /\ at'[m] = s /\ \A n \in Msgs \ {m} : at'[n] = at[n]
  BY <1>1 DEF QInv, TypeOK, Stages
<1>4. at[m] = "queued" /\ m <= typed
  BY DEF QInv, Core, QueuesInv, Untyped, TypeOK, Turns, Msgs
<1>5. Untyped'
  BY <1>3, <1>4 DEF QInv, Core, Untyped, TypeOK, Turns, Msgs
<1>6. SentTo' /\ OwnThread'
  BY <1>3 DEF QInv, Core, SentTo, OwnThread, Sending
<1>7. RanInv'
  <2>1. /\ \A n \in Msgs \ {m} : target'[n] = target[n]
        /\ s = "ensuring" => target'[m] = 0
    BY DEF QInv, TypeOK
  <2>2. Counted(m)'
    BY <1>3, <1>4, <2>1 DEF QInv, Core, RanInv, Counted, Past
  <2>. QED BY <1>3, <2>1, <2>2, OthersCounted DEF QInv, Core
<1>. QED BY <1>2, <1>3, <1>5, <1>6, <1>7 DEF Core

LEMMA CoreStutters ==
  ASSUME Core, UNCHANGED coreVars
  PROVE  Core'
BY DEF Core, coreVars, Untyped, QueuesInv, SentTo, OwnThread, RanInv, Counted

-------------------------------------------------------------------------------
\* The steps.

LEMMA EffectKeeps ==
  ASSUME QInv, Effect
  PROVE  QInv'
<1>1. CASE trackStarted \/ trackEnded
  <2>1. Core'
    BY <1>1, CoreStutters DEF QInv, trackStarted, trackEnded, shownVars, userVars, serverVars,
                              sendVars, coreVars
  <2>2. TypeOK'
    <3>1. /\ inFlight' \in [Threads -> Turns] /\ hasStarted' \subseteq Threads
          /\ UNCHANGED <<queue, shownVars, userVars, serverVars, sendVars>>
      <4>1. 0 \in Turns /\ active \in Threads /\ inFlight \in [Threads -> Turns]
            /\ hasStarted \subseteq Threads
        BY TurnFacts DEF QInv, TypeOK
      <4>. QED BY <1>1, <4>1 DEF trackStarted, trackEnded
    <3>. QED BY <3>1 DEF QInv, TypeOK, shownVars, userVars, serverVars, sendVars
  <2>. QED BY <2>1, <2>2 DEF QInv
<1>2. CASE flush
  <2> DEFINE m == Head(queue[active])
             r == Tail(queue[active])
  <2>1. /\ active \in Threads /\ queue[active] \in Seq(Msgs) /\ queue[active] # <<>>
        /\ Distinct(queue[active])
    BY <1>2 DEF flush, CanFlush, QInv, Core, QueuesInv, TypeOK
  <2>2. /\ m \in Msgs /\ Holds(queue[active], m) /\ r \in Seq(Msgs) /\ Distinct(r)
        /\ \A n \in Msgs : Holds(r, n) <=> Holds(queue[active], n) /\ n # m
    BY <2>1, TailFacts
  <2>3. /\ queue' = [queue EXCEPT ![active] = r] /\ at' = [at EXCEPT ![m] = startOf(m)]
        /\ inFlight' = [inFlight EXCEPT ![active] = m] /\ hasStarted' = hasStarted \ {active}
        /\ target' = [target EXCEPT ![m] = 0] /\ flushed' = flushed \cup {m}
        /\ UNCHANGED <<processing, activeTurn, stopNext, active, paused, typed, threadOf, stops,
                       running, ran, events, lost, to>>
    BY <1>2 DEF flush, shownVars, userVars, serverVars
  <2>4. startOf(m) \in {"command", "ensuring", "removed"}
    BY DEF startOf
  <2> HIDE DEF m, r
  <2>5. Core' /\ queue' \in [Threads -> Seq(Msgs)] /\ at' \in [Msgs -> Stages]
    BY <2>1, <2>2, <2>3, <2>4, DequeueKeeps
  <2>6. TypeOK'
    BY <2>1, <2>2, <2>3, <2>5, TurnFacts DEF QInv, TypeOK, Stages
  <2>. QED BY <2>5, <2>6 DEF QInv
<1>. QED BY <1>1, <1>2 DEF Effect

LEMMA HandleSendKeeps ==
  ASSUME QInv, handleSend
  PROVE  QInv'
<1> DEFINE m == typed + 1
<1>1. /\ m \in Msgs /\ typed' = m /\ threadOf' = [threadOf EXCEPT ![m] = active]
      /\ queueMessage(m) \/ sendUserMessage(m)
      /\ UNCHANGED <<active, paused, stops, processing, activeTurn, stopNext, running, ran,
                     events, lost, to, flushed>>
  BY DEF handleSend, shownVars, serverVars
<1>2. /\ at[m] = "new" /\ to[m] = 0 /\ ran[m] = 0 /\ m \notin lost /\ active \in Threads /\ typed \in Nat
      /\ m > typed
  <2>1. typed \in Nat /\ m > typed /\ active \in Threads
    BY TurnFacts DEF QInv, TypeOK
  <2>2. at[m] = "new" /\ to[m] = 0
    BY <1>1, <2>1 DEF QInv, Core, Untyped
  <2>3. ran[m] = 0 /\ m \notin lost
    BY <1>1, <2>2 DEF QInv, Core, RanInv, Counted, Past
  <2>. QED BY <2>1, <2>2, <2>3
<1>3. /\ threadOf' \in [Msgs -> Threads] /\ threadOf'[m] = active
      /\ \A n \in Msgs \ {m} : threadOf'[n] = threadOf[n]
  BY <1>1, <1>2 DEF QInv, TypeOK
<1>4. m \in Turns
  BY <1>1 DEF Turns, Msgs
<1>. HIDE DEF m
<1>5. PICK s \in {"queued", "command", "ensuring"} : at' = [at EXCEPT ![m] = s]
  BY <1>1 DEF queueMessage, enqueue, sendUserMessage, startOf
<1>6. /\ at' \in [Msgs -> Stages] /\ at'[m] = s
      /\ \A n \in Msgs \ {m} : at'[n] = at[n]
  BY <1>1, <1>5 DEF QInv, TypeOK, Stages, Sending
<1>7. QueuesInv' /\ queue' \in [Threads -> Seq(Msgs)]
  <2>1. CASE queueMessage(m)
    <3>1. queue' = [queue EXCEPT ![active] = Append(@, m)] /\ at' = [at EXCEPT ![m] = "queued"]
      BY <2>1 DEF queueMessage, enqueue
    <3>. QED BY <1>1, <1>2, <1>3, <3>1, QueuesGain DEF QInv, Core
  <2>2. CASE sendUserMessage(m)
    <3>1. UNCHANGED queue /\ at' = [at EXCEPT ![m] = startOf(m)]
          /\ startOf(m) \in {"command", "ensuring"}
      BY <2>2 DEF sendUserMessage, hookVars, startOf
    <3>2. at'[m] # "queued" /\ at[m] # "queued"
      BY <1>1, <1>2, <3>1 DEF QInv, TypeOK
    <3>3. ASSUME NEW t \in Threads, NEW n \in Msgs
          PROVE  Holds(queue'[t], n) <=> at'[n] = "queued" /\ threadOf'[n] = t
      BY <1>3, <1>6, <3>1, <3>2 DEF QInv, Core, QueuesInv
    <3>4. queue' \in [Threads -> Seq(Msgs)] /\ \A t \in Threads : Distinct(queue'[t])
      BY <3>1 DEF QInv, Core, QueuesInv, TypeOK
    <3>. QED BY <3>3, <3>4 DEF QueuesInv
  <2>. QED BY <1>1, <2>1, <2>2
<1>8. Untyped'
  <2>1. ASSUME NEW n \in Msgs, n > m
        PROVE  n # m /\ n > typed
    BY <1>2, <2>1 DEF m, Msgs
  <2>. QED BY <1>1, <1>6, <2>1 DEF QInv, Core, Untyped
<1>9. SentTo' /\ OwnThread'
  BY <1>1, <1>2, <1>3, <1>6 DEF QInv, Core, SentTo, OwnThread, Sending
<1>11. RanInv'
  <2>1. PICK k \in Msgs : k = m
    BY <1>1
  <2>2. /\ target' = [target EXCEPT ![k] = target'[k]]
        /\ at'[k] = at'[m] /\ \A n \in Msgs \ {k} : at'[n] = at[n]
    BY <1>1, <1>2, <1>6, <2>1 DEF queueMessage, sendUserMessage, QInv, TypeOK
  <2>3. \A n \in Msgs \ {k} : target'[n] = target[n]
    BY <2>2 DEF QInv, TypeOK
  <2>4. ran'[k] = 0 /\ k \notin lost' /\ UNCHANGED <<ran, lost>>
    BY <1>1, <1>2, <2>1
  <2>5. Counted(k)'
    BY <2>4 DEF Counted
  <2>. QED BY <2>2, <2>3, <2>4, <2>5, OthersCounted DEF QInv, Core
<1>10. TypeOK'
  <2>1. UNCHANGED <<inFlight, hasStarted>>
    BY <1>1 DEF queueMessage, enqueue, sendUserMessage, hookVars
  <2>2. target' \in [Msgs -> Turns]
    BY <1>1, <1>2 DEF queueMessage, sendUserMessage, QInv, TypeOK
  <2>. QED BY <1>1, <1>2, <1>3, <1>4, <1>6, <1>7, <2>1, <2>2 DEF QInv, TypeOK, Stages
<1>. QED BY <1>7, <1>8, <1>9, <1>10, <1>11 DEF QInv, Core

LEMMA RemoveKeeps ==
  ASSUME QInv, NEW m \in Msgs, removeQueuedMessage(m)
  PROVE  QInv'
<1> DEFINE t == threadOf[m]
<1>1. /\ at' = [at EXCEPT ![m] = "removed"]
      /\ UNCHANGED <<inFlight, hasStarted, processing, activeTurn, stopNext, active, paused, typed,
                     threadOf, stops, running, ran, events, lost, target, to, flushed>>
  BY DEF removeQueuedMessage, shownVars, userVars, serverVars
<1>2. t \in Threads /\ queue[t] \in Seq(Msgs) /\ Distinct(queue[t])
  BY DEF QInv, Core, QueuesInv, TypeOK
<1>3. PICK i \in 1..Len(queue[t]) :
        queue[t][i] = m /\ queue' = [queue EXCEPT ![t] = without(queue[t], i)]
  <2>1. DOMAIN queue[t] = 1..Len(queue[t])
    BY <1>2
  <2>. QED BY <2>1 DEF removeQueuedMessage
<1>4. Holds(queue[t], m)
  BY <1>3 DEF Holds
<1>5. PICK r : r = without(queue[t], i)
  OBVIOUS
<1>6. /\ r \in Seq(Msgs) /\ Distinct(r)
      /\ \A n \in Msgs : Holds(r, n) <=> Holds(queue[t], n) /\ n # m
  BY <1>2, <1>3, <1>5, WithoutFacts
<1>. HIDE DEF t
<1>7. Core' /\ queue' \in [Threads -> Seq(Msgs)] /\ at' \in [Msgs -> Stages]
  BY <1>1, <1>2, <1>3, <1>4, <1>5, <1>6, DequeueKeeps
<1>8. TypeOK'
  BY <1>1, <1>7 DEF QInv, TypeOK, Stages
<1>. QED BY <1>7, <1>8 DEF QInv

\* setActiveThread(), a question of the app-server and the stop button leave the
\* messages alone.
LEMMA ShownKeeps ==
  ASSUME QInv, UNCHANGED <<hookVars, typed, threadOf, running, ran, lost, sendVars>>,
         active' \in Threads, paused' \in BOOLEAN, stops' \in 0..MaxStops,
         processing' \subseteq Threads, stopNext' \subseteq Threads,
         activeTurn' \in [Threads -> Turns], events' \in [Threads -> Seq(Event)]
  PROVE  QInv'
<1>1. Core'
  BY CoreStutters DEF QInv, coreVars, hookVars, sendVars
<1>2. TypeOK'
  BY DEF QInv, TypeOK, hookVars, sendVars
<1>. QED BY <1>1, <1>2 DEF QInv

LEMMA UserKeeps ==
  ASSUME QInv, User
  PROVE  QInv'
<1>1. CASE \E t \in Threads : setActiveThread(t)
  BY <1>1, ShownKeeps DEF setActiveThread, shownVars, serverVars, QInv, TypeOK
<1>2. CASE togglePaused
  BY <1>2, ShownKeeps DEF togglePaused, shownVars, serverVars, QInv, TypeOK
<1>3. CASE interruptTurn
  <2>1. /\ stops' \in 0..MaxStops /\ processing' \subseteq Threads
        /\ activeTurn' \in [Threads -> Turns] /\ stopNext' \subseteq Threads
    BY <1>3, TurnFacts, QueuedSendAssumption DEF interruptTurn, QInv, TypeOK
  <2>. QED BY <1>3, <2>1, ShownKeeps DEF interruptTurn, serverVars, QInv, TypeOK
<1>. QED BY <1>1, <1>2, <1>3, HandleSendKeeps, RemoveKeeps DEF User

LEMMA SendKeeps ==
  ASSUME QInv, NEW m \in Msgs, sendMessageToThread(m)
  PROVE  QInv'
<1>1. PICK s \in {"starting", "steering"} :
        at' = [at EXCEPT ![m] = s] /\ (s = "starting" <=> target[m] = 0)
  BY DEF sendMessageToThread
<1>2. /\ at[m] = "ensuring" /\ to' = [to EXCEPT ![m] = threadOf[m]]
      /\ processing' = processing \cup {threadOf[m]}
      /\ UNCHANGED <<queue, inFlight, hasStarted, activeTurn, stopNext, active, paused, typed,
                     threadOf, stops, running, ran, events, lost, target, flushed>>
  BY DEF sendMessageToThread, hookVars, userVars, serverVars
<1>3. /\ s \in Stages \ {"new", "queued"} /\ at[m] \notin {"new", "queued"}
      /\ to'[m] = threadOf[m] /\ threadOf[m] \in Threads
      /\ s = "starting" \/ target[m] # 0
  BY <1>1, <1>2 DEF sendMessageToThread, Stages, Sending, QInv, TypeOK
<1>4. /\ Core' /\ at' \in [Msgs -> Stages] /\ to' \in [Msgs -> Threads \cup {0}]
      /\ ran' \in [Msgs -> Nat]
  <2>1. at'[m] = s
    BY <1>1 DEF QInv, TypeOK
  <2>2. Counted(m)'
    BY <1>1, <1>2, <2>1 DEF QInv, Core, RanInv, Counted, Past
  <2>. QED BY <1>1, <1>2, <1>3, <2>2, StageKeeps
<1>5. TypeOK'
  BY <1>2, <1>3, <1>4 DEF QInv, TypeOK, Stages
<1>. QED BY <1>4, <1>5 DEF QInv

\* The answer is for the thread of the message.
LEMMA StartAnsweredKeeps ==
  ASSUME QInv, NEW m \in Msgs, startAnswered(m)
  PROVE  QInv'
<1>1. PICK s \in {"ran", "refused"} : /\ at' = [at EXCEPT ![m] = s]
                                      /\ s = "ran" <=> at[m] = "accepted"
  BY DEF startAnswered
<1>2. /\ at[m] \in {"accepted", "rejected"}
      /\ UNCHANGED <<queue, inFlight, hasStarted, stopNext, active, paused, typed, threadOf,
                     stops, running, ran, events, lost, target, to, flushed>>
  BY DEF startAnswered, hookVars, userVars, serverVars
<1>3. /\ s \in Stages \ {"new", "queued"} /\ at[m] \notin {"new", "queued"}
      /\ s \notin Sending /\ s \in Past /\ at[m] \in Past
  BY <1>1, <1>2 DEF Stages, Sending, Ended, Past
<1>4. /\ Core' /\ at' \in [Msgs -> Stages] /\ to' \in [Msgs -> Threads \cup {0}]
      /\ ran' \in [Msgs -> Nat]
  <2>1. at'[m] = s
    BY <1>1 DEF QInv, TypeOK
  <2>2. Counted(m)'
    BY <1>1, <1>2, <1>3, <2>1 DEF QInv, Core, RanInv, Counted
  <2>. QED BY <1>1, <1>2, <1>3, <2>2, StageKeeps
<1>5. to[m] \in Threads
  BY <1>2 DEF QInv, Core, SentTo, Sending, TypeOK
<1>6. activeTurn' \in [Threads -> Turns] /\ processing' \subseteq Threads
  <2>1. /\ 0 \in Turns /\ m \in Turns /\ target[m] \in Turns /\ processing \subseteq Threads
        /\ activeTurn \in [Threads -> Turns]
    BY TurnFacts DEF QInv, TypeOK
  <2>. QED BY <1>5, <2>1 DEF startAnswered, showIdle
<1>7. TypeOK'
  BY <1>2, <1>4, <1>6 DEF QInv, TypeOK, Stages
<1>. QED BY <1>4, <1>7 DEF QInv

LEMMA SteerAnsweredKeeps ==
  ASSUME QInv, NEW m \in Msgs, steerAnswered(m)
  PROVE  QInv'
<1>1. /\ at[m] \in {"steered", "stale", "unsteered"}
      /\ UNCHANGED <<inFlight, hasStarted, stopNext, active, paused, typed, threadOf, stops,
                     running, ran, events, lost, target, to, flushed>>
  BY DEF steerAnswered, enqueue, hookVars, userVars, serverVars
<1>2. to[m] = threadOf[m] /\ to[m] \in Threads
  BY <1>1 DEF QInv, Core, SentTo, Sending, TypeOK
<1>3. activeTurn' \in [Threads -> Turns] /\ processing' \subseteq Threads
  <2>1. /\ 0 \in Turns /\ m \in Turns /\ target[m] \in Turns /\ processing \subseteq Threads
        /\ activeTurn \in [Threads -> Turns]
    BY TurnFacts DEF QInv, TypeOK
  <2>. QED BY <1>2, <2>1 DEF steerAnswered, showIdle
<1>4. CASE at[m] = "steered"
  <2>1. at' = [at EXCEPT ![m] = "ran"] /\ UNCHANGED queue
    BY <1>4 DEF steerAnswered, hookVars
  <2>2. "ran" \in Stages \ {"new", "queued"} /\ "ran" \notin Sending /\ "ran" \in Past
    BY DEF Stages, Sending, Ended, Past
  <2>3. /\ Core' /\ at' \in [Msgs -> Stages] /\ to' \in [Msgs -> Threads \cup {0}]
        /\ ran' \in [Msgs -> Nat]
    <3>1. at'[m] = "ran"
      BY <2>1 DEF QInv, TypeOK
    <3>2. Counted(m)'
      BY <1>1, <1>4, <2>2, <3>1 DEF QInv, Core, RanInv, Counted
    <3>. QED BY <1>1, <1>4, <2>1, <2>2, <3>2, StageKeeps
  <2>4. TypeOK'
    BY <1>1, <1>3, <2>1, <2>3 DEF QInv, TypeOK, Stages
  <2>. QED BY <2>3, <2>4 DEF QInv
<1>5. CASE at[m] \in {"stale", "unsteered"}
  <2>1. /\ at' = [at EXCEPT ![m] = "queued"]
        /\ queue' = [queue EXCEPT ![to[m]] = Append(@, m)]
    BY <1>5 DEF steerAnswered, enqueue
  <2>2. at[m] \in Stages \ ({"new", "queued"} \cup Past)
    BY <1>5 DEF Stages, Sending, Past
  <2>3. Core' /\ queue' \in [Threads -> Seq(Msgs)] /\ at' \in [Msgs -> Stages]
    BY <1>1, <1>2, <2>1, <2>2, EnqueueKeeps
  <2>4. TypeOK'
    BY <1>1, <1>3, <2>3 DEF QInv, TypeOK, Stages
  <2>. QED BY <2>3, <2>4 DEF QInv
<1>. QED BY <1>1, <1>4, <1>5

LEMMA CommandEndsKeeps ==
  ASSUME QInv, NEW m \in Msgs, commandEnds(m)
  PROVE  QInv'
<1> DEFINE t == threadOf[m]
<1>1. /\ at[m] = "command"
      /\ UNCHANGED <<processing, activeTurn, stopNext, active, paused, typed, threadOf, stops,
                     running, ran, events, lost, target, to, flushed>>
  BY DEF commandEnds, shownVars, userVars, serverVars
<1>2. t \in Threads
  BY DEF QInv, TypeOK
<1>3. CASE at' = [at EXCEPT ![m] = "done"] /\ UNCHANGED hookVars
  <2>1. "done" \in Stages \ {"new", "queued"} /\ "done" \notin Sending /\ at[m] \notin Past
    BY <1>1 DEF Stages, Sending, Ended, Past
  <2>2. /\ Core' /\ at' \in [Msgs -> Stages] /\ to' \in [Msgs -> Threads \cup {0}]
        /\ ran' \in [Msgs -> Nat]
    <3>1. at'[m] = "done"
      BY <1>3 DEF QInv, TypeOK
    <3>2. Counted(m)'
      BY <1>1, <2>1, <3>1 DEF QInv, Core, RanInv, Counted
    <3>. QED BY <1>1, <1>3, <2>1, <3>2, StageKeeps DEF hookVars
  <2>3. TypeOK'
    BY <1>1, <1>3, <2>2 DEF QInv, TypeOK, Stages, hookVars
  <2>. QED BY <2>2, <2>3 DEF QInv
<1>4. CASE /\ inFlight' = [inFlight EXCEPT ![t] = 0] /\ hasStarted' = hasStarted \ {t}
           /\ queue' = [queue EXCEPT ![t] = <<m>> \o @] /\ at' = [at EXCEPT ![m] = "queued"]
  <2>1. at[m] \in Stages \ ({"new", "queued"} \cup Past)
    BY <1>1 DEF Stages, Past
  <2>2. Core' /\ queue' \in [Threads -> Seq(Msgs)] /\ at' \in [Msgs -> Stages]
    BY <1>1, <1>2, <1>4, <2>1, EnqueueKeeps
  <2>3. TypeOK'
    BY <1>1, <1>2, <1>4, <2>2, TurnFacts DEF QInv, TypeOK, Stages
  <2>. QED BY <2>2, <2>3 DEF QInv
<1>. QED BY <1>3, <1>4 DEF commandEnds

\* Only a message that is on its way for the first time, or again after what the page
\* took for a refusal, is accepted.
LEMMA ServeStartKeeps ==
  ASSUME QInv, NEW m \in Msgs, ServeStart(m)
  PROVE  QInv'
<1> DEFINE t == to[m]
<1>1. /\ at[m] = "starting"
      /\ UNCHANGED <<queue, inFlight, hasStarted, processing, activeTurn, stopNext, active, paused,
                     typed, threadOf, stops, target, to, flushed>>
  BY DEF ServeStart, hookVars, shownVars, userVars
<1>2. t = threadOf[m] /\ t \in Threads
  BY <1>1 DEF QInv, Core, SentTo, Sending, TypeOK
<1>3. \A s \in {"accepted", "rejected"} : s \in Stages \ {"new", "queued"} /\ s \in Past
  BY DEF Stages, Sending, Past
<1>6. ran[m] \in Nat /\ ran[m] = IF m \in lost THEN 1 ELSE 0
  BY <1>1 DEF QInv, Core, RanInv, Counted, Past, TypeOK
<1>7. ASSUME NEW s \in {"accepted", "rejected"}, at' = [at EXCEPT ![m] = s], UNCHANGED lost,
             ran' = ran \/ ran' = [ran EXCEPT ![m] = @ + 1]
      PROVE  Core' /\ at' \in [Msgs -> Stages] /\ to' \in [Msgs -> Threads \cup {0}]
             /\ ran' \in [Msgs -> Nat]
  <2>1. at'[m] = s /\ ran'[m] \in {ran[m], ran[m] + 1}
    BY <1>7 DEF QInv, TypeOK
  <2>2. Counted(m)'
    BY <1>1, <1>3, <1>6, <1>7, <2>1 DEF Counted
  <2>. QED BY <1>1, <1>2, <1>3, <1>7, <2>2, StageKeeps
<1>4. CASE at' = [at EXCEPT ![m] = "rejected"] /\ UNCHANGED serverVars
  <2>1. /\ Core' /\ at' \in [Msgs -> Stages] /\ to' \in [Msgs -> Threads \cup {0}]
        /\ ran' \in [Msgs -> Nat]
    BY <1>4, <1>7 DEF serverVars
  <2>2. TypeOK'
    BY <1>1, <1>4, <2>1 DEF QInv, TypeOK, Stages, serverVars
  <2>. QED BY <2>1, <2>2 DEF QInv
<1>5. CASE /\ running' = [running EXCEPT ![t] = m] /\ ran' = [ran EXCEPT ![m] = @ + 1]
           /\ events' = [events EXCEPT ![t] = @ \o <<event("active", 0), event("started", m)>>]
           /\ \E s \in {"accepted", "rejected"} : at' = [at EXCEPT ![m] = s]
           /\ UNCHANGED lost
  <2>1. /\ Core' /\ at' \in [Msgs -> Stages] /\ to' \in [Msgs -> Threads \cup {0}]
        /\ ran' \in [Msgs -> Nat]
    BY <1>5, <1>7
  <2>2. /\ <<event("active", 0), event("started", m)>> \in Seq(Event)
        /\ m \in Turns /\ events[t] \in Seq(Event)
    <3>1. event("active", 0) \in Event /\ event("started", m) \in Event
      BY TurnFacts DEF event, Event
    <3>2. <<event("active", 0), event("started", m)>> \in Seq(Event)
      BY <3>1
    <3>. QED BY <1>2, <3>2, TurnFacts DEF QInv, TypeOK
  <2>3. running' \in [Threads -> Turns] /\ events' \in [Threads -> Seq(Event)]
    BY <1>2, <1>5, <2>2 DEF QInv, TypeOK
  <2>4. TypeOK'
    BY <1>1, <1>5, <2>1, <2>3 DEF QInv, TypeOK, Stages
  <2>. QED BY <2>1, <2>4 DEF QInv
<1>. QED BY <1>4, <1>5 DEF ServeStart

LEMMA ServeSteerKeeps ==
  ASSUME QInv, NEW m \in Msgs, ServeSteer(m)
  PROVE  QInv'
<1>1. /\ at[m] = "steering"
      /\ UNCHANGED <<queue, inFlight, hasStarted, processing, activeTurn, stopNext, active, paused,
                     typed, threadOf, stops, running, events, target, to, flushed>>
  BY DEF ServeSteer, hookVars, shownVars, userVars
<1>2. to[m] = threadOf[m] /\ m \notin lost /\ ran[m] = 0
  BY <1>1 DEF QInv, Core, SentTo, RanInv, Counted, Past, Sending
<1>3. PICK s \in {"steered", "stale", "unsteered"} :
        /\ at' = [at EXCEPT ![m] = s]
        /\ \/ s = "steered" /\ ran' = [ran EXCEPT ![m] = @ + 1] /\ UNCHANGED lost
           \/ s = "unsteered" /\ ran' = [ran EXCEPT ![m] = @ + 1] /\ lost' = lost \cup {m}
           \/ s # "steered" /\ UNCHANGED <<ran, lost>>
  BY DEF ServeSteer
<1>4. /\ s \in Stages \ {"new", "queued"} /\ at[m] \notin {"new", "queued"}
      /\ s = "steered" => s \in Past
  BY <1>1 DEF Stages, Sending, Past
<1>7. Counted(m)' /\ lost' \subseteq Msgs
  <2>1. at'[m] = s /\ (ran' = [ran EXCEPT ![m] = @ + 1] => ran'[m] = 1)
    BY <1>2, <1>3 DEF QInv, TypeOK
  <2>. QED BY <1>2, <1>3, <1>4, <2>1 DEF Counted, QInv, TypeOK
<1>5. /\ Core' /\ at' \in [Msgs -> Stages] /\ to' \in [Msgs -> Threads \cup {0}]
      /\ ran' \in [Msgs -> Nat]
  BY <1>1, <1>2, <1>3, <1>4, <1>7, StageKeeps
<1>6. TypeOK'
  BY <1>1, <1>5, <1>7 DEF QInv, TypeOK, Stages
<1>. QED BY <1>5, <1>6 DEF QInv

LEMMA EventKeeps ==
  ASSUME QInv, NEW t \in Threads, handleEvent(t) \/ TurnEnds(t)
  PROVE  QInv'
<1>1. CASE handleEvent(t)
  <2> DEFINE e == Head(events[t])
  <2>1. /\ events[t] \in Seq(Event) /\ events[t] # <<>> /\ 0 \in Turns
        /\ activeTurn \in [Threads -> Turns] /\ processing \subseteq Threads
        /\ stopNext \subseteq Threads /\ events \in [Threads -> Seq(Event)]
    BY <1>1, TurnFacts DEF handleEvent, QInv, TypeOK
  <2>2. e \in Event /\ Tail(events[t]) \in Seq(Event)
    BY <2>1
  <2>3. /\ events' = [events EXCEPT ![t] = Tail(events[t])]
        /\ \/ e.kind = "started" /\ onTurnStarted(t, e.turn)
           \/ e.kind = "completed" /\ onTurnCompleted(t, e.turn)
           \/ e.kind \in {"active", "idle"} /\ onThreadStatusChanged(t, e.kind)
        /\ UNCHANGED <<hookVars, userVars, running, ran, lost, sendVars>>
    BY <1>1, <2>2 DEF handleEvent, Event
  <2>4. e.turn \in Turns
    BY <2>2 DEF Event
  <2>. HIDE DEF e
  <2>5. /\ processing' \subseteq Threads /\ stopNext' \subseteq Threads
        /\ activeTurn' \in [Threads -> Turns]
    BY <2>1, <2>3, <2>4
    DEF onTurnStarted, onTurnCompleted, onThreadStatusChanged, showIdle, shownVars
  <2>6. events' \in [Threads -> Seq(Event)]
    BY <2>1, <2>2, <2>3 DEF e
  <2>. QED BY <2>3, <2>5, <2>6, ShownKeeps DEF userVars, QInv, TypeOK
<1>2. CASE TurnEnds(t)
  <2> DEFINE completed == event("completed", running[t])
             idle == event("idle", 0)
  <2>1. completed \in Event /\ idle \in Event
    BY TurnFacts DEF event, Event, QInv, TypeOK
  <2>2. /\ running' = [running EXCEPT ![t] = 0]
        /\ \E order \in {<<completed, idle>>, <<idle, completed>>} :
             events' = [events EXCEPT ![t] = @ \o order]
        /\ UNCHANGED <<hookVars, shownVars, userVars, ran, lost, sendVars>>
    BY <1>2 DEF TurnEnds
  <2>. HIDE DEF completed, idle
  <2>3. running' \in [Threads -> Turns] /\ events' \in [Threads -> Seq(Event)]
    <3>1. PICK order \in {<<completed, idle>>, <<idle, completed>>} :
            events' = [events EXCEPT ![t] = @ \o order]
      BY <2>2
    <3>2. order \in Seq(Event) /\ events \in [Threads -> Seq(Event)]
      <4>1. <<completed, idle>> \in Seq(Event) /\ <<idle, completed>> \in Seq(Event)
        BY <2>1
      <4>. QED BY <4>1 DEF QInv, TypeOK
    <3>3. events[t] \o order \in Seq(Event)
      BY <3>2, ConcatProperties
    <3>4. events' \in [Threads -> Seq(Event)]
      BY <3>1, <3>2, <3>3
    <3>5. running' \in [Threads -> Turns]
      BY <2>2, TurnFacts DEF QInv, TypeOK
    <3>. QED BY <3>4, <3>5
  <2>4. Core'
    BY <2>2, CoreStutters DEF QInv, coreVars, hookVars, userVars, sendVars
  <2>5. TypeOK'
    BY <2>2, <2>3 DEF QInv, TypeOK, hookVars, shownVars, userVars, sendVars
  <2>. QED BY <2>4, <2>5 DEF QInv
<1>. QED BY <1>1, <1>2

-------------------------------------------------------------------------------
LEMMA QInvInit == Init => QInv
<1> SUFFICES ASSUME Init PROVE QInv
  OBVIOUS
<1>1. TypeOK
  <2>1. /\ active \in Threads /\ threadOf \in [Msgs -> Threads] /\ paused \in BOOLEAN
        /\ typed \in Turns /\ stops \in 0..MaxStops
        /\ inFlight \in [Threads -> Turns] /\ activeTurn \in [Threads -> Turns]
        /\ running \in [Threads -> Turns] /\ target \in [Msgs -> Turns]
    <3>1. 0 \in Turns /\ 0 \in 0..MaxStops /\ FALSE \in BOOLEAN
      BY TurnFacts, QueuedSendAssumption
    <3>. QED BY <3>1 DEF Init
  <2>2. /\ hasStarted = {} /\ processing = {} /\ stopNext = {} /\ flushed = {} /\ lost = {}
        /\ at \in [Msgs -> Stages] /\ to \in [Msgs -> Threads \cup {0}]
        /\ ran \in [Msgs -> Nat]
    BY DEF Init, Stages
  <2>3. queue \in [Threads -> Seq(Msgs)] /\ events \in [Threads -> Seq(Event)]
    BY DEF Init
  <2>. QED BY <2>1, <2>2, <2>3 DEF TypeOK, Stages
<1>2. QueuesInv
  <2>1. \A t \in Threads : Len(queue[t]) = 0
    BY DEF Init
  <2>2. \A m \in Msgs : at[m] # "queued"
    BY DEF Init
  <2>3. ASSUME NEW t \in Threads
        PROVE  Distinct(queue[t]) /\ \A m \in Msgs : ~Holds(queue[t], m)
    <3>1. 1..Len(queue[t]) = {}
      BY <2>1
    <3>. QED BY <3>1 DEF Distinct, Holds
  <2>. QED BY <2>2, <2>3 DEF QueuesInv
<1>3. Untyped /\ SentTo /\ OwnThread /\ RanInv
  BY DEF Init, Untyped, SentTo, OwnThread, RanInv, Counted, Sending
<1>. QED BY <1>1, <1>2, <1>3 DEF QInv, Core

LEMMA QInvNext == QInv /\ [Next]_vars => QInv'
<1> SUFFICES ASSUME QInv, [Next]_vars PROVE QInv'
  OBVIOUS
<1>1. CASE Effect \/ User
  BY <1>1, EffectKeeps, UserKeeps
<1>2. CASE \E m \in Msgs : Message(m)
  BY <1>2, SendKeeps, StartAnsweredKeeps, SteerAnsweredKeeps, CommandEndsKeeps, ServeStartKeeps,
     ServeSteerKeeps DEF Message
<1>3. CASE \E t \in Threads : handleEvent(t) \/ TurnEnds(t)
  BY <1>3, EventKeeps
<1>4. CASE UNCHANGED vars
  <2>1. UNCHANGED <<hookVars, shownVars, userVars, serverVars, sendVars>>
    BY <1>4 DEF vars
  <2>. QED BY <2>1, ShownKeeps DEF QInv, TypeOK, shownVars, userVars, serverVars
<1>. QED BY <1>1, <1>2, <1>3, <1>4 DEF Next

\* The inductive invariant of the queue holds for any threads, commands and number of
\* messages.
THEOREM QueuedSendInvariant == Spec => []QInv
BY QInvInit, QInvNext, PTL DEF Spec

\* The state of the hook, what is shown and what is on its way keep their types
\* (useQueuedSend.ts).
THEOREM TypesOK == Spec => []TypeOK
<1>1. QInv => TypeOK
  BY DEF QInv
<1>. QED BY <1>1, QueuedSendInvariant, PTL

\* A message that waits is in the queue of its own thread, once, and no other message is
\* in a queue, however flushes, failed steers, commands that throw and removals
\* interleave.
THEOREM MessagesConserved == Spec => []Conserved
BY ConservedIfQueues, QueuedSendInvariant, PTL

\* The server accepts no message twice, though a message may be sent again after a steer
\* that failed; but for a steer of which only the answer was lost, and then not a third
\* time.
THEOREM AcceptedOnce == Spec => []NeverTwice
<1>1. QInv => NeverTwice
  BY DEF QInv, Core, RanInv, Counted, NeverTwice
<1>. QED BY <1>1, QueuedSendInvariant, PTL

\* A message goes to the thread it was typed in, whatever thread is in view when it is
\* sent.
THEOREM SentToOwnThread == Spec => []OwnThread
<1>1. QInv => OwnThread
  BY DEF QInv, Core
<1>. QED BY <1>1, QueuedSendInvariant, PTL

===============================================================================

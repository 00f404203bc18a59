------------------------ MODULE AppServerClientProofs ------------------------
(***************************************************************************)
(* Proofs about AppServerClient, for any sets of calls and any bound on    *)
(* the number of children.                                                 *)
(***************************************************************************)
EXTENDS AppServerClient, TLAPS

USE DEF Children, Calls, CallStates, ProcStates

\* Writing one more message to a child keeps the type of stdin.
LEMMA WriteType ==
  ASSUME TypeOK, NEW c \in Children, NEW m \in Message,
         stdin' = [stdin EXCEPT ![c] = Append(@, m)]
  PROVE  stdin' \in [Children -> Seq(Message)]
BY DEF TypeOK

\* Whatever resetProcess() overwrites keeps its type.
LEMMA ResetTypes ==
  ASSUME TypeOK, resetProcess
  PROVE  /\ child' \in 0..MaxChildren /\ startPromise' \in 0..MaxChildren
         /\ pending' \subseteq Nat \ {0}
         /\ proc' \in [Children -> ProcStates]
         /\ call' \in [Calls -> CallStates]
BY ClientAssumption DEF TypeOK, resetProcess, rejectAllPending, Kill

\* Every step of the client and of its processes keeps the types.
LEMMA TypeStep == TypeOK /\ [Next]_vars => TypeOK'
<1> SUFFICES ASSUME TypeOK, [Next]_vars PROVE TypeOK'
  OBVIOUS
<1> USE ClientAssumption
<1>1. ASSUME NEW k \in Calls, ensureStarted(k) PROVE TypeOK'
  <2>1. CASE child # 0
    BY <1>1, <2>1 DEF TypeOK, ensureStarted, clientVars
  <2>2. CASE child = 0 /\ startPromise # 0
    BY <1>1, <2>2 DEF TypeOK, ensureStarted, clientVars
  <2>3. CASE child = 0 /\ startPromise = 0
    <3> DEFINE init == [kind |-> "initialize", id |-> nextRequestId]
    <3>1. spawnChild(k) /\ UNCHANGED <<chunk, idOf, sentTo, result, answered, stdout>>
      BY <1>1, <2>3 DEF ensureStarted
    <3>2. init \in Message /\ spawned + 1 \in Children
      BY <3>1 DEF TypeOK, Message, spawnChild, spawnWith
    <3>3. stdin' \in [Children -> Seq(Message)]
      <4>1. stdin' = [stdin EXCEPT ![spawned + 1] = <<init>>]
        BY <3>1 DEF spawnChild, spawnWith
      <4>. QED BY <3>2, <4>1 DEF TypeOK
    <3>4. pending' \subseteq Nat \ {0}
      BY <3>1 DEF TypeOK, spawnChild, spawnWith
    <3>5. initId' \in [Children -> Nat] /\ proc' \in [Children -> ProcStates]
      BY <3>1 DEF TypeOK, spawnChild, spawnWith
    <3>7. call' \in [Calls -> CallStates]
      BY <3>1 DEF TypeOK, spawnChild, spawnWith
    <3>8. awaited' = [awaited EXCEPT ![k] = spawned + 1]
      BY <3>1 DEF spawnChild, spawnWith
    <3>9. awaited' \in [Calls -> 0..MaxChildren]
      <4>1. awaited \in [Calls -> 0..MaxChildren] /\ spawned + 1 \in 0..MaxChildren
        BY <3>2 DEF TypeOK
      <4>. QED BY <3>8, <4>1
    <3>6. /\ spawned' \in 0..MaxChildren /\ child' \in 0..MaxChildren
          /\ startPromise' \in 0..MaxChildren /\ nextRequestId' \in Nat \ {0}
      BY <3>1, <3>2 DEF TypeOK, spawnChild, spawnWith
    <3>. QED BY <3>1, <3>3, <3>4, <3>5, <3>6, <3>7, <3>9 DEF TypeOK
  <2>. QED BY <2>1, <2>2, <2>3
<1>2. ASSUME NEW k \in Calls, requestTimeout(k) PROVE TypeOK'
  BY <1>2 DEF TypeOK, requestTimeout, procVars
<1>3. ASSUME NEW k \in Calls, request(k) PROVE TypeOK'
  <2> DEFINE m == [kind |-> "request", id |-> nextRequestId]
  <2>1. nextRequestId' \in Nat \ {0} /\ idOf' \in [Calls -> Nat]
    BY <1>3 DEF TypeOK, request
  <2>3. pending' \subseteq Nat \ {0}
    BY <1>3 DEF TypeOK, request
  <2>4. call' \in [Calls -> CallStates]
    <3>1. call' = [call EXCEPT ![k] = "rejected"] \/ call' = [call EXCEPT ![k] = "waiting"]
      BY <1>3 DEF request
    <3>. QED BY <3>1 DEF TypeOK
  <2>5. sentTo' \in [Calls -> 0..MaxChildren]
    <3>1. UNCHANGED sentTo \/ sentTo' = [sentTo EXCEPT ![k] = child]
      BY <1>3 DEF request
    <3>. QED BY <3>1 DEF TypeOK
  <2>6. UNCHANGED <<child, startPromise, chunk, awaited, result, spawned, proc,
                    initId, answered, stdout>>
    BY <1>3 DEF request
  <2>2. stdin' \in [Children -> Seq(Message)]
    <3>1. CASE UNCHANGED stdin
      BY <3>1 DEF TypeOK
    <3>2. CASE CanWrite /\ Write("request", nextRequestId)
      <4>1. child \in Children /\ m \in Message
        BY <3>2 DEF TypeOK, CanWrite, Message
      <4>. QED BY <3>2, <4>1, WriteType DEF Write
    <3>. QED BY <1>3, <3>1, <3>2 DEF request
  <2>. QED BY <2>1, <2>2, <2>3, <2>4, <2>5, <2>6 DEF TypeOK
<1>4. ASSUME NEW k \in Calls, sendResponse(k) PROVE TypeOK'
  <2> DEFINE m == [kind |-> "reply", id |-> 0]
  <2>1. /\ call' \in [Calls -> CallStates]
        /\ sentTo' \in [Calls -> 0..MaxChildren]
    <3>1. \/ call' = [call EXCEPT ![k] = "rejected"] /\ UNCHANGED sentTo
          \/ call' = [call EXCEPT ![k] = "resolved"] /\ sentTo' = [sentTo EXCEPT ![k] = child]
      BY <1>4 DEF sendResponse
    <3>2. /\ call \in [Calls -> CallStates] /\ sentTo \in [Calls -> 0..MaxChildren]
          /\ child \in 0..MaxChildren
      BY DEF TypeOK
    <3>3. "rejected" \in CallStates /\ "resolved" \in CallStates
      BY DEF CallStates
    <3>. QED BY <3>1, <3>2, <3>3
  <2>2. stdin' \in [Children -> Seq(Message)]
    <3>1. CASE UNCHANGED stdin
      BY <3>1 DEF TypeOK
    <3>2. CASE CanWrite /\ Write("reply", 0)
      <4>1. child \in Children /\ m \in Message
        BY <3>2 DEF TypeOK, CanWrite, Message
      <4>. QED BY <3>2, <4>1, WriteType DEF Write
    <3>. QED BY <1>4, <3>1, <3>2 DEF sendResponse
  <2>3. UNCHANGED <<clientVars, chunk, awaited, idOf, result, spawned, proc,
                    initId, answered, stdout>>
    BY <1>4 DEF sendResponse
  <2>. QED BY <2>1, <2>2, <2>3 DEF TypeOK, clientVars
<1>5. ASSUME NEW c \in Children, handleEnvelope(c) PROVE TypeOK'
  <2> DEFINE line == Head(stdout[c])
  <2> DEFINE SettledTypes ==
               /\ startPromise' \in 0..MaxChildren
               /\ call' \in [Calls -> CallStates]
               /\ result' \in [Calls -> 0..MaxChildren]
               /\ stdin' \in [Children -> Seq(Message)]
  <2>1. stdout[c] \in Seq(Line) /\ stdout[c] # <<>>
    BY <1>5 DEF TypeOK, handleEnvelope
  <2>2. Tail(stdout[c]) \in Seq(Line)
    BY <2>1
  <2>3. stdout' \in [Children -> Seq(Line)]
    BY <1>5, <2>2 DEF TypeOK, handleEnvelope
  <2>4. chunk' \in {0, c} /\ pending' \subseteq pending
    BY <1>5 DEF handleEnvelope
  <2>5. SettledTypes
    <3>1. CASE UNCHANGED <<startPromise, call, result, stdin>>
      BY <3>1 DEF TypeOK
    <3>2. ASSUME NEW k \in Requests, settleRequest(c, k, line.outcome)
          PROVE  SettledTypes
      <4>1. /\ UNCHANGED <<startPromise, stdin>>
            /\ \/ call' = [call EXCEPT ![k] = "resolved"]
               \/ call' = [call EXCEPT ![k] = "rejected"]
            /\ \/ result' = [result EXCEPT ![k] = c]
               \/ result' = result
        BY <3>2 DEF TypeOK, settleRequest
      <4>2. call \in [Calls -> CallStates] /\ result \in [Calls -> 0..MaxChildren]
        BY DEF TypeOK
      <4>3. call' \in [Calls -> CallStates]
        BY <4>1, <4>2
      <4>4. result' \in [Calls -> 0..MaxChildren]
        BY <4>1, <4>2
      <4>. QED BY <4>1, <4>3, <4>4 DEF TypeOK
    <3>3. ASSUME NEW d \in Children, settleStart(d, line.outcome)
          PROVE  SettledTypes
      <4> DEFINE m == [kind |-> "initialized", id |-> 0]
      <4>1. CASE UNCHANGED stdin
        BY <3>3, <4>1 DEF TypeOK, settleStart
      <4>2. CASE CanWrite /\ Write("initialized", 0)
        <5>1. child \in Children /\ m \in Message
          BY <4>2 DEF TypeOK, CanWrite, Message
        <5>2. stdin' \in [Children -> Seq(Message)]
          BY <4>2, <5>1, WriteType DEF Write
        <5>. QED BY <3>3, <5>2 DEF TypeOK, settleStart
      <4>. QED BY <3>3, <4>1, <4>2 DEF settleStart
    <3>. QED BY <1>5, <3>1, <3>2, <3>3 DEF handleEnvelope
  <2>6. UNCHANGED <<child, nextRequestId, awaited, idOf, sentTo, spawned, proc,
                    initId, answered>>
    BY <1>5 DEF handleEnvelope
  <2>7. chunk' \in 0..MaxChildren /\ pending' \subseteq Nat \ {0}
    BY <2>4 DEF TypeOK
  <2>. QED BY <2>3, <2>5, <2>6, <2>7 DEF TypeOK
<1>6. ASSUME NEW c \in Children, InvalidLine(c) PROVE TypeOK'
  <2>1. \A n \in 0..Len(stdout[c]) : SubSeq(stdout[c], n + 1, Len(stdout[c])) \in Seq(Line)
    BY DEF TypeOK
  <2>2. stdout' \in [Children -> Seq(Line)]
    BY <1>6, <2>1, SMTT(30) DEF TypeOK, InvalidLine
  <2>3. chunk' = 0 /\ resetProcess
    BY <1>6 DEF InvalidLine
  <2>4. UNCHANGED <<nextRequestId, awaited, idOf, sentTo, result, spawned,
                    initId, stdin, answered>>
    BY <1>6 DEF InvalidLine
  <2>5. /\ child' \in 0..MaxChildren /\ startPromise' \in 0..MaxChildren
        /\ pending' \subseteq Nat \ {0}
        /\ proc' \in [Children -> ProcStates]
        /\ call' \in [Calls -> CallStates]
    BY <2>3, ResetTypes
  <2>6. chunk' \in 0..MaxChildren
    BY <2>3
  <2>. QED BY <2>2, <2>4, <2>5, <2>6 DEF TypeOK
<1>7. ASSUME NEW c \in Children, exitEvent(c) PROVE TypeOK'
  <2>1. proc' \in [Children -> ProcStates]
    BY <1>7 DEF TypeOK, exitEvent, Kill
  <2>2. call' \in [Calls -> CallStates]
    BY <1>7 DEF TypeOK, exitEvent, rejectAllPending
  <2>3. /\ child' = 0 /\ startPromise' = 0 /\ pending' = {}
        /\ UNCHANGED <<nextRequestId, chunk, awaited, idOf, sentTo, result,
                       spawned, initId, stdin, answered, stdout>>
    BY <1>7 DEF exitEvent, rejectAllPending
  <2>. QED BY <2>1, <2>2, <2>3 DEF TypeOK
<1>8. ASSUME initializeTimeout PROVE TypeOK'
  BY <1>8, ResetTypes DEF TypeOK, initializeTimeout
<1>9. ASSUME close PROVE TypeOK'
  BY <1>9, ResetTypes DEF TypeOK, close
<1>10. ASSUME NEW c \in Children, NEW i \in 1..(nextRequestId - 1),
              NEW outcome \in Outcomes, Answer(c, i, outcome)
       PROVE TypeOK'
  <2>1. [id |-> i, outcome |-> outcome] \in Line
    BY DEF Line, TypeOK
  <2>2. stdout' \in [Children -> Seq(Line)]
    BY <1>10, <2>1 DEF TypeOK, Answer
  <2>3. answered' \in [Children -> SUBSET Nat]
    <3>1. answered' = [answered EXCEPT ![c] = @ \cup {i}]
      BY <1>10 DEF Answer
    <3>. QED BY <3>1 DEF TypeOK
  <2>. QED BY <1>10, <2>2, <2>3 DEF TypeOK, Answer, clientVars, callVars
<1>11. ASSUME NEW c \in Children, Exit(c) PROVE TypeOK'
  BY <1>11 DEF TypeOK, Exit, clientVars, callVars
<1>12. CASE UNCHANGED vars
  BY <1>12 DEF TypeOK, vars, clientVars, callVars, procVars
<1>. QED
  BY <1>1, <1>2, <1>3, <1>4, <1>5, <1>6, <1>7, <1>8, <1>9, <1>10, <1>11, <1>12
     DEF Next, Client, Process

\* Every variable of the client keeps its type.
THEOREM TypeCorrect == Spec => []TypeOK
<1>1. Init => TypeOK
  BY ClientAssumption DEF Init, TypeOK
<1>. QED BY <1>1, TypeStep, PTL DEF Spec

-------------------------------------------------------------------------------
(***************************************************************************)
(* The safety properties are not inductive by themselves: that a reset     *)
(* settles every waiting call needs to know that all of them, and the      *)
(* start they may be waiting for, belong to the current child, and that    *)
(* an id has one owner.                                                    *)
(***************************************************************************)

\* Ids are handed out once: each belongs to one request or to one initialize.
IdsUnique ==
  /\ \A k \in Calls : idOf[k] < nextRequestId
  /\ \A c \in Children : initId[c] < nextRequestId
  /\ \A k, l \in Calls : idOf[k] = idOf[l] => k = l \/ idOf[k] = 0
  /\ \A c, d \in Children : initId[c] = initId[d] => c = d \/ initId[c] = 0
  /\ \A k \in Calls, c \in Children : idOf[k] = initId[c] => idOf[k] = 0

\* Children are numbered from 1 as they are spawned.
SpawnOrder ==
  /\ child <= spawned
  /\ \A c \in Children : /\ c <= spawned => initId[c] # 0
                         /\ c > spawned => initId[c] = 0 /\ proc[c] = "unborn"

\* A call that can still be settled by the pending map is one of the current
\* child, and a call has an id from the moment it is written.
CallsOnCurrentChild ==
  /\ \A k \in Calls : call[k] \in {"idle", "starting", "ready"} => idOf[k] = 0
  /\ \A k \in Calls : call[k] = "waiting" =>
       idOf[k] # 0 /\ idOf[k] \in pending /\ child # 0 /\ sentTo[k] = child
  /\ \A k \in Calls : call[k] = "starting" =>
       startPromise # 0 /\ awaited[k] = startPromise
  /\ startPromise # 0 => startPromise = child /\ initId[child] \in pending

\* Every entry of the pending map is the initialize of the current child or a
\* request that waits on it.
PendingOwned ==
  \A i \in pending :
    /\ child # 0
    /\ \/ initId[child] = i
       \/ \E k \in Requests : call[k] = "waiting" /\ idOf[k] = i

IInv ==
  /\ TypeOK
  /\ IdsUnique
  /\ SpawnOrder
  /\ CallsOnCurrentChild
  /\ PendingOwned
  /\ NoLeakedProcess

\* The part of IInv about the current child after resetProcess(), and after the
\* same clearing in exitEvent().
LEMMA ResetInv ==
  ASSUME IInv, child' = 0, startPromise' = 0, rejectAllPending,
         UNCHANGED <<nextRequestId, awaited, idOf, sentTo, spawned, initId>>
  PROVE  IdsUnique' /\ CallsOnCurrentChild' /\ PendingOwned'
<1>1. IdsUnique'
  BY DEF IInv, IdsUnique
<1>2. PendingOwned'
  BY DEF rejectAllPending, PendingOwned
<1>3. \A k \in Calls : call'[k] \notin {"waiting", "starting"}
  <2> SUFFICES ASSUME NEW k \in Calls PROVE call'[k] \notin {"waiting", "starting"}
    OBVIOUS
  <2>1. call'[k] = IF Rejected(k) THEN "rejected" ELSE call[k]
    BY DEF rejectAllPending
  <2>2. call[k] = "waiting" => Rejected(k)
    BY DEF IInv, CallsOnCurrentChild, Rejected
  <2>3. call[k] = "starting" => Rejected(k)
    BY DEF IInv, CallsOnCurrentChild, Rejected
  <2>. QED BY <2>1, <2>2, <2>3
<1>4. \A k \in Calls : call'[k] \in {"idle", "ready"} => call[k] = call'[k]
  BY DEF rejectAllPending
<1>5. CallsOnCurrentChild'
  BY <1>3, <1>4 DEF IInv, CallsOnCurrentChild
<1>. QED BY <1>1, <1>2, <1>5

\* After resetProcess() the old child is dead, and so are all the others.
LEMMA ResetProc ==
  ASSUME IInv, resetProcess, UNCHANGED <<spawned, initId>>
  PROVE  SpawnOrder' /\ NoLeakedProcess'
<1>1. \A c \in Children : proc'[c] = IF c = child THEN Kill(proc[c]) ELSE proc[c]
  BY DEF resetProcess
<1>2. \A c \in Children : proc'[c] # "running"
  BY <1>1 DEF IInv, NoLeakedProcess, Kill
<1>3. \A c \in Children : proc[c] = "unborn" => proc'[c] = "unborn"
  BY <1>1 DEF Kill
<1>4. child' = 0 /\ spawned \in Nat
  BY ClientAssumption DEF resetProcess, IInv, TypeOK
<1>. QED BY <1>2, <1>3, <1>4 DEF IInv, SpawnOrder, NoLeakedProcess

\* The numbers the ids range over.
LEMMA IdTypes ==
  ASSUME IInv
  PROVE  /\ nextRequestId \in Nat \ {0}
         /\ \A k \in Calls : idOf[k] \in Nat
         /\ \A c \in Children : initId[c] \in Nat
BY DEF IInv, TypeOK

\* IInv is inductive.
LEMMA InvStep == IInv /\ [Next]_vars => IInv'
<1> SUFFICES ASSUME IInv, [Next]_vars PROVE IInv'
  OBVIOUS
<1>0. TypeOK /\ TypeOK'
  BY TypeStep DEF IInv
<1> DEFINE Rest == IdsUnique /\ SpawnOrder /\ CallsOnCurrentChild /\ PendingOwned
                   /\ NoLeakedProcess
<1>1. ASSUME NEW k \in Calls, ensureStarted(k) PROVE Rest'
  <2>1. CASE child # 0
    <3>1. call' = [call EXCEPT ![k] = "ready"] /\ call[k] = "idle"
          /\ UNCHANGED <<clientVars, awaited, spawned, proc, initId, idOf, sentTo>>
      BY <1>1, <2>1 DEF ensureStarted
    <3>. QED BY <1>0, <3>1 DEF IInv, TypeOK, IdsUnique, SpawnOrder, clientVars,
                               CallsOnCurrentChild, PendingOwned, NoLeakedProcess
  <2>2. CASE child = 0
    <3> DEFINE c == spawned + 1
    <3>1. startPromise = 0
      BY <2>2 DEF IInv, CallsOnCurrentChild
    <3>2. /\ spawnChild(k) /\ call[k] = "idle"
          /\ UNCHANGED <<idOf, sentTo>>
      BY <1>1, <2>2, <3>1 DEF ensureStarted
    <3>3. /\ c \in Children /\ spawned' = c /\ child' = c /\ startPromise' = c
          /\ proc' = [proc EXCEPT ![c] = "running"]
          /\ initId' = [initId EXCEPT ![c] = nextRequestId]
          /\ nextRequestId' = nextRequestId + 1
          /\ pending' = pending \cup {nextRequestId}
          /\ call' = [call EXCEPT ![k] = "starting"]
          /\ awaited' = [awaited EXCEPT ![k] = c]
      BY <3>2 DEF spawnChild, spawnWith
    <3>4. pending = {}
      BY <2>2 DEF IInv, PendingOwned
    <3>5. \A l \in Calls : call[l] \notin {"waiting", "starting"}
      BY <2>2, <3>1 DEF IInv, CallsOnCurrentChild
    <3>6. IdsUnique'
      <4>1. \A d \in Children : initId'[d] = IF d = c THEN nextRequestId ELSE initId[d]
        BY <1>0, <3>3 DEF TypeOK
      <4>. QED BY <3>2, <3>3, <4>1, IdTypes DEF IInv, IdsUnique
    <3>7. SpawnOrder'
      <4>0. SpawnOrder
        BY DEF IInv
      <4>1. spawned \in Nat /\ spawned' = spawned + 1 /\ child' = spawned'
        BY <1>0, <3>3, ClientAssumption DEF TypeOK
      <4>2. ASSUME NEW d \in Children
            PROVE  /\ d <= spawned' => initId'[d] # 0
                   /\ d > spawned' => initId'[d] = 0 /\ proc'[d] = "unborn"
        <5>1. d \in Nat
          BY ClientAssumption
        <5>2. CASE d = spawned'
          <6>1. initId'[d] = nextRequestId
            BY <1>0, <3>3, <5>2 DEF TypeOK
          <6>. QED BY <1>0, <4>1, <5>1, <5>2, <6>1 DEF TypeOK
        <5>3. CASE d # spawned'
          <6>1. initId'[d] = initId[d] /\ proc'[d] = proc[d]
            BY <1>0, <3>3, <5>3 DEF TypeOK
          <6>2. /\ d <= spawned' => d <= spawned
                /\ d > spawned' => d > spawned
            BY <4>1, <5>1, <5>3
          <6>. QED BY <4>0, <6>1, <6>2 DEF SpawnOrder
        <5>. QED BY <5>2, <5>3
      <4>. QED BY <4>1, <4>2 DEF SpawnOrder
    <3>8. CallsOnCurrentChild'
      BY <1>0, <3>2, <3>3, <3>5 DEF IInv, TypeOK, CallsOnCurrentChild
    <3>9. PendingOwned' /\ NoLeakedProcess'
      BY <1>0, <2>2, <3>3, <3>4 DEF IInv, TypeOK, PendingOwned, NoLeakedProcess
    <3>. QED BY <3>6, <3>7, <3>8, <3>9
  <2>. QED BY <2>1, <2>2
<1>2. ASSUME NEW k \in Calls, request(k) PROVE Rest'
  <2>1. /\ k \in Requests /\ call[k] = "ready"
        /\ nextRequestId' = nextRequestId + 1
        /\ idOf' = [idOf EXCEPT ![k] = nextRequestId]
        /\ UNCHANGED <<child, startPromise, awaited, spawned, proc, initId>>
    BY <1>2 DEF request
  <2>2. IdsUnique'
    <3>1. \A l \in Calls : idOf'[l] = IF l = k THEN nextRequestId ELSE idOf[l]
      BY <1>0, <2>1 DEF TypeOK
    <3>. QED BY <2>1, <3>1, IdTypes DEF IInv, IdsUnique
  <2>5. SpawnOrder' /\ NoLeakedProcess'
    BY <2>1 DEF IInv, SpawnOrder, NoLeakedProcess
  <2>3. CASE call' = [call EXCEPT ![k] = "rejected"] /\ UNCHANGED <<pending, sentTo>>
    <3>1. CallsOnCurrentChild'
      BY <1>0, <2>1, <2>3 DEF IInv, TypeOK, CallsOnCurrentChild
    <3>2. PendingOwned'
      BY <1>0, <2>1, <2>3 DEF IInv, TypeOK, PendingOwned
    <3>. QED BY <2>2, <2>5, <3>1, <3>2
  <2>4. CASE /\ child # 0 /\ call' = [call EXCEPT ![k] = "waiting"]
             /\ pending' = pending \cup {nextRequestId}
             /\ sentTo' = [sentTo EXCEPT ![k] = child]
    <3>1. CallsOnCurrentChild'
      BY <1>0, <2>1, <2>4 DEF IInv, TypeOK, CallsOnCurrentChild
    <3>2. PendingOwned'
      BY <1>0, <2>1, <2>4 DEF IInv, TypeOK, PendingOwned
    <3>. QED BY <2>2, <2>5, <3>1, <3>2
  <2>. QED BY <1>2, <2>3, <2>4 DEF request, CanWrite
<1>3. ASSUME NEW k \in Calls, sendResponse(k) PROVE Rest'
  <2>1. /\ call[k] = "ready" /\ call' \in {[call EXCEPT ![k] = "rejected"],
                                          [call EXCEPT ![k] = "resolved"]}
        /\ \A l \in Calls : l # k => sentTo'[l] = sentTo[l]
        /\ UNCHANGED <<clientVars, awaited, idOf, spawned, proc, initId>>
    BY <1>0, <1>3 DEF sendResponse, TypeOK
  <2>2. IdsUnique' /\ SpawnOrder' /\ NoLeakedProcess'
    BY <2>1 DEF IInv, IdsUnique, SpawnOrder, NoLeakedProcess, clientVars
  <2>3. CallsOnCurrentChild'
    BY <1>0, <2>1, SMTT(30) DEF IInv, TypeOK, CallsOnCurrentChild, clientVars
  <2>4. PendingOwned'
    BY <1>0, <2>1 DEF IInv, TypeOK, PendingOwned, clientVars
  <2>. QED BY <2>2, <2>3, <2>4
<1>4. ASSUME NEW c \in Children, handleEnvelope(c) PROVE Rest'
  <2> DEFINE line == Head(stdout[c])
             i == line.id
  <2>1. /\ pending' = pending \ {i}
        /\ UNCHANGED <<child, nextRequestId, awaited, idOf, sentTo, spawned, proc,
                       initId>>
    BY <1>4 DEF handleEnvelope
  <2>2. IdsUnique' /\ SpawnOrder' /\ NoLeakedProcess'
    BY <2>1 DEF IInv, IdsUnique, SpawnOrder, NoLeakedProcess
  <2>3. CASE i \notin pending /\ UNCHANGED <<startPromise, call>>
    <3>1. pending' = pending
      BY <2>1, <2>3
    <3>. QED BY <2>1, <2>2, <2>3, <3>1 DEF IInv, CallsOnCurrentChild, PendingOwned
  <2>4. ASSUME NEW k \in Requests, i \in pending, idOf[k] = i,
               settleRequest(c, k, line.outcome)
        PROVE  Rest'
    <3> HIDE DEF line
    <3>1. /\ call' \in {[call EXCEPT ![k] = "resolved"], [call EXCEPT ![k] = "rejected"]}
          /\ startPromise' = startPromise
      BY <2>4 DEF settleRequest
    <3>2. i # 0 /\ i # initId[child]
      <4>1. i # 0
        BY <1>0, <2>4 DEF TypeOK
      <4>2. child \in Children
        <5>1. child # 0
          BY <2>4 DEF IInv, PendingOwned
        <5>. QED BY <1>0, <5>1 DEF TypeOK
      <4>. QED BY <2>4, <4>1, <4>2 DEF IInv, IdsUnique
    <3>3. \A l \in Calls : l # k /\ idOf[l] # 0 => idOf[l] # i
      BY <2>4 DEF IInv, IdsUnique
    <3>4. CallsOnCurrentChild'
      BY <1>0, <2>1, <3>1, <3>2, <3>3 DEF IInv, TypeOK, CallsOnCurrentChild
    <3>5. PendingOwned'
      <4>1. \A l \in Calls : l # k => call'[l] = call[l]
        BY <1>0, <3>1 DEF TypeOK
      <4>2. \A n \in pending' : n \in pending /\ n # idOf[k]
        BY <2>1, <2>4
      <4>. QED BY <2>1, <4>1, <4>2 DEF IInv, PendingOwned
    <3>. QED BY <2>2, <3>4, <3>5
  <2>5. ASSUME NEW d \in Children, i \in pending, initId[d] = i,
               settleStart(d, line.outcome)
        PROVE  Rest'
    <3> HIDE DEF line
    <3>1. i # 0
      BY <1>0, <2>5 DEF TypeOK
    <3>2. child \in Children /\ d = child
      <4>1. child # 0 /\ \/ initId[child] = i
                          \/ \E k \in Requests : idOf[k] = i
        BY <2>5 DEF IInv, PendingOwned
      <4>2. child \in Children
        BY <1>0, <4>1 DEF TypeOK
      <4>. QED BY <2>5, <3>1, <4>1, <4>2 DEF IInv, IdsUnique
    <3>3. /\ startPromise' = 0
          /\ \A k \in Calls : \/ call'[k] = call[k] /\ ~(call[k] = "starting" /\ awaited[k] = d)
                              \/ call[k] = "starting" /\ call'[k] \in {"ready", "rejected"}
      BY <2>5 DEF settleStart
    <3>4. \A k \in Calls : call'[k] # "starting"
      BY <3>2, <3>3 DEF IInv, CallsOnCurrentChild
    <3>5. \A k \in Calls : call'[k] = "waiting" => call[k] = "waiting" /\ idOf[k] # i
      BY <2>5, <3>1, <3>3 DEF IInv, IdsUnique
    <3>6. CallsOnCurrentChild'
      BY <2>1, <3>3, <3>4, <3>5 DEF IInv, CallsOnCurrentChild
    <3>7. PendingOwned'
      BY <2>1, <3>2, <3>3 DEF IInv, PendingOwned
    <3>. QED BY <2>2, <3>6, <3>7
  <2>. QED BY <1>4, <2>3, <2>4, <2>5 DEF handleEnvelope
<1>5. ASSUME NEW c \in Children, InvalidLine(c) PROVE Rest'
  BY <1>5, ResetInv, ResetProc DEF InvalidLine, resetProcess
<1>6. ASSUME NEW c \in Children, exitEvent(c) PROVE Rest'
  <2>1. /\ child' = 0 /\ startPromise' = 0 /\ rejectAllPending
        /\ UNCHANGED <<nextRequestId, awaited, idOf, sentTo, spawned, initId>>
        /\ proc[c] = "exited"
    BY <1>6 DEF exitEvent
  <2>2. \A d \in Children : proc'[d] = IF d = c THEN "gone"
                                       ELSE IF d = child THEN Kill(proc[d]) ELSE proc[d]
    BY <1>6 DEF exitEvent
  <2>3. NoLeakedProcess'
    BY <2>2 DEF IInv, NoLeakedProcess, Kill
  <2>4. \A d \in Children : proc[d] = "unborn" => proc'[d] = "unborn"
    BY <2>1, <2>2 DEF Kill
  <2>5. SpawnOrder'
    BY <1>0, <2>1, <2>4 DEF IInv, SpawnOrder, TypeOK
  <2>. QED BY <2>1, <2>3, <2>5, ResetInv
<1>7. ASSUME initializeTimeout PROVE Rest'
  BY <1>7, ResetInv, ResetProc DEF initializeTimeout, resetProcess
<1>8. ASSUME NEW k \in Calls, requestTimeout(k) PROVE Rest'
  <2>1. /\ call[k] = "waiting" /\ pending' = pending \ {idOf[k]}
        /\ call' = [call EXCEPT ![k] = "rejected"]
        /\ UNCHANGED <<child, startPromise, nextRequestId, awaited, idOf, sentTo,
                       spawned, proc, initId>>
    BY <1>8 DEF requestTimeout, procVars
  <2>2. IdsUnique' /\ SpawnOrder' /\ NoLeakedProcess'
    BY <2>1 DEF IInv, IdsUnique, SpawnOrder, NoLeakedProcess
  <2>3. idOf[k] # 0 /\ child \in Children /\ idOf[k] # initId[child]
    BY <1>0, <2>1 DEF IInv, TypeOK, CallsOnCurrentChild, IdsUnique
  <2>4. \A l \in Calls : l # k /\ idOf[l] # 0 => idOf[l] # idOf[k]
    BY <2>1 DEF IInv, IdsUnique
  <2>5. CallsOnCurrentChild'
    BY <1>0, <2>1, <2>3, <2>4 DEF IInv, TypeOK, CallsOnCurrentChild
  <2>6. PendingOwned'
    BY <1>0, <2>1, <2>4 DEF IInv, TypeOK, PendingOwned
  <2>. QED BY <2>2, <2>5, <2>6
<1>9. ASSUME close PROVE Rest'
  BY <1>9, ResetInv, ResetProc DEF close, resetProcess
<1>10. ASSUME NEW c \in Children, NEW i \in 1..(nextRequestId - 1),
              NEW outcome \in Outcomes, Answer(c, i, outcome)
       PROVE  Rest'
  BY <1>10 DEF Answer, clientVars, callVars, IInv, IdsUnique, SpawnOrder,
               CallsOnCurrentChild, PendingOwned, NoLeakedProcess
<1>11. ASSUME NEW c \in Children, Exit(c) PROVE Rest'
  <2>1. /\ proc[c] # "unborn" /\ proc' = [proc EXCEPT ![c] = "exited"]
        /\ UNCHANGED <<clientVars, callVars, spawned, initId>>
    BY <1>11 DEF Exit
  <2>2. SpawnOrder' /\ NoLeakedProcess'
    BY <1>0, <2>1 DEF clientVars, IInv, TypeOK, SpawnOrder, NoLeakedProcess
  <2>. QED BY <2>1, <2>2 DEF clientVars, callVars, IInv, IdsUnique,
                            CallsOnCurrentChild, PendingOwned
<1>12. ASSUME UNCHANGED vars PROVE Rest'
  <2>1. UNCHANGED <<child, startPromise, nextRequestId, pending, call, awaited, idOf,
                    sentTo, spawned, proc, initId>>
    BY <1>12 DEF vars, clientVars, callVars, procVars
  <2>2. IdsUnique' /\ SpawnOrder' /\ NoLeakedProcess'
    BY <2>1 DEF IInv, IdsUnique, SpawnOrder, NoLeakedProcess
  <2>3. CallsOnCurrentChild' /\ PendingOwned'
    BY <2>1 DEF IInv, CallsOnCurrentChild, PendingOwned
  <2>. QED BY <2>2, <2>3
<1> HIDE DEF Rest
<1>13. Rest'
  BY <1>1, <1>2, <1>3, <1>4, <1>5, <1>6, <1>7, <1>8, <1>9, <1>10, <1>11, <1>12
     DEF Next, Client, Process
<1>. QED BY <1>0, <1>13 DEF IInv, Rest

\* The invariant that the safety theorems rest on.
LEMMA Invariance == Spec => []IInv
<1>1. Init => IInv
  <2> SUFFICES ASSUME Init PROVE IInv
    OBVIOUS
  <2>1. TypeOK
    BY ClientAssumption DEF Init, TypeOK
  <2>. QED BY <2>1, ClientAssumption DEF Init, IInv, IdsUnique, SpawnOrder,
                CallsOnCurrentChild, PendingOwned, NoLeakedProcess
<1>. QED BY <1>1, InvStep, PTL DEF Spec

\* However often the child is replaced, at most the current one still runs.
THEOREM NoLeak == Spec => []NoLeakedProcess
<1>1. IInv => NoLeakedProcess
  BY DEF IInv
<1>. QED BY <1>1, Invariance, PTL

\* The pending map only ever speaks of the current child.
THEOREM PendingCurrent == Spec => []PendingIsOnCurrentChild
<1>1. IInv => PendingIsOnCurrentChild
  BY DEF IInv, PendingOwned, CallsOnCurrentChild, PendingIsOnCurrentChild
<1>. QED BY <1>1, Invariance, PTL

\* No waiting call is ever left without an entry that settles it.
THEOREM NotAbandoned == Spec => []NoAbandonedCall
<1>1. IInv => NoAbandonedCall
  BY DEF IInv, CallsOnCurrentChild, NoAbandonedCall
<1>. QED BY <1>1, Invariance, PTL

-------------------------------------------------------------------------------
(***************************************************************************)
(* Where an answer comes from.  That a request is fulfilled by its own     *)
(* process needs the whole way of its id: into the stdin of that process,  *)
(* back as one of the ids it answered, and from there to a line of stdout. *)
(***************************************************************************)

\* Child c has been sent the message with id i: its initialize, or a request.
Owns(c, i) ==
  /\ i # 0
  /\ \/ initId[c] = i
     \/ \E k \in Requests : idOf[k] = i /\ sentTo[k] = c

\* What is in the stdin of a child: initialize first, and then requests that
\* were written to it, answers, and "initialized" once its start is over.
StdinOwn ==
  \A c \in Children :
    /\ c <= spawned => 1 \in 1..Len(stdin[c])
    /\ \A n \in 1..Len(stdin[c]) :
         /\ stdin[c][n].kind = "initialize" <=> n = 1
         /\ n = 1 => stdin[c][n].id = initId[c]
         /\ stdin[c][n].kind = "request" => Owns(c, stdin[c][n].id)
         /\ stdin[c][n].kind = "initialized" =>
              /\ initId[c] \in answered[c] /\ initId[c] \notin pending
              /\ \A m \in 1..Len(stdin[c]) :
                   stdin[c][m].kind = "initialized" => m = n

\* A child answers only what it was sent, and its lines are its answers.
AnswersOwn ==
  \A c \in Children :
    /\ \A i \in answered[c] : Owns(c, i)
    /\ \A n \in 1..Len(stdout[c]) : stdout[c][n].id \in answered[c]

\* A fulfilled request was answered by the child it was written to.
ResultOwn ==
  \A k \in Requests :
    /\ result[k] # 0 => result[k] = sentTo[k] /\ idOf[k] # 0
    /\ call[k] = "resolved" => sentTo[k] \in Children /\ idOf[k] \in answered[sentTo[k]]

Provenance == StdinOwn /\ AnswersOwn /\ ResultOwn

\* One message more.
LEMMA AppendFacts ==
  ASSUME NEW T, NEW s \in Seq(T), NEW m \in T
  PROVE  /\ Len(Append(s, m)) = Len(s) + 1
         /\ Append(s, m)[Len(s) + 1] = m
         /\ \A n \in 1..Len(s) : Append(s, m)[n] = s[n]
OBVIOUS

\* A step that writes nothing and is no answer keeps the provenance, though it
\* may shorten stdout and the pending map and settle calls.
LEMMA QuietStep ==
  ASSUME IInv, Provenance,
         UNCHANGED <<spawned, stdin, initId, idOf, sentTo, answered, result>>,
         pending' \subseteq pending,
         \A c \in Children : \A n \in 1..Len(stdout'[c]) : stdout'[c][n].id \in answered[c],
         \A k \in Requests : call'[k] = "resolved" => call[k] = "resolved"
  PROVE  Provenance'
<1>1. \A c \in Children : \A i : Owns(c, i) => Owns(c, i)'
  BY DEF Owns
<1>2. StdinOwn'
  BY <1>1 DEF Provenance, StdinOwn
<1>3. AnswersOwn'
  BY <1>1 DEF Provenance, AnswersOwn
<1>4. ResultOwn'
  BY DEF Provenance, ResultOwn
<1>. QED BY <1>2, <1>3, <1>4 DEF Provenance

\* One message more in the stdin of the current child, where that message is
\* in order and nothing else about provenance changes.
LEMMA WriteStep ==
  ASSUME IInv, Provenance, NEW kind \in {"request", "reply", "initialized"},
         NEW i \in Nat, CanWrite, Write(kind, i),
         UNCHANGED <<spawned, initId, answered>>,
         kind = "request" => Owns(child, i)',
         kind = "initialized" => /\ initId[child] \in pending /\ initId[child] \in answered[child]
                                 /\ initId[child] \notin pending',
         \A c \in Children : \A j : Owns(c, j) => Owns(c, j)',
         \A c \in Children : initId[c] \in pending' => initId[c] \in pending,
         child' = child
  PROVE  StdinOwn'
<1> DEFINE m == [kind |-> kind, id |-> i]
<1>1. child \in Children /\ stdin \in [Children -> Seq(Message)] /\ m \in Message
  BY DEF IInv, TypeOK, CanWrite, Message
<1> DEFINE s == stdin[child]
           t == stdin'[child]
           N == Len(s)
<1>2. t = Append(s, m) /\ s \in Seq(Message) /\ \A c \in Children : c # child => stdin'[c] = stdin[c]
  BY <1>1 DEF Write
<1>3. /\ N \in Nat /\ Len(t) = N + 1 /\ t[N + 1] = m
      /\ \A n \in 1..N : t[n] = s[n]
  BY <1>1, <1>2, AppendFacts
<1>4. N > 0
  BY <1>1, <1>3, ClientAssumption DEF IInv, SpawnOrder, Provenance, StdinOwn
<1>5. ASSUME NEW c \in Children, c # child
      PROVE  StdinOwn!(c)'
  BY <1>2, <1>5 DEF Provenance, StdinOwn
<1>6. ASSUME NEW c \in Children, c = child
      PROVE  StdinOwn!(c)'
  <2>0. /\ initId'[c] = initId[c] /\ answered'[c] = answered[c]
        /\ initId[c] \in pending' => initId[c] \in pending
    BY <1>6
  <2>1. \A n \in 1..N :
          /\ t[n].kind = "initialize" <=> n = 1
          /\ n = 1 => t[n].id = initId[c]
          /\ t[n].kind = "request" => \E j : j = t[n].id /\ Owns(c, j)'
          /\ t[n].kind = "initialized" =>
               /\ kind # "initialized"
               /\ initId[c] \in answered[c] /\ initId[c] \notin pending'
               /\ \A l \in 1..N : t[l].kind = "initialized" => l = n
    <3>1. StdinOwn!(c) /\ s = stdin[c] /\ \A j : Owns(c, j) => Owns(c, j)'
      BY <1>6 DEF Provenance, StdinOwn
    <3>2. ASSUME NEW n \in 1..N
          PROVE  /\ s[n].kind = "initialize" <=> n = 1
                 /\ n = 1 => s[n].id = initId[c]
                 /\ s[n].kind = "request" => \E j : j = s[n].id /\ Owns(c, j)'
                 /\ s[n].kind = "initialized" =>
                      /\ kind # "initialized"
                      /\ initId[c] \in answered[c] /\ initId[c] \notin pending'
                      /\ \A l \in 1..N : s[l].kind = "initialized" => l = n
      BY <1>6, <2>0, <3>1
    <3> HIDE DEF N, s, t
    <3>. QED BY <1>3, <3>2
  <2>2. /\ t[N + 1].kind = kind /\ t[N + 1].id = i
        /\ kind # "initialize" /\ N + 1 # 1
    BY <1>3, <1>4
  <2>3. /\ kind = "request" => Owns(c, i)'
        /\ kind = "initialized" =>
             initId[c] \in answered[c] /\ initId[c] \notin pending'
    BY <1>6
  <2>4. 1..Len(t) = 1..N \cup {N + 1} /\ 1 \in 1..N
    BY <1>3, <1>4
  <2>5. stdin'[c] = t
    BY <1>6
  <2> HIDE DEF N, t, s
  <2>. QED BY <2>0, <2>1, <2>2, <2>3, <2>4, <2>5
<1>. QED BY <1>5, <1>6 DEF StdinOwn

\* The pending map and the settled calls of a step that only rejects.
LEMMA RejectAll ==
  ASSUME rejectAllPending
  PROVE  /\ pending' \subseteq pending
         /\ \A k \in Calls : call'[k] = call[k] \/ call'[k] = "rejected"
BY DEF rejectAllPending

\* Every step keeps the provenance of answers.
LEMMA ProvenanceStep == IInv /\ Provenance /\ [Next]_vars => Provenance'
<1> SUFFICES ASSUME IInv, Provenance, [Next]_vars PROVE Provenance'
  OBVIOUS
<1>0. TypeOK /\ ClientAssumption
  BY ClientAssumption DEF IInv
<1>1. ASSUME NEW k \in Calls, ensureStarted(k) PROVE Provenance'
  <2>1. CASE child # 0
    BY <1>0, <1>1, <2>1, QuietStep DEF ensureStarted, clientVars, TypeOK, Provenance, AnswersOwn
  <2>2. CASE child = 0
    <3> DEFINE c == spawned + 1
               m == [kind |-> "initialize", id |-> nextRequestId]
    <3>1. startPromise = 0
      BY <2>2 DEF IInv, CallsOnCurrentChild
    <3>2. /\ spawnChild(k)
          /\ UNCHANGED <<idOf, sentTo, result, answered, stdout>>
      BY <1>1, <2>2, <3>1 DEF ensureStarted
    <3>3. /\ c \in Children /\ spawned' = c
          /\ initId' = [initId EXCEPT ![c] = nextRequestId]
          /\ pending' = pending \cup {nextRequestId}
          /\ stdin' = [stdin EXCEPT ![c] = <<m>>]
          /\ call' = [call EXCEPT ![k] = "starting"]
      BY <3>2 DEF spawnChild, spawnWith
    <3>4. /\ initId[c] = 0 /\ nextRequestId \in Nat \ {0}
          /\ \A d \in Children : initId'[d] = IF d = c THEN nextRequestId ELSE initId[d]
      BY <1>0, <3>3, ClientAssumption DEF TypeOK, IInv, SpawnOrder
    <3>5. \A d \in Children : \A i : Owns(d, i) => Owns(d, i)'
      BY <3>2, <3>4 DEF Owns
    <3>6. StdinOwn'
      <4>1. ASSUME NEW d \in Children, d # c PROVE StdinOwn!(d)'
        <5>1. stdin'[d] = stdin[d] /\ initId'[d] = initId[d]
          BY <1>0, <3>3, <3>4, <4>1 DEF TypeOK
        <5>2. initId[d] # nextRequestId
          BY <1>0, IdTypes DEF IInv, IdsUnique
        <5>3. d <= spawned' => d <= spawned
          BY <1>0, <3>3, <4>1, ClientAssumption DEF TypeOK
        <5>. QED BY <3>2, <3>3, <3>5, <5>1, <5>2, <5>3 DEF Provenance, StdinOwn
      <4>2. ASSUME NEW d \in Children, d = c PROVE StdinOwn!(d)'
        <5>1. stdin'[d] = <<m>> /\ initId'[d] = nextRequestId
          BY <1>0, <3>3, <3>4, <4>2 DEF TypeOK
        <5>2. 1..Len(stdin'[d]) = {1} /\ stdin'[d][1].kind = "initialize"
              /\ stdin'[d][1].id = nextRequestId
          BY <5>1
        <5> HIDE DEF m, c
        <5>. QED BY <5>1, <5>2
      <4>. QED BY <4>1, <4>2, <3>3 DEF StdinOwn
    <3>7. AnswersOwn'
      BY <3>2, <3>5 DEF Provenance, AnswersOwn
    <3>8. ResultOwn'
      BY <1>0, <3>2, <3>3 DEF TypeOK, Provenance, ResultOwn
    <3>. QED BY <3>6, <3>7, <3>8 DEF Provenance
  <2>. QED BY <2>1, <2>2
<1>2. ASSUME NEW k \in Calls, request(k) PROVE Provenance'
  <2>1. /\ k \in Requests /\ call[k] = "ready" /\ idOf[k] = 0
        /\ idOf' = [idOf EXCEPT ![k] = nextRequestId]
        /\ nextRequestId \in Nat \ {0}
        /\ UNCHANGED <<child, result, spawned, initId, answered, stdout>>
    BY <1>2, <1>0 DEF request, IInv, CallsOnCurrentChild, TypeOK
  <2>2. \A l \in Calls : /\ l # k => idOf'[l] = idOf[l] /\ sentTo'[l] = sentTo[l]
                                       /\ call'[l] = call[l]
                         /\ l = k => idOf'[l] = nextRequestId /\ call'[l] # "resolved"
    BY <1>0, <1>2 DEF request, TypeOK
  <2>3. \A d \in Children : \A i : Owns(d, i) => Owns(d, i)'
    BY <2>1, <2>2 DEF Owns
  <2>4. StdinOwn'
    <3>1. CASE UNCHANGED <<stdin, pending>>
      BY <2>1, <2>3, <3>1 DEF Provenance, StdinOwn
    <3>2. CASE /\ CanWrite /\ Write("request", nextRequestId)
               /\ sentTo' = [sentTo EXCEPT ![k] = child]
               /\ pending' = pending \cup {nextRequestId}
      <4>0. PICK i \in Nat : i = nextRequestId
        BY <2>1
      <4>1. Owns(child, i)'
        <5>1. sentTo'[k] = child /\ idOf'[k] = i /\ i # 0
          BY <1>0, <2>1, <2>2, <3>2, <4>0 DEF TypeOK
        <5>. QED BY <2>1, <5>1 DEF Owns
      <4>2. \A c \in Children : initId[c] \in pending' => initId[c] \in pending
        BY <3>2, IdTypes DEF IInv, IdsUnique
      <4>. QED BY <2>1, <2>3, <3>2, <4>0, <4>1, <4>2, WriteStep
    <3>. QED BY <1>2, <3>1, <3>2 DEF request
  <2>5. AnswersOwn'
    BY <2>1, <2>3 DEF Provenance, AnswersOwn
  <2>6. ResultOwn'
    <3>1. result[k] = 0
      BY <2>1, <1>0 DEF Provenance, ResultOwn
    <3>. QED BY <2>1, <2>2, <3>1 DEF Provenance, ResultOwn
  <2>. QED BY <2>4, <2>5, <2>6 DEF Provenance
<1>3. ASSUME NEW k \in Calls, sendResponse(k) PROVE Provenance'
  <2>1. /\ k \notin Requests
        /\ UNCHANGED <<clientVars, idOf, result, spawned, initId, answered, stdout>>
        /\ \A l \in Requests : sentTo'[l] = sentTo[l] /\ call'[l] = call[l]
    BY <1>0, <1>3, ClientAssumption DEF sendResponse, TypeOK
  <2>2. \A d \in Children : \A i : Owns(d, i) => Owns(d, i)'
    BY <2>1 DEF Owns
  <2>3. StdinOwn'
    <3>1. CASE UNCHANGED stdin
      BY <2>1, <2>2, <3>1 DEF Provenance, StdinOwn, clientVars
    <3>2. CASE CanWrite /\ Write("reply", 0)
      BY <2>1, <2>2, <3>2, WriteStep DEF clientVars
    <3>. QED BY <1>3, <3>1, <3>2 DEF sendResponse
  <2>4. AnswersOwn' /\ ResultOwn'
    BY <2>1, <2>2 DEF Provenance, AnswersOwn, ResultOwn
  <2>. QED BY <2>3, <2>4 DEF Provenance
<1>4. ASSUME NEW c \in Children, handleEnvelope(c) PROVE Provenance'
  <2> DEFINE line == Head(stdout[c])
  <2>1. PICK i \in Nat : i = line.id
    <3>1. stdout[c] \in Seq(Line) /\ stdout[c] # <<>>
      BY <1>0, <1>4 DEF handleEnvelope, TypeOK
    <3>2. line \in Line
      BY <3>1
    <3>. QED BY <3>2 DEF Line
  <2>2. i \in answered[c] /\ Owns(c, i) /\ i # 0
    <3>1. stdout[c] \in Seq(Line) /\ stdout[c] # <<>>
      BY <1>0, <1>4 DEF handleEnvelope, TypeOK
    <3>2. 1 \in 1..Len(stdout[c]) /\ line = stdout[c][1]
      BY <3>1
    <3>3. i \in answered[c]
      BY <2>1, <3>2 DEF Provenance, AnswersOwn
    <3>. QED BY <3>3 DEF Provenance, AnswersOwn, Owns
  <2>3. /\ pending' = pending \ {i}
        /\ UNCHANGED <<child, spawned, idOf, sentTo, initId, answered>>
    BY <1>4, <2>1 DEF handleEnvelope
  <2>4. \A d \in Children : \A n \in 1..Len(stdout'[d]) : stdout'[d][n].id \in answered[d]
    <3>1. stdout[c] \in Seq(Line) /\ stdout[c] # <<>> /\ stdout \in [Children -> Seq(Line)]
      BY <1>0, <1>4 DEF handleEnvelope, TypeOK
    <3>2. stdout' = [stdout EXCEPT ![c] = Tail(@)]
      BY <1>4 DEF handleEnvelope
    <3>3. \A d \in Children : d # c => stdout'[d] = stdout[d]
      BY <3>1, <3>2
    <3>4. stdout'[c] = Tail(stdout[c])
      BY <3>1, <3>2
    <3>5. \A n \in 1..Len(stdout'[c]) : /\ n + 1 \in 1..Len(stdout[c])
                                        /\ stdout'[c][n] = stdout[c][n + 1]
      BY <3>1, <3>4
    <3>. QED BY <3>3, <3>5 DEF Provenance, AnswersOwn
  <2>5. \A d \in Children : \A j : Owns(d, j) => Owns(d, j)'
    BY <2>3 DEF Owns
  <2>6. AnswersOwn'
    BY <2>3, <2>4, <2>5 DEF Provenance, AnswersOwn
  <2>7. UNCHANGED stdin => StdinOwn'
    BY <2>3, <2>5 DEF Provenance, StdinOwn
  <2>8. CASE i \notin pending /\ UNCHANGED <<startPromise, call, result, stdin>>
    BY <2>3, <2>6, <2>7, <2>8 DEF Provenance, ResultOwn
  <2>9. ASSUME NEW k \in Requests, idOf[k] = i, settleRequest(c, k, line.outcome)
        PROVE  Provenance'
    <3>1. sentTo[k] = c
      BY <2>2, <2>9 DEF Owns, IInv, IdsUnique
    <3>2. /\ \A l \in Requests : l # k => call'[l] = call[l] /\ result'[l] = result[l]
          /\ result'[k] # 0 => result'[k] = c \/ result'[k] = result[k]
          /\ UNCHANGED stdin
      BY <1>0, <2>9 DEF settleRequest, TypeOK
    <3>3. ResultOwn'
      BY <2>2, <2>3, <2>9, <3>1, <3>2 DEF Provenance, ResultOwn
    <3>. QED BY <2>6, <2>7, <3>2, <3>3 DEF Provenance
  <2>10. ASSUME NEW d \in Children, i \in pending, initId[d] = i,
                settleStart(d, line.outcome)
         PROVE  Provenance'
    <3>1. d = c
      BY <2>2, <2>10 DEF Owns, IInv, IdsUnique
    <3>2. child = d
      <4>1. child # 0 /\ \/ initId[child] = i
                          \/ \E k \in Requests : idOf[k] = i
        BY <2>10 DEF IInv, PendingOwned
      <4>2. child \in Children
        BY <1>0, <4>1 DEF TypeOK
      <4>. QED BY <2>2, <2>10, <4>1, <4>2 DEF IInv, IdsUnique
    <3>3. StdinOwn'
      <4>1. CASE CanWrite /\ Write("initialized", 0)
        <5>1. /\ initId[child] \in pending /\ initId[child] \in answered[child]
              /\ initId[child] \notin pending'
          BY <2>2, <2>3, <2>10, <3>1, <3>2
        <5>2. \A e \in Children : initId[e] \in pending' => initId[e] \in pending
          BY <2>3
        <5>. QED BY <2>3, <2>5, <4>1, <5>1, <5>2, WriteStep
      <4>. QED BY <2>7, <2>10, <4>1 DEF settleStart
    <3>4. ResultOwn'
      <4>1. \A k \in Requests : call'[k] = "resolved" => call[k] = "resolved"
        BY <2>10 DEF settleStart
      <4>. QED BY <2>3, <2>10, <4>1 DEF settleStart, Provenance, ResultOwn
    <3>. QED BY <2>6, <3>3, <3>4 DEF Provenance
  <2>. QED BY <1>4, <2>1, <2>8, <2>9, <2>10 DEF handleEnvelope
<1>5. ASSUME NEW c \in Children, InvalidLine(c) PROVE Provenance'
  <2>1. rejectAllPending
    BY <1>5 DEF InvalidLine, resetProcess
  <2>2. \A d \in Children : \A n \in 1..Len(stdout'[d]) : stdout'[d][n].id \in answered[d]
    <3>1. PICK n \in 0..Len(stdout[c]) :
            stdout' = [stdout EXCEPT ![c] = SubSeq(@, n + 1, Len(@))]
      BY <1>5 DEF InvalidLine
    <3>2. stdout \in [Children -> Seq(Line)]
      BY <1>0 DEF TypeOK
    <3>3. \A d \in Children : d # c => stdout'[d] = stdout[d]
      BY <3>1, <3>2
    <3>4. /\ stdout'[c] = SubSeq(stdout[c], n + 1, Len(stdout[c]))
          /\ Len(stdout[c]) \in Nat
      BY <3>1, <3>2
    <3>5. \A j \in 1..Len(stdout'[c]) : /\ n + j \in 1..Len(stdout[c])
                                        /\ stdout'[c][j] = stdout[c][n + j]
      BY <3>2, <3>4
    <3>. QED BY <3>3, <3>5, SMTT(30) DEF Provenance, AnswersOwn
  <2>. QED BY <1>5, <2>1, <2>2, RejectAll, QuietStep DEF InvalidLine
<1>6. ASSUME NEW c \in Children, exitEvent(c) PROVE Provenance'
  BY <1>6, RejectAll, QuietStep DEF exitEvent, Provenance, AnswersOwn
<1>7. ASSUME initializeTimeout PROVE Provenance'
  BY <1>7, RejectAll, QuietStep DEF initializeTimeout, resetProcess, Provenance, AnswersOwn
<1>8. ASSUME NEW k \in Calls, requestTimeout(k) PROVE Provenance'
  <2>1. \A l \in Requests : call'[l] = "resolved" => call[l] = "resolved"
    BY <1>0, <1>8 DEF requestTimeout, TypeOK
  <2>. QED BY <1>8, <2>1, QuietStep DEF requestTimeout, procVars, Provenance, AnswersOwn
<1>9. ASSUME close PROVE Provenance'
  BY <1>9, RejectAll, QuietStep DEF close, resetProcess, Provenance, AnswersOwn
<1>10. ASSUME NEW c \in Children, NEW i \in 1..(nextRequestId - 1),
              NEW outcome \in Outcomes, Answer(c, i, outcome)
       PROVE  Provenance'
  <2>1. /\ UNCHANGED <<pending, spawned, stdin, initId, idOf, sentTo, call, result>>
        /\ answered' = [answered EXCEPT ![c] = @ \cup {i}]
    BY <1>10 DEF Answer, clientVars, callVars
  <2>2. \A d \in Children : answered'[d] = IF d = c THEN answered[d] \cup {i} ELSE answered[d]
    BY <1>0, <2>1 DEF TypeOK
  <2>3. Owns(c, i)
    <3>1. i # 0
      BY <1>0 DEF TypeOK
    <3>. QED BY <1>10, <3>1 DEF Answer, Provenance, StdinOwn, Owns
  <2>4. \A d \in Children : \A j : Owns(d, j) => Owns(d, j)'
    BY <2>1 DEF Owns
  <2>5. StdinOwn'
    BY <2>1, <2>2, <2>4 DEF Provenance, StdinOwn
  <2>6. AnswersOwn'
    <3>1. stdout' = [stdout EXCEPT ![c] = Append(@, [id |-> i, outcome |-> outcome])]
      BY <1>10 DEF Answer
    <3>2. stdout \in [Children -> Seq(Line)]
      BY <1>0 DEF TypeOK
    <3>6. [id |-> i, outcome |-> outcome] \in Line
      BY <1>0 DEF TypeOK, Line
    <3>3. \A d \in Children : d # c => stdout'[d] = stdout[d]
      BY <3>1, <3>2
    <3>4. /\ stdout'[c] = Append(stdout[c], [id |-> i, outcome |-> outcome])
          /\ stdout[c] \in Seq(Line)
      BY <3>1, <3>2
    <3>5. \A n \in 1..Len(stdout'[c]) :
            \/ n \in 1..Len(stdout[c]) /\ stdout'[c][n] = stdout[c][n]
            \/ stdout'[c][n].id = i
      BY <3>4, <3>6, AppendFacts
    <3>7. \A d \in Children : \A j \in answered'[d] : Owns(d, j)'
      BY <2>2, <2>3, <2>4 DEF Provenance, AnswersOwn
    <3>8. \A d \in Children : \A n \in 1..Len(stdout'[d]) : stdout'[d][n].id \in answered'[d]
      <4>1. ASSUME NEW d \in Children, d # c, NEW n \in 1..Len(stdout'[d])
            PROVE  stdout'[d][n].id \in answered'[d]
        BY <2>2, <3>3, <4>1 DEF Provenance, AnswersOwn
      <4>2. ASSUME NEW n \in 1..Len(stdout'[c])
            PROVE  stdout'[c][n].id \in answered'[c]
        <5>1. i \in answered'[c] /\ answered[c] \subseteq answered'[c]
          BY <2>2
        <5>2. \A l \in 1..Len(stdout[c]) : stdout[c][l].id \in answered[c]
          BY DEF Provenance, AnswersOwn
        <5>. QED BY <3>5, <5>1, <5>2
      <4>. QED BY <4>1, <4>2
    <3>. QED BY <3>7, <3>8 DEF AnswersOwn
  <2>7. ResultOwn'
    BY <2>1, <2>2 DEF Provenance, ResultOwn
  <2>. QED BY <2>5, <2>6, <2>7 DEF Provenance
<1>11. ASSUME NEW c \in Children, Exit(c) PROVE Provenance'
  BY <1>11, QuietStep DEF Exit, clientVars, callVars, Provenance, AnswersOwn
<1>12. CASE UNCHANGED vars
  BY <1>12, QuietStep DEF vars, clientVars, callVars, procVars, Provenance, AnswersOwn
<1>. QED
  BY <1>1, <1>2, <1>3, <1>4, <1>5, <1>6, <1>7, <1>8, <1>9, <1>10, <1>11, <1>12
     DEF Next, Client, Process

LEMMA ProvenanceHolds == Spec => [](IInv /\ Provenance)
<1>1. Init => IInv /\ Provenance
  <2> SUFFICES ASSUME Init PROVE IInv /\ Provenance
    OBVIOUS
  <2>1. TypeOK
    BY ClientAssumption DEF Init, TypeOK
  <2>2. IInv
    BY <2>1, ClientAssumption DEF Init, IInv, IdsUnique, SpawnOrder,
                CallsOnCurrentChild, PendingOwned, NoLeakedProcess
  <2>3. Provenance
    BY ClientAssumption DEF Init, Provenance, StdinOwn, AnswersOwn, ResultOwn
  <2>. QED BY <2>2, <2>3
<1>. QED BY <1>1, InvStep, ProvenanceStep, PTL DEF Spec

\* No request is ever fulfilled by a line of another process than its own.
THEOREM OwnAnswers == Spec => []AnswerFromOwnProcess
<1>1. Provenance => AnswerFromOwnProcess
  BY DEF Provenance, ResultOwn, AnswerFromOwnProcess
<1>. QED BY <1>1, ProvenanceHolds, PTL

\* Every process sees initialize first, and "initialized" once at most and only
\* when it has answered.
THEOREM HandshakeInOrder == Spec => []Handshake
<1>1. IInv /\ Provenance => Handshake
  <2> SUFFICES ASSUME IInv, Provenance, NEW c \in Children
               PROVE  Handshake!(c)
    BY DEF Handshake
  <2>1. proc[c] # "unborn" => c <= spawned
    BY ClientAssumption DEF IInv, TypeOK, SpawnOrder
  <2>. QED BY <2>1 DEF Provenance, StdinOwn
<1>. QED BY <1>1, ProvenanceHolds, PTL

-------------------------------------------------------------------------------
(***************************************************************************)
(* The client implements RpcCalls: each of its steps is a step of the      *)
(* calls as their makers see them, or changes nothing they see.            *)
(***************************************************************************)

\* What the caller of a request sees, by the progress of the call.
LEMMA Seen ==
  ASSUME NEW k \in Requests
  PROVE  callerState[k] = IF call[k] = "idle" THEN "idle"
                          ELSE IF call[k] = "resolved" THEN "ok"
                          ELSE IF call[k] = "rejected" THEN "failed" ELSE "open"
BY DEF callerState

\* Nothing the callers see changes.
LEMMA UnseenStep ==
  ASSUME \A k \in Requests : callerState'[k] = callerState[k],
         callerAnswered' = callerAnswered
  PROVE  [Caller!Next]_(Caller!vars)
<1>1. callerState' = callerState
  BY DEF callerState
<1>. QED BY <1>1 DEF Caller!vars

\* Some open calls fail together, or none.
LEMMA FailStep ==
  ASSUME NEW S \in SUBSET Requests,
         \A k \in S : callerState[k] = "open" /\ callerState'[k] = "failed",
         \A k \in Requests \ S : callerState'[k] = callerState[k],
         callerAnswered' = callerAnswered
  PROVE  [Caller!Next]_(Caller!vars)
<1>1. CASE S = {}
  BY <1>1, UnseenStep
<1>2. CASE S # {}
  <2>1. callerState' = [k \in Requests |-> IF k \in S THEN "failed" ELSE callerState[k]]
    BY DEF callerState
  <2>. QED BY <1>2, <2>1 DEF Caller!Next, Caller!Fail
<1>. QED BY <1>1, <1>2

\* The answered calls do not change while ids and answers stay.
LEMMA SameAnswered ==
  ASSUME UNCHANGED <<idOf, answered>>
  PROVE  callerAnswered' = callerAnswered
BY DEF callerAnswered

\* A step that settles calls only by rejecting them.
LEMMA RejectStep ==
  ASSUME TypeOK, UNCHANGED <<idOf, answered>>,
         \A k \in Requests : \/ call'[k] = call[k]
                             \/ /\ call[k] \notin {"idle", "resolved", "rejected"}
                                /\ call'[k] \notin {"idle", "resolved"}
  PROVE  [Caller!Next]_(Caller!vars)
<1> DEFINE S == {k \in Requests : call'[k] = "rejected" /\ call[k] # "rejected"}
<1>1. \A k \in Requests :
        callerState'[k] = IF call'[k] = "idle" THEN "idle"
                          ELSE IF call'[k] = "resolved" THEN "ok"
                          ELSE IF call'[k] = "rejected" THEN "failed" ELSE "open"
  BY Seen DEF callerState
<1>2. \A k \in S : callerState[k] = "open" /\ callerState'[k] = "failed"
  BY <1>1, Seen
<1>3. \A k \in Requests \ S : callerState'[k] = callerState[k]
  BY <1>1, Seen
<1> HIDE DEF S
<1>4. S \in SUBSET Requests
  BY DEF S
<1>. QED BY <1>2, <1>3, <1>4, SameAnswered, FailStep

\* rejectAllPending() rejects calls that are open.
LEMMA RejectAllOpen ==
  ASSUME rejectAllPending
  PROVE  \A k \in Calls : \/ call'[k] = call[k]
                          \/ call[k] \in {"waiting", "starting"} /\ call'[k] = "rejected"
BY DEF rejectAllPending, Rejected

LEMMA CallerStep == IInv /\ Provenance /\ [Next]_vars => [Caller!Next]_(Caller!vars)
<1> SUFFICES ASSUME IInv, Provenance, [Next]_vars
             PROVE  [Caller!Next]_(Caller!vars)
  OBVIOUS
<1>0. TypeOK
  BY DEF IInv
<1>a. \A k \in Requests :
        callerState'[k] = IF call'[k] = "idle" THEN "idle"
                          ELSE IF call'[k] = "resolved" THEN "ok"
                          ELSE IF call'[k] = "rejected" THEN "failed" ELSE "open"
  BY DEF callerState
<1>1. ASSUME NEW k \in Calls, ensureStarted(k) PROVE [Caller!Next]_(Caller!vars)
  <2>1. /\ call[k] = "idle" /\ UNCHANGED <<idOf, answered>>
        /\ \A l \in Calls : l # k => call'[l] = call[l]
        /\ call'[k] \in {"ready", "starting"}
    BY <1>0, <1>1 DEF ensureStarted, spawnChild, spawnWith, TypeOK
  <2>2. CASE k \in Requests
    <3>1. callerState' = [callerState EXCEPT ![k] = "open"] /\ callerState[k] = "idle"
      <4>1. \A l \in Requests : callerState'[l] = IF l = k THEN "open" ELSE callerState[l]
        BY <1>a, <2>1, <2>2, Seen
      <4>. QED BY <2>1, <2>2, <4>1, Seen DEF callerState
    <3>. QED BY <2>1, <2>2, <3>1, SameAnswered DEF Caller!Next, Caller!Open
  <2>3. CASE k \notin Requests
    <3>1. \A l \in Requests : callerState'[l] = callerState[l]
      BY <1>a, <2>1, <2>3, Seen
    <3>. QED BY <2>1, <3>1, SameAnswered, UnseenStep
  <2>. QED BY <2>2, <2>3
<1>2. ASSUME NEW k \in Calls, request(k) PROVE [Caller!Next]_(Caller!vars)
  <2>1. /\ k \in Requests /\ call[k] = "ready" /\ idOf[k] = 0
        /\ call'[k] \in {"waiting", "rejected"} /\ idOf'[k] = nextRequestId
        /\ \A l \in Calls : l # k => call'[l] = call[l] /\ idOf'[l] = idOf[l]
        /\ UNCHANGED answered
    BY <1>0, <1>2 DEF request, IInv, TypeOK, CallsOnCurrentChild
  <2>2. callerAnswered' = callerAnswered
    <3>1. \A c \in Children : nextRequestId \notin answered[c]
      BY IdTypes DEF Provenance, AnswersOwn, Owns, IInv, IdsUnique
    <3>. QED BY <2>1, <3>1 DEF callerAnswered
  <2>3. CASE call'[k] = "waiting"
    <3>1. \A l \in Requests : callerState'[l] = callerState[l]
      BY <1>a, <2>1, <2>3, Seen
    <3>. QED BY <2>2, <3>1, UnseenStep
  <2>4. CASE call'[k] = "rejected"
    <3>1. /\ \A l \in {k} : callerState[l] = "open" /\ callerState'[l] = "failed"
          /\ \A l \in Requests \ {k} : callerState'[l] = callerState[l]
          /\ {k} \in SUBSET Requests
      BY <1>a, <2>1, <2>4, Seen
    <3>. QED BY <2>2, <3>1, FailStep
  <2>. QED BY <2>1, <2>3, <2>4
<1>3. ASSUME NEW k \in Calls, sendResponse(k) PROVE [Caller!Next]_(Caller!vars)
  BY <1>0, <1>3, RejectStep, ClientAssumption DEF sendResponse, TypeOK
<1>4. ASSUME NEW c \in Children, handleEnvelope(c) PROVE [Caller!Next]_(Caller!vars)
  <2> DEFINE line == Head(stdout[c])
  <2>1. UNCHANGED <<idOf, answered>>
    BY <1>4 DEF handleEnvelope
  <2>2. CASE UNCHANGED call
    BY <1>0, <2>1, <2>2, RejectStep
  <2>3. ASSUME NEW k \in Requests, line.id \in pending, idOf[k] = line.id,
               settleRequest(c, k, line.outcome)
        PROVE  [Caller!Next]_(Caller!vars)
    <3>1. idOf[k] \in answered[c] /\ idOf[k] # 0
      <4>1. stdout[c] \in Seq(Line) /\ stdout[c] # <<>>
        BY <1>0, <1>4 DEF handleEnvelope, TypeOK
      <4>2. 1 \in 1..Len(stdout[c]) /\ line = stdout[c][1]
        BY <4>1
      <4>. QED BY <2>3, <4>2 DEF Provenance, AnswersOwn, Owns
    <3>2. call[k] = "waiting"
      <4>1. child # 0 /\ \/ initId[child] = idOf[k]
                         \/ \E l \in Requests : call[l] = "waiting" /\ idOf[l] = idOf[k]
        BY <2>3 DEF IInv, PendingOwned
      <4>2. child \in Children
        BY <1>0, <4>1 DEF TypeOK
      <4>. QED BY <3>1, <4>1, <4>2 DEF IInv, IdsUnique
    <3>3. CASE call' = [call EXCEPT ![k] = "resolved"]
      <4>1. \A l \in Requests : callerState'[l] = IF l = k THEN "ok" ELSE callerState[l]
        BY <1>0, <1>a, <3>2, <3>3, Seen DEF TypeOK
      <4>2. callerState' = [callerState EXCEPT ![k] = "ok"] /\ callerState[k] = "open"
        BY <3>2, <4>1, Seen DEF callerState
      <4>3. k \in callerAnswered
        BY <3>1 DEF callerAnswered
      <4>. QED BY <2>1, <4>2, <4>3, SameAnswered DEF Caller!Next, Caller!Fulfil
    <3>4. CASE call' = [call EXCEPT ![k] = "rejected"]
      BY <1>0, <2>1, <3>2, <3>4, RejectStep DEF TypeOK
    <3>. QED BY <2>3, <3>3, <3>4 DEF settleRequest
  <2>4. ASSUME NEW d \in Children, settleStart(d, line.outcome)
        PROVE  [Caller!Next]_(Caller!vars)
    <3>1. \A k \in Calls : \/ call'[k] = call[k]
                           \/ call[k] = "starting" /\ call'[k] \in {"ready", "rejected"}
      BY <2>4 DEF settleStart
    <3>. QED BY <1>0, <2>1, <3>1, RejectStep
  <2>. QED BY <1>4, <2>2, <2>3, <2>4 DEF handleEnvelope
<1>5. ASSUME NEW c \in Children, InvalidLine(c) PROVE [Caller!Next]_(Caller!vars)
  BY <1>0, <1>5, RejectAllOpen, RejectStep DEF InvalidLine, resetProcess
<1>6. ASSUME NEW c \in Children, exitEvent(c) PROVE [Caller!Next]_(Caller!vars)
  BY <1>0, <1>6, RejectAllOpen, RejectStep DEF exitEvent
<1>7. ASSUME initializeTimeout PROVE [Caller!Next]_(Caller!vars)
  BY <1>0, <1>7, RejectAllOpen, RejectStep DEF initializeTimeout, resetProcess
<1>8. ASSUME NEW k \in Calls, requestTimeout(k) PROVE [Caller!Next]_(Caller!vars)
  BY <1>0, <1>8, RejectStep DEF requestTimeout, procVars, TypeOK
<1>9. ASSUME close PROVE [Caller!Next]_(Caller!vars)
  BY <1>0, <1>9, RejectAllOpen, RejectStep DEF close, resetProcess
<1>10. ASSUME NEW c \in Children, NEW i \in 1..(nextRequestId - 1),
              NEW outcome \in Outcomes, Answer(c, i, outcome)
       PROVE  [Caller!Next]_(Caller!vars)
  <2>1. /\ UNCHANGED <<call, idOf>> /\ i \notin answered[c] /\ i # 0
        /\ \A d \in Children : answered'[d] = IF d = c THEN answered[d] \cup {i} ELSE answered[d]
    <3>1. i # 0
      BY <1>0 DEF TypeOK
    <3>2. answered' = [answered EXCEPT ![c] = @ \cup {i}]
      BY <1>10 DEF Answer
    <3>3. \A d \in Children : answered'[d] = IF d = c THEN answered[d] \cup {i} ELSE answered[d]
      BY <1>0, <3>2 DEF TypeOK
    <3>. QED BY <1>10, <3>1, <3>3 DEF Answer, callVars
  <2>2. \A l \in Requests : callerState'[l] = callerState[l]
    BY <1>a, <2>1, Seen
  <2>3. CASE \E k \in Requests : idOf[k] = i
    <3>1. PICK k \in Requests : idOf[k] = i
      BY <2>3
    <3>2. callerAnswered' = callerAnswered \cup {k}
      <4>1. \A l \in Requests : idOf[l] = i => l = k
        BY <2>1, <3>1 DEF IInv, IdsUnique, Calls
      <4>2. \A l \in Requests : l \in callerAnswered <=>
                                  \E d \in Children : idOf[l] # 0 /\ idOf[l] \in answered[d]
        BY DEF callerAnswered
      <4>3. \A l \in Requests : l \in callerAnswered' <=>
                                  \E d \in Children : idOf[l] # 0 /\ idOf[l] \in answered'[d]
        BY <2>1 DEF callerAnswered
      <4>4. \A l \in Requests : l \in callerAnswered' <=> l \in callerAnswered \/ l = k
        BY <1>10, <2>1, <3>1, <4>1, <4>2, <4>3
      <4>. QED BY <4>4 DEF callerAnswered
    <3>3. PICK n \in 1..Len(stdin[c]) : /\ stdin[c][n].kind \in {"initialize", "request"}
                                        /\ stdin[c][n].id = i
      BY <1>10 DEF Answer
    <3>4. Owns(c, i)
      BY <2>1, <3>3 DEF Provenance, StdinOwn, Owns
    <3>5. sentTo[k] = c
      BY <3>1, <3>4, <2>1 DEF Owns, IInv, IdsUnique
    <3>6. call[k] \notin {"idle", "resolved"}
      BY <2>1, <3>1, <3>5 DEF IInv, CallsOnCurrentChild, Provenance, ResultOwn
    <3>7. callerState[k] \in {"open", "failed"} /\ callerState' = callerState
      BY <2>2, <3>6, Seen DEF callerState
    <3>. QED BY <3>2, <3>7 DEF Caller!Next, Caller!Answer
  <2>4. CASE \A k \in Requests : idOf[k] # i
    <3>1. callerAnswered' = callerAnswered
      BY <2>1, <2>4 DEF callerAnswered
    <3>. QED BY <2>2, <3>1, UnseenStep
  <2>. QED BY <2>3, <2>4
<1>11. ASSUME NEW c \in Children, Exit(c) PROVE [Caller!Next]_(Caller!vars)
  BY <1>0, <1>11, RejectStep DEF Exit, callVars
<1>12. CASE UNCHANGED vars
  BY <1>0, <1>12, RejectStep DEF vars, callVars, procVars
<1>. QED
  BY <1>1, <1>2, <1>3, <1>4, <1>5, <1>6, <1>7, <1>8, <1>9, <1>10, <1>11, <1>12
     DEF Next, Client, Process

\* Restarts, time-outs and lost processes included, the client is nothing but a
\* set of calls that are settled once and fulfilled only with their own answer.
THEOREM ClientRefines == Spec => ImplementsRpcCalls
<1>1. Init => Caller!Init
  BY DEF Init, Caller!Init, callerState, callerAnswered
<1>. QED BY <1>1, CallerStep, ProvenanceHolds, PTL DEF Spec, ImplementsRpcCalls, Caller!Spec
===============================================================================

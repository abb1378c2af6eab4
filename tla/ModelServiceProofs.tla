------------------------- MODULE ModelServiceProofs -------------------------
(***************************************************************************)
(* Proofs about ModelService, for any number of overlapping snapshots,     *)
(* devices, deployments and lifetimes of the two caches.                   *)
(***************************************************************************)
EXTENDS ModelService, SequenceTheorems, TLAPS

(***************************************************************************)
(* The queue at the lock.                                                  *)
(***************************************************************************)

\* Whoever joins the queue is at its end, and nobody else moves.
LEMMA QueueAppend ==
    ASSUME NEW S, NEW q \in Seq(S), IsInjective(q), NEW r \in S, r \notin ToSet(q)
    PROVE  /\ Append(q, r) \in Seq(S)
           /\ IsInjective(Append(q, r))
           /\ ToSet(Append(q, r)) = ToSet(q) \cup {r}
           /\ q # <<>> => Head(Append(q, r)) = Head(q)
  <1>1. /\ Append(q, r) \in Seq(S) /\ Len(q) \in Nat
        /\ DOMAIN q = 1..Len(q) /\ DOMAIN Append(q, r) = 1..(Len(q) + 1)
        /\ \A i \in 1..Len(q) : Append(q, r)[i] = q[i]
        /\ Append(q, r)[Len(q) + 1] = r
    OBVIOUS
  <1>2. \A i \in 1..Len(q) : q[i] # r
    BY <1>1 DEF ToSet
  <1>3. IsInjective(Append(q, r))
    BY <1>1, <1>2 DEF IsInjective
  <1>4. ToSet(Append(q, r)) = ToSet(q) \cup {r}
    BY <1>1 DEF ToSet
  <1>5. q # <<>> => Head(Append(q, r)) = Head(q)
    BY <1>1
  <1> QED
    BY <1>1, <1>3, <1>4, <1>5

\* The first one leaves the queue, and only that one.
LEMMA QueueTail ==
    ASSUME NEW S, NEW q \in Seq(S), IsInjective(q), q # <<>>
    PROVE  /\ Tail(q) \in Seq(S)
           /\ IsInjective(Tail(q))
           /\ ToSet(Tail(q)) = ToSet(q) \ {Head(q)}
           /\ Head(q) \in ToSet(q)
  <1>1. /\ Len(q) \in Nat \ {0} /\ DOMAIN q = 1..Len(q) /\ Head(q) = q[1]
        /\ Tail(q) \in Seq(S) /\ DOMAIN Tail(q) = 1..(Len(q) - 1)
        /\ \A i \in 1..(Len(q) - 1) : Tail(q)[i] = q[i + 1]
    OBVIOUS
  <1>2. IsInjective(Tail(q))
    BY <1>1 DEF IsInjective
  <1>3. \A i \in 1..Len(q) : q[i] = q[1] => i = 1
    BY <1>1 DEF IsInjective
  <1>4. ASSUME NEW x \in ToSet(q), x # q[1] PROVE x \in ToSet(Tail(q))
    <2>1. PICK i \in 1..Len(q) : x = q[i]
      BY <1>1, <1>4 DEF ToSet
    <2>2. i - 1 \in 1..(Len(q) - 1) /\ Tail(q)[i - 1] = q[i]
      BY <1>1, <1>4, <2>1
    <2> QED
      BY <1>1, <2>1, <2>2 DEF ToSet
  <1>5. ASSUME NEW x \in ToSet(Tail(q)) PROVE x \in ToSet(q) /\ x # q[1]
    <2>1. PICK i \in 1..(Len(q) - 1) : x = q[i + 1]
      BY <1>1, <1>5 DEF ToSet
    <2>2. i + 1 \in 1..Len(q) /\ i + 1 # 1
      BY <1>1, <2>1
    <2> QED
      BY <1>1, <1>3, <2>1, <2>2 DEF ToSet
  <1>6. Head(q) \in ToSet(q)
    BY <1>1 DEF ToSet
  <1> QED
    BY <1>1, <1>2, <1>4, <1>5, <1>6

(***************************************************************************)
(* The inductive invariant.  TypeOK depends on HerdCollapsed, because a    *)
(* handler that is done takes the first one off the queue, which is itself *)
(* only because nobody else is past the lock.  What the cache says of the  *)
(* metadata depends on the answers that are still travelling.              *)
(***************************************************************************)
DataOK ==
    /\ predicted \in [Devices -> 0 .. TTL]
    /\ info \in [age : 0 .. InfoTTL, version : Versions \cup {Nothing}]
    /\ req \in [Requests -> Handler]
    /\ deployed \in Versions
    /\ obsolete \in [Versions -> 0 .. InfoTTL]
    /\ \A r \in Requests : req[r].pc \notin {"idle", "failed", "info"} => req[r].device \in Devices

Inside == {r \in Requests : req[r].pc \in {"wait", "post", "meta"}}

QueueOK == queue \in Seq(Requests) /\ IsInjective(queue) /\ ToSet(queue) = Inside

AnswersDated ==
    \A r \in Requests :
        req[r].version # Nothing =>
            req[r].pc \in {"meta", "info"} /\ obsolete[req[r].version] <= req[r].age

CurrentVersions == \A v \in Versions : v >= deployed => obsolete[v] = 0

Dates == InfoNotOverstated /\ AnswersDated /\ CurrentVersions

Inv == DataOK /\ QueueOK /\ HerdCollapsed /\ Dates

LEMMA TypeSplit == TypeOK <=> DataOK /\ QueueOK
  BY DEF TypeOK, DataOK, QueueOK, Inside

LEMMA VersionFacts == Versions \subseteq Nat /\ Nothing \notin Versions /\ 1 \in Versions
  BY ModelServiceAssumption DEF Versions

\* A handler that starts anew, or that goes on to ask for the metadata.
LEMMA FreshHandlers ==
    /\ Idle \in Handler /\ Idle.pc = "idle" /\ Idle.version = Nothing
    /\ Failed \in Handler /\ Failed.pc = "failed" /\ Failed.version = Nothing
    /\ \A i : /\ Rendered(i) \in {Idle, Failed}
              /\ AfterPredict(i) \in Handler
              /\ AfterPredict(i).pc \in {"idle", "failed", "info"}
              /\ AfterPredict(i).version = Nothing
  <1>1. 0 \in 0 .. InfoTTL
    BY ModelServiceAssumption
  <1>2. Idle \in Handler /\ Idle.pc = "idle" /\ Idle.version = Nothing
    BY <1>1 DEF Idle, Handler, Bodies
  <1>3. LET q == [Idle EXCEPT !.pc = "info"]
        IN  q \in Handler /\ q.pc = "info" /\ q.version = Nothing
    BY <1>1 DEF Idle, Handler, Bodies
  <1>4. Failed \in Handler /\ Failed.pc = "failed" /\ Failed.version = Nothing
    BY <1>2 DEF Failed, Handler
  <1>5. \A i : Rendered(i) \in {Idle, Failed}
    BY DEF Rendered
  <1> QED
    BY <1>2, <1>3, <1>4, <1>5 DEF AfterPredict

LEMMA InitInv == Init => Inv
  <1> SUFFICES ASSUME Init PROVE Inv
    OBVIOUS
  <1>1. DataOK
    BY ModelServiceAssumption, VersionFacts, FreshHandlers DEF Init, DataOK
  <1>2. QueueOK
    BY FreshHandlers DEF Init, QueueOK, Inside, IsInjective, ToSet
  <1>3. HerdCollapsed
    BY FreshHandlers DEF Init, HerdCollapsed
  <1>4. InfoNotOverstated
    BY ModelServiceAssumption DEF Init, InfoNotOverstated
  <1>5. AnswersDated /\ CurrentVersions
    BY FreshHandlers DEF Init, AnswersDated, CurrentVersions
  <1> QED
    BY <1>1, <1>2, <1>3, <1>4, <1>5 DEF Inv, Dates

(***************************************************************************)
(* Steps of one handler.  Its new record is q; the other handlers stay.    *)
(***************************************************************************)
Moves(r, q) == req' = [req EXCEPT ![r] = q]

\* A step that changes one handler and stores no metadata keeps the dates.
LEMMA DatesKept ==
    ASSUME Inv, NEW r \in Requests, NEW q \in Handler, Moves(r, q),
           q.version = Nothing \/ (/\ q.version = req[r].version /\ q.age = req[r].age
                                   /\ q.pc = req[r].pc),
           UNCHANGED <<info, deployed, obsolete>>
    PROVE  Dates'
  <1>1. req'[r] = q /\ \A s \in Requests : s # r => req'[s] = req[s]
    BY DEF Moves, Inv, DataOK
  <1>2. AnswersDated'
    BY <1>1 DEF AnswersDated, Inv, Dates
  <1> QED
    BY <1>2 DEF Dates, Inv, InfoNotOverstated, CurrentVersions

\* Releasing the lock: whoever is past it is the first of the queue, and the
\* only one past it.
LEMMA LockReleased ==
    ASSUME Inv, NEW r \in Requests, Head(queue) = r, r \in Inside,
           NEW q \in Handler, q.pc \in {"idle", "failed", "info"}, Moves(r, q),
           queue' = Tail(queue)
    PROVE  QueueOK' /\ HerdCollapsed'
  <1>1. req'[r] = q /\ \A s \in Requests : s # r => req'[s] = req[s]
    BY DEF Moves, Inv, DataOK
  <1>2. queue \in Seq(Requests) /\ IsInjective(queue) /\ queue # <<>>
    BY DEF Inv, QueueOK, ToSet
  <1>3. Inside' = Inside \ {r}
    BY <1>1 DEF Inside
  <1>4. QueueOK'
    BY <1>2, <1>3, QueueTail DEF QueueOK, Inv
  <1>5. \A s \in Requests : req'[s].pc \notin {"post", "meta"}
    BY <1>1 DEF HerdCollapsed, Inv
  <1> QED
    BY <1>4, <1>5 DEF HerdCollapsed

\* A handler that asked for metadata outside of the lock ends.
LEMMA OutsideStep ==
    ASSUME Inv, NEW r \in Requests, req[r].pc = "info",
           NEW q, q.pc \in {"idle", "failed"}, Moves(r, q), UNCHANGED <<predicted, queue>>
    PROVE  QueueOK' /\ HerdCollapsed'
  <1>1. req'[r] = q /\ \A s \in Requests : s # r => req'[s] = req[s]
    BY DEF Moves, Inv, DataOK
  <1>2. Inside' = Inside
    BY <1>1 DEF Inside
  <1>3. HerdCollapsed'
    BY <1>1 DEF HerdCollapsed, Inv
  <1> QED
    BY <1>2, <1>3 DEF QueueOK, Inv

\* The end of predict.
LEMMA FinishStep ==
    ASSUME Inv, NEW r \in Requests, req[r].pc \in {"post", "meta"},
           NEW i, NEW body \in Bodies, Finish(r, i, body)
    PROVE  /\ predicted' \in [Devices -> 0 .. TTL]
           /\ \E q \in Handler : /\ q.pc \in {"idle", "failed", "info"} /\ q.version = Nothing
                                 /\ Moves(r, q)
           /\ QueueOK' /\ HerdCollapsed'
  <1>1. Head(queue) = r /\ r \in Inside /\ req[r].device \in Devices
    BY DEF Inv, HerdCollapsed, Inside, DataOK
  <1>2. predicted' \in [Devices -> 0 .. TTL]
    BY <1>1, ModelServiceAssumption DEF Finish, Inv, DataOK
  <1>3. Moves(r, IF body = "oversized" THEN Failed ELSE AfterPredict(i)) /\ queue' = Tail(queue)
    BY DEF Finish, Moves
  <1>4. PICK q \in Handler : /\ q.pc \in {"idle", "failed", "info"} /\ q.version = Nothing
                             /\ Moves(r, q)
    BY <1>3, FreshHandlers
  <1> QED
    BY <1>1, <1>2, <1>3, <1>4, LockReleased

\* A handler that asked for metadata goes on.
LEMMA AfterInfoStep ==
    ASSUME Inv, NEW r \in Requests, NEW i, AfterInfo(r, i)
    PROVE  /\ predicted' \in [Devices -> 0 .. TTL]
           /\ \E q \in Handler : /\ q.pc \in {"idle", "failed", "info"} /\ q.version = Nothing
                                 /\ Moves(r, q)
           /\ QueueOK' /\ HerdCollapsed'
  <1>1. CASE req[r].pc = "meta"
    <2>1. req[r].body \in Bodies /\ Finish(r, i, req[r].body)
      BY <1>1 DEF AfterInfo, Inv, DataOK, Handler
    <2> QED
      BY <1>1, <2>1, FinishStep
  <1>2. CASE req[r].pc = "info"
    <2>1. UNCHANGED <<predicted, queue>>
      BY <1>2 DEF AfterInfo
    <2>2. PICK q \in {Idle, Failed} : Moves(r, q)
      BY <1>2, FreshHandlers DEF AfterInfo, Moves
    <2>3. q \in Handler /\ q.pc \in {"idle", "failed"} /\ q.version = Nothing
      BY <2>2, FreshHandlers
    <2>4. QueueOK' /\ HerdCollapsed'
      BY <1>2, <2>1, <2>2, <2>3, OutsideStep
    <2> QED
      BY <2>1, <2>2, <2>3, <2>4 DEF Inv, DataOK
  <1> QED
    BY <1>1, <1>2 DEF AfterInfo

\* Types after the step of one handler.
LEMMA DataKept ==
    ASSUME DataOK, NEW r \in Requests, NEW q \in Handler, Moves(r, q),
           q.pc \notin {"idle", "failed", "info"} => q.device \in Devices,
           predicted' \in [Devices -> 0 .. TTL],
           info' \in [age : 0 .. InfoTTL, version : Versions \cup {Nothing}],
           UNCHANGED <<deployed, obsolete>>
    PROVE  DataOK'
  <1>1. req'[r] = q /\ \A s \in Requests : s # r => req'[s] = req[s]
    BY DEF Moves, DataOK
  <1>2. req' \in [Requests -> Handler]
    BY DEF Moves, DataOK
  <1> QED
    BY <1>1, <1>2 DEF DataOK

(***************************************************************************)
(* One lemma per action.                                                   *)
(***************************************************************************)
LEMMA InvArrive ==
    ASSUME Inv, NEW r \in Requests, NEW d \in Devices, Arrive(r, d)
    PROVE  Inv'
  <1> USE DEF Inv
  <1>0. UNCHANGED <<predicted, info, deployed, obsolete>> /\ req[r].pc \in {"idle", "failed"}
    BY DEF Arrive
  <1>1. CASE predicted[d] < TTL
    <2>1. Moves(r, AfterPredict(info)) /\ UNCHANGED queue
      BY <1>1 DEF Arrive, Moves
    <2>2. req'[r] = AfterPredict(info) /\ \A s \in Requests : s # r => req'[s] = req[s]
      BY <2>1 DEF Moves, DataOK
    <2>3. DataOK' /\ Dates'
      BY <1>0, <2>1, FreshHandlers, DataKept, DatesKept DEF DataOK
    <2>4. Inside' = Inside
      BY <1>0, <2>2, FreshHandlers DEF Inside
    <2>5. HerdCollapsed'
      BY <1>0, <2>1, <2>2, FreshHandlers DEF HerdCollapsed
    <2> QED
      BY <2>1, <2>3, <2>4, <2>5 DEF QueueOK
  <1>2. CASE ~(predicted[d] < TTL)
    <2> DEFINE q == [Idle EXCEPT !.pc = "wait", !.device = d]
    <2>1. Moves(r, q) /\ queue' = Append(queue, r)
      BY <1>2 DEF Arrive, Moves
    <2>2. q \in Handler /\ q.pc = "wait" /\ q.device = d /\ q.version = Nothing
      <3>1. 0 \in 0 .. InfoTTL
        BY ModelServiceAssumption
      <3> QED
        BY <3>1 DEF Idle, Handler, Bodies
    <2> HIDE DEF q
    <2>3. req'[r] = q /\ \A s \in Requests : s # r => req'[s] = req[s]
      BY <2>1 DEF Moves, DataOK
    <2>4. DataOK' /\ Dates'
      BY <1>0, <2>1, <2>2, DataKept, DatesKept DEF DataOK
    <2>5. r \notin ToSet(queue) /\ Inside' = Inside \cup {r}
      BY <1>0, <2>2, <2>3 DEF Inside, QueueOK
    <2>6. QueueOK' /\ (queue # <<>> => Head(queue') = Head(queue))
      BY <2>1, <2>5, QueueAppend DEF QueueOK
    <2>7. HerdCollapsed'
      <3> SUFFICES ASSUME NEW s \in Requests, req'[s].pc \in {"post", "meta"}
                   PROVE  Head(queue') = s /\ predicted'[req'[s].device] = TTL
        BY DEF HerdCollapsed
      <3>1. s # r /\ req'[s] = req[s]
        BY <2>2, <2>3
      <3>2. s \in ToSet(queue)
        BY <3>1 DEF QueueOK, Inside
      <3>3. queue # <<>>
        BY <3>2 DEF ToSet
      <3> QED
        BY <1>0, <2>6, <3>1, <3>3 DEF HerdCollapsed
    <2> QED
      BY <2>4, <2>6, <2>7
  <1> QED
    BY <1>1, <1>2

LEMMA InvTurn ==
    ASSUME Inv, NEW r \in Requests, Turn(r)
    PROVE  Inv'
  <1> USE DEF Inv
  <1>0. /\ UNCHANGED <<predicted, info, deployed, obsolete>>
        /\ req[r].pc = "wait" /\ Head(queue) = r /\ r \in Inside
        /\ req[r] \in Handler /\ req[r].device \in Devices
    BY DEF Turn, Inside, DataOK
  <1>1. CASE predicted[req[r].device] < TTL
    <2>1. Moves(r, AfterPredict(info)) /\ queue' = Tail(queue)
      BY <1>1 DEF Turn, Moves
    <2>2. DataOK' /\ Dates'
      BY <1>0, <2>1, FreshHandlers, DataKept, DatesKept DEF DataOK
    <2> QED
      BY <1>0, <2>1, <2>2, FreshHandlers, LockReleased
  <1>2. CASE ~(predicted[req[r].device] < TTL)
    <2> DEFINE q == [req[r] EXCEPT !.pc = "post"]
    <2>1. Moves(r, q) /\ UNCHANGED queue
      BY <1>2 DEF Turn, Moves
    <2>2. req[r].version = Nothing
      BY <1>0 DEF Dates, AnswersDated
    <2>3. q \in Handler /\ q.pc = "post" /\ q.device = req[r].device /\ q.version = Nothing
      BY <1>0, <2>2 DEF Handler
    <2> HIDE DEF q
    <2>4. req'[r] = q /\ \A s \in Requests : s # r => req'[s] = req[s]
      BY <2>1 DEF Moves, DataOK
    <2>5. DataOK' /\ Dates'
      BY <1>0, <2>1, <2>3, DataKept, DatesKept DEF DataOK
    <2>6. Inside' = Inside
      BY <1>0, <2>3, <2>4 DEF Inside
    <2>7. predicted[req[r].device] = TTL
      BY <1>0, <1>2, ModelServiceAssumption DEF DataOK
    <2>8. HerdCollapsed'
      BY <1>0, <2>1, <2>3, <2>4, <2>7 DEF HerdCollapsed
    <2> QED
      BY <2>1, <2>5, <2>6, <2>8 DEF QueueOK
  <1> QED
    BY <1>1, <1>2

LEMMA InvPostReturns ==
    ASSUME Inv, NEW r \in Requests, PostReturns(r)
    PROVE  Inv'
  <1> USE DEF Inv
  <1>0. /\ UNCHANGED <<info, deployed, obsolete>>
        /\ req[r].pc = "post" /\ req[r] \in Handler /\ req[r].device \in Devices
    BY DEF PostReturns, DataOK
  <1>1. PICK body \in Bodies :
          \/ Finish(r, info, body)
          \/ /\ req' = [req EXCEPT ![r] = [@ EXCEPT !.pc = "meta", !.body = body]]
             /\ UNCHANGED <<predicted, queue>>
    BY DEF PostReturns
  <1>2. CASE Finish(r, info, body)
    <2>1. /\ predicted' \in [Devices -> 0 .. TTL] /\ QueueOK' /\ HerdCollapsed'
          /\ \E q \in Handler : /\ q.pc \in {"idle", "failed", "info"} /\ q.version = Nothing
                                /\ Moves(r, q)
      BY <1>0, <1>2, FinishStep
    <2>2. PICK q \in Handler : /\ q.pc \in {"idle", "failed", "info"} /\ q.version = Nothing
                               /\ Moves(r, q)
      BY <2>1
    <2>3. DataOK' /\ Dates'
      BY <1>0, <2>1, <2>2, DataKept, DatesKept DEF DataOK
    <2> QED
      BY <2>1, <2>3
  <1>3. CASE /\ req' = [req EXCEPT ![r] = [@ EXCEPT !.pc = "meta", !.body = body]]
             /\ UNCHANGED <<predicted, queue>>
    <2> DEFINE q == [req[r] EXCEPT !.pc = "meta", !.body = body]
    <2>1. Moves(r, q)
      BY <1>3 DEF Moves
    <2>2. req[r].version = Nothing
      BY <1>0 DEF Dates, AnswersDated
    <2>3. q \in Handler /\ q.pc = "meta" /\ q.device = req[r].device /\ q.version = Nothing
      BY <1>0, <2>2 DEF Handler
    <2> HIDE DEF q
    <2>4. req'[r] = q /\ \A s \in Requests : s # r => req'[s] = req[s]
      BY <2>1 DEF Moves, DataOK
    <2>5. DataOK' /\ Dates'
      BY <1>0, <1>3, <2>1, <2>3, DataKept, DatesKept DEF DataOK
    <2>6. Inside' = Inside
      BY <1>0, <2>3, <2>4 DEF Inside
    <2>7. HerdCollapsed'
      BY <1>0, <1>3, <2>3, <2>4 DEF HerdCollapsed
    <2> QED
      BY <1>3, <2>5, <2>6, <2>7 DEF QueueOK
  <1> QED
    BY <1>1, <1>2, <1>3

LEMMA InvPostFails ==
    ASSUME Inv, NEW r \in Requests, PostFails(r)
    PROVE  Inv'
  <1> USE DEF Inv
  <1>1. UNCHANGED <<info, deployed, obsolete>> /\ req[r].pc = "post" /\ Finish(r, info, "unusable")
        /\ "unusable" \in Bodies
    BY DEF PostFails, Bodies
  <1>2. /\ predicted' \in [Devices -> 0 .. TTL] /\ QueueOK' /\ HerdCollapsed'
        /\ \E q \in Handler : /\ q.pc \in {"idle", "failed", "info"} /\ q.version = Nothing
                              /\ Moves(r, q)
    BY <1>1, FinishStep
  <1>3. PICK q \in Handler : /\ q.pc \in {"idle", "failed", "info"} /\ q.version = Nothing
                             /\ Moves(r, q)
    BY <1>2
  <1>4. DataOK' /\ Dates'
    BY <1>1, <1>2, <1>3, DataKept, DatesKept DEF DataOK
  <1> QED
    BY <1>2, <1>4

\* An answer names the version of the moment, which is not obsolete at all.
LEMMA InvGetAnswered ==
    ASSUME Inv, NEW r \in Requests, GetAnswered(r)
    PROVE  Inv'
  <1> USE DEF Inv
  <1> DEFINE q == [req[r] EXCEPT !.version = deployed]
  <1>1. /\ UNCHANGED <<predicted, info, queue, deployed, obsolete>>
        /\ req[r].pc \in {"meta", "info"} /\ req[r] \in Handler /\ deployed \in Versions
    BY DEF GetAnswered, DataOK
  <1>2. Moves(r, q)
    BY DEF GetAnswered, Moves
  <1>3. q \in Handler /\ q.pc = req[r].pc /\ q.device = req[r].device
        /\ q.version = deployed /\ q.age = req[r].age
    BY <1>1 DEF Handler
  <1> HIDE DEF q
  <1>4. req'[r] = q /\ \A s \in Requests : s # r => req'[s] = req[s]
    BY <1>2 DEF Moves, DataOK
  <1>5. DataOK'
    BY <1>1, <1>2, <1>3, DataKept DEF DataOK
  <1>6. Inside' = Inside
    BY <1>1, <1>3, <1>4 DEF Inside
  <1>7. HerdCollapsed'
    BY <1>1, <1>3, <1>4 DEF HerdCollapsed
  <1>8. AnswersDated'
    <2>1. obsolete[deployed] = 0
      BY <1>1, VersionFacts DEF Dates, CurrentVersions
    <2>2. req[r].age \in 0 .. InfoTTL
      BY <1>1 DEF Handler
    <2>3. 0 <= req[r].age
      BY <2>2, ModelServiceAssumption
    <2> QED
      BY <1>1, <1>3, <1>4, <2>1, <2>3 DEF AnswersDated, Dates
  <1>9. Dates'
    BY <1>1, <1>8 DEF Dates, InfoNotOverstated, CurrentVersions
  <1> QED
    BY <1>1, <1>5, <1>6, <1>7, <1>9 DEF QueueOK

\* The answer is stored with the age of its request.
LEMMA InvGetReturns ==
    ASSUME Inv, NEW r \in Requests, GetReturns(r)
    PROVE  Inv'
  <1> USE DEF Inv
  <1>1. /\ UNCHANGED <<deployed, obsolete>> /\ info' = Stamp(r) /\ AfterInfo(r, Stamp(r))
        /\ req[r] \in Handler /\ req[r].version # Nothing
    BY DEF GetReturns, DataOK
  <1>2. /\ info' \in [age : 0 .. InfoTTL, version : Versions \cup {Nothing}]
        /\ info'.age = req[r].age /\ info'.version = req[r].version
    BY <1>1 DEF Stamp, Handler
  <1>3. /\ predicted' \in [Devices -> 0 .. TTL] /\ QueueOK' /\ HerdCollapsed'
        /\ \E q \in Handler : /\ q.pc \in {"idle", "failed", "info"} /\ q.version = Nothing
                              /\ Moves(r, q)
    BY <1>1, AfterInfoStep
  <1>4. PICK q \in Handler : /\ q.pc \in {"idle", "failed", "info"} /\ q.version = Nothing
                             /\ Moves(r, q)
    BY <1>3
  <1>5. req'[r] = q /\ \A s \in Requests : s # r => req'[s] = req[s]
    BY <1>4 DEF Moves, DataOK
  <1>6. DataOK'
    BY <1>1, <1>2, <1>3, <1>4, DataKept
  <1>7. InfoNotOverstated'
    BY <1>1, <1>2 DEF InfoNotOverstated, Dates, AnswersDated
  <1>8. AnswersDated' /\ CurrentVersions'
    BY <1>1, <1>4, <1>5 DEF AnswersDated, CurrentVersions, Dates
  <1> QED
    BY <1>3, <1>6, <1>7, <1>8 DEF Dates

LEMMA InvGetFails ==
    ASSUME Inv, NEW r \in Requests, GetFails(r)
    PROVE  Inv'
  <1> USE DEF Inv
  <1>1. UNCHANGED <<info, deployed, obsolete>> /\ AfterInfo(r, info)
    BY DEF GetFails
  <1>2. /\ predicted' \in [Devices -> 0 .. TTL] /\ QueueOK' /\ HerdCollapsed'
        /\ \E q \in Handler : /\ q.pc \in {"idle", "failed", "info"} /\ q.version = Nothing
                              /\ Moves(r, q)
    BY <1>1, AfterInfoStep
  <1>3. PICK q \in Handler : /\ q.pc \in {"idle", "failed", "info"} /\ q.version = Nothing
                             /\ Moves(r, q)
    BY <1>2
  <1>4. DataOK' /\ Dates'
    BY <1>1, <1>2, <1>3, DataKept, DatesKept DEF DataOK
  <1> QED
    BY <1>2, <1>4

\* An exception nobody catches ends the snapshot, inside the lock or outside.
LEMMA InvParseRaises ==
    ASSUME Inv, NEW r \in Requests, ParseRaises(r)
    PROVE  Inv'
  <1> USE DEF Inv
  <1>1. /\ UNCHANGED <<predicted, info, deployed, obsolete>> /\ Moves(r, Failed)
        /\ req[r].pc \in {"post", "meta", "info"}
        /\ queue' = IF req[r].pc = "info" THEN queue ELSE Tail(queue)
    BY DEF ParseRaises, Moves
  <1>2. QueueOK' /\ HerdCollapsed'
    <2>1. CASE req[r].pc = "info"
      BY <1>1, <2>1, FreshHandlers, OutsideStep
    <2>2. CASE req[r].pc \in {"post", "meta"}
      <3>1. Head(queue) = r /\ r \in Inside
        BY <2>2 DEF HerdCollapsed, Inside
      <3> QED
        BY <1>1, <2>2, <3>1, FreshHandlers, LockReleased
    <2> QED
      BY <1>1, <2>1, <2>2
  <1>3. DataOK' /\ Dates'
    BY <1>1, FreshHandlers, DataKept, DatesKept DEF DataOK
  <1> QED
    BY <1>2, <1>3

\* Ages only grow, never past their limit, and in step with each other.
LEMMA OlderFacts ==
    ASSUME NEW n \in Nat, NEW a \in 0 .. n, NEW b \in 0 .. n
    PROVE  /\ Older(a, n) \in 0 .. n
           /\ a <= b => Older(a, n) <= Older(b, n)
           /\ Older(b, n) < n => b < n
           /\ Older(n, n) = n
           /\ 0 <= Older(a, n)
  BY DEF Older

LEMMA InvPass ==
    ASSUME Inv, Pass
    PROVE  Inv'
  <1> USE DEF Inv
  <1>0. TTL \in Nat /\ InfoTTL \in Nat /\ UNCHANGED <<queue, deployed>>
    BY ModelServiceAssumption DEF Pass
  <1>1. predicted' \in [Devices -> 0 .. TTL]
        /\ \A d \in Devices : predicted[d] = TTL => predicted'[d] = TTL
    BY <1>0, OlderFacts DEF Pass, DataOK
  <1>2. /\ info' \in [age : 0 .. InfoTTL, version : Versions \cup {Nothing}]
        /\ info'.age = Older(info.age, InfoTTL) /\ info'.version = info.version
        /\ info.age \in 0 .. InfoTTL
    BY <1>0, OlderFacts DEF Pass, DataOK
  <1>3. \A v \in Versions : /\ obsolete[v] \in 0 .. InfoTTL
                            /\ obsolete'[v] \in {Older(obsolete[v], InfoTTL), 0}
                            /\ v >= deployed => obsolete'[v] = 0
    BY VersionFacts DEF Pass, DataOK
  <1>4. obsolete' \in [Versions -> 0 .. InfoTTL]
    <2>1. \A v \in Versions : Older(obsolete[v], InfoTTL) \in 0 .. InfoTTL
      BY <1>0, <1>3, OlderFacts
    <2> QED
      BY <1>0, <2>1 DEF Pass
  <1>5. ASSUME NEW r \in Requests
        PROVE  /\ req'[r] \in Handler
               /\ req'[r].pc = req[r].pc /\ req'[r].device = req[r].device
               /\ req'[r].version = req[r].version
               /\ req[r].age \in 0 .. InfoTTL
               /\ req[r].pc \in {"meta", "info"} => req'[r].age = Older(req[r].age, InfoTTL)
    <2>1. req[r] \in Handler /\ req[r].age \in 0 .. InfoTTL
      BY DEF DataOK, Handler
    <2>2. Older(req[r].age, InfoTTL) \in 0 .. InfoTTL
      BY <1>0, <2>1, OlderFacts
    <2>3. CASE req[r].pc \in {"meta", "info"}
      <3>1. req'[r] = [req[r] EXCEPT !.age = Older(req[r].age, InfoTTL)]
        BY <2>3 DEF Pass
      <3> QED
        BY <2>1, <2>2, <2>3, <3>1 DEF Handler
    <2>4. CASE req[r].pc \notin {"meta", "info"}
      BY <2>1, <2>4 DEF Pass
    <2> QED
      BY <2>3, <2>4
  <1>6. DataOK'
    <2>1. req' \in [Requests -> Handler]
      BY <1>5 DEF Pass
    <2> QED
      BY <1>0, <1>1, <1>2, <1>4, <1>5, <2>1 DEF DataOK
  <1>7. QueueOK'
    BY <1>0, <1>5 DEF QueueOK, Inside
  <1>8. HerdCollapsed'
    <2>1. \A r \in Requests : req[r].pc \in {"post", "meta"} => req[r].device \in Devices
      BY DEF DataOK
    <2> QED
      BY <1>0, <1>1, <1>5, <2>1 DEF HerdCollapsed
  <1>9. ASSUME NEW v \in Versions, NEW b \in 0 .. InfoTTL, obsolete[v] <= b
        PROVE  obsolete'[v] <= Older(b, InfoTTL)
    <2>1. Older(obsolete[v], InfoTTL) <= Older(b, InfoTTL) /\ 0 <= Older(b, InfoTTL)
      BY <1>0, <1>3, <1>9, OlderFacts
    <2> QED
      BY <1>3, <2>1
  <1>10. InfoNotOverstated'
    <2>1. info'.age < InfoTTL => info.age < InfoTTL
      BY <1>0, <1>2, OlderFacts
    <2>2. info.version # Nothing => info.version \in Versions
      BY DEF DataOK
    <2> QED
      BY <1>2, <1>9, <2>1, <2>2 DEF InfoNotOverstated, Dates
  <1>11. AnswersDated'
    <2> SUFFICES ASSUME NEW r \in Requests, req'[r].version # Nothing
                 PROVE  /\ req'[r].pc \in {"meta", "info"}
                        /\ obsolete'[req'[r].version] <= req'[r].age
      BY DEF AnswersDated
    <2>1. /\ req[r].version \in Versions /\ req[r].pc \in {"meta", "info"}
          /\ obsolete[req[r].version] <= req[r].age
      BY <1>5 DEF Dates, AnswersDated, DataOK, Handler
    <2> QED
      BY <1>5, <1>9, <2>1
  <1>12. CurrentVersions'
    BY <1>0, <1>3 DEF CurrentVersions
  <1> QED
    BY <1>6, <1>7, <1>8, <1>10, <1>11, <1>12 DEF Dates

LEMMA InvDeploy ==
    ASSUME Inv, Deploy
    PROVE  Inv'
  <1> USE DEF Inv
  <1>1. UNCHANGED <<predicted, info, queue, req, obsolete>> /\ deployed' = deployed + 1
        /\ deployed' \in Versions /\ deployed \in Versions
    BY ModelServiceAssumption DEF Deploy, DataOK, Versions
  <1>2. DataOK' /\ QueueOK' /\ HerdCollapsed'
    BY <1>1 DEF DataOK, QueueOK, Inside, HerdCollapsed
  <1>3. CurrentVersions'
    BY <1>1, VersionFacts DEF CurrentVersions, Dates
  <1> QED
    BY <1>1, <1>2, <1>3 DEF Dates, InfoNotOverstated, AnswersDated

\* Every step preserves the inductive invariant.
LEMMA InvStep == Inv /\ [Next]_vars => Inv'
  <1> SUFFICES ASSUME Inv, [Next]_vars PROVE Inv'
    OBVIOUS
  <1>1. CASE UNCHANGED vars
    BY <1>1 DEF vars, Inv, DataOK, QueueOK, Inside, HerdCollapsed, Dates, InfoNotOverstated,
                AnswersDated, CurrentVersions
  <1>2. CASE Next
    BY <1>2, InvArrive, InvTurn, InvPostReturns, InvPostFails, InvGetAnswered, InvGetReturns,
       InvGetFails, InvParseRaises, InvPass, InvDeploy
    DEF Next, PostEnds, GetEnds
  <1> QED
    BY <1>1, <1>2

\* Caches, queue and handlers keep their types, and the queue at the lock is
\* made of the handlers inside the locked part of predict, each once.
THEOREM TypeCorrect == Spec => []TypeOK
  <1>1. Inv => TypeOK
    BY TypeSplit DEF Inv
  <1> QED
    BY <1>1, InitInv, InvStep, PTL DEF Spec

\* However many snapshots arrive and whatever fails, one handler at a time asks
\* the service, and never for a device whose prediction is still good (the lock
\* of predict, and the second look at the cache behind it).
THEOREM HerdCollapses == Spec => []HerdCollapsed
  <1>1. Inv => HerdCollapsed
    BY DEF Inv
  <1> QED
    BY <1>1, InitInv, InvStep, PTL DEF Spec

\* Metadata that counts as fresh was true no longer ago than its stamp says, in
\* whatever order the answers of overlapping calls are stored (info).
THEOREM InfoDated == Spec => []InfoNotOverstated
  <1>1. Inv => InfoNotOverstated
    BY DEF Inv, Dates
  <1> QED
    BY <1>1, InitInv, InvStep, PTL DEF Spec

============================================================================

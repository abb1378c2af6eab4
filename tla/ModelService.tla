---------------------------- MODULE ModelService ----------------------------
(***************************************************************************)
(* The client of the external model service and the snapshot that uses it: *)
(* app/repositories/http/model_service.py, app/services/snapshot_service   *)
(* .py.                                                                    *)
(*                                                                         *)
(* A snapshot asks predict for its device and then info for the metadata.  *)
(* predict keeps its answers for TTL and lets one handler at a time ask    *)
(* the service, behind an asyncio lock; info keeps its answer for InfoTTL  *)
(* and takes no lock, so that requests for it overlap and their answers    *)
(* arrive in any order.  Every call ends, by an answer, an error or the    *)
(* timeout; without an answer the snapshot shows generated values.  A      *)
(* client that is disabled answers without a call and keeps nothing.       *)
(*                                                                         *)
(* A body may also be one that no except clause is ready for: an integer   *)
(* no float holds (OverflowError), nesting too deep for the parser         *)
(* (RecursionError), or metadata that float() accepts and the JSON of the  *)
(* response does not (NaN).  Such an exception ends the snapshot in a 500. *)
(*                                                                         *)
(* Time is told by ages: how long ago something was stamped, up to the     *)
(* age at which it has expired.                                            *)
(***************************************************************************)
EXTENDS Naturals, Sequences, SequencesExt

CONSTANTS
    Requests,    \* handlers of GET /ui/snapshot
    Devices,
    TTL,         \* model_cache_ttl_s
    InfoTTL,     \* _INFO_TTL_S
    MaxVersions, \* versions the service may run, a bound
    Oversized,   \* the ones of them whose bodies may have such numbers or nesting
    Unrenderable,  \* the ones of them whose metadata has a reg_r2 of that kind
    Nothing      \* no device, no version

ASSUME ModelServiceAssumption ==
    /\ TTL \in Nat \ {0}
    /\ InfoTTL \in Nat \ {0}
    /\ MaxVersions \in Nat \ {0}
    /\ Oversized \subseteq 1 .. MaxVersions
    /\ Unrenderable \subseteq 1 .. MaxVersions
    /\ Nothing \notin Devices
    /\ Nothing \notin Nat

Versions == 1 .. MaxVersions

VARIABLES
    predicted,  \* _cache: the age of each device's prediction
    info,       \* _info_cache: its age and the version in it
    queue,      \* the handlers at the lock, the first one holds it
    req,        \* the handlers
    deployed,   \* the version the service runs
    obsolete    \* how long ago each version was replaced

vars == <<predicted, info, queue, req, deployed, obsolete>>

Bodies == {"usable", "unusable", "oversized"}

Idle == [pc |-> "idle", device |-> Nothing, body |-> "unusable", age |-> 0, version |-> Nothing]

\* The snapshot has ended in a 500.
Failed == [Idle EXCEPT !.pc = "failed"]

Init ==
    /\ predicted = [d \in Devices |-> TTL]
    /\ info = [age |-> InfoTTL, version |-> Nothing]
    /\ queue = <<>>
    /\ req = [r \in Requests |-> Idle]
    /\ deployed = 1
    /\ obsolete = [v \in Versions |-> 0]

\* build_snapshot renders the payload with metadata i; _float_or does not catch
\* the OverflowError of an oversized reg_r2, and lets NaN and infinity through.
Rendered(i) == IF i.version \in Unrenderable THEN Failed ELSE Idle

\* predict has returned or raised ModelServiceError, the rest of build_snapshot
\* is info(): with fresh metadata i in the cache the payload is rendered at
\* once, otherwise the GET is sent.
AfterPredict(i) == IF i.age < InfoTTL THEN Rendered(i) ELSE [Idle EXCEPT !.pc = "info"]

----------------------------------------------------------------------------
\* predict up to the lock: a fresh prediction is returned.
Arrive(r, d) ==
    /\ req[r].pc \in {"idle", "failed"}
    /\ IF predicted[d] < TTL
         THEN /\ req' = [req EXCEPT ![r] = AfterPredict(info)]
              /\ UNCHANGED queue
         ELSE /\ req' = [req EXCEPT ![r] = [Idle EXCEPT !.pc = "wait", !.device = d]]
              /\ queue' = Append(queue, r)
    /\ UNCHANGED <<predicted, info, deployed, obsolete>>

\* Mutant: whoever was first has filled the cache, but nobody looks.
TurnUnchecked(r) ==
    /\ req[r].pc = "wait"
    /\ Head(queue) = r
    /\ req' = [req EXCEPT ![r].pc = "post"]
    /\ UNCHANGED <<predicted, info, queue, deployed, obsolete>>

\* The lock is acquired, first come first served; the cache is looked at again.
Turn(r) ==
    /\ req[r].pc = "wait"
    /\ Head(queue) = r
    /\ IF predicted[req[r].device] < TTL
         THEN /\ req' = [req EXCEPT ![r] = AfterPredict(info)]
              /\ queue' = Tail(queue)
         ELSE /\ req' = [req EXCEPT ![r].pc = "post"]
              /\ UNCHANGED queue
    /\ UNCHANGED <<predicted, info, deployed, obsolete>>

\* _to_prediction: a usable body becomes the prediction, which is stored,
\* stamped now; an unusable one raises ModelServiceError, an oversized one an
\* OverflowError.  In each case the lock is released.
Finish(r, i, body) ==
    /\ predicted' = IF body = "usable" THEN [predicted EXCEPT ![req[r].device] = 0] ELSE predicted
    /\ queue' = Tail(queue)
    /\ req' = [req EXCEPT ![r] = IF body = "oversized" THEN Failed ELSE AfterPredict(i)]

\* POST /servo/predict returns an object; info is asked before it is looked at.
PostReturns(r) ==
    /\ req[r].pc = "post"
    /\ \E body \in Bodies :
          /\ body = "oversized" => deployed \in Oversized
          /\ \/ /\ info.age < InfoTTL
                /\ Finish(r, info, body)
             \/ /\ info.age >= InfoTTL
                /\ req' = [req EXCEPT ![r] = [@ EXCEPT !.pc = "meta", !.body = body]]
                /\ UNCHANGED <<predicted, queue>>
    /\ UNCHANGED <<info, deployed, obsolete>>

\* Mutant: a lock that only the regular path releases.
PostFailsLocked(r) ==
    /\ req[r].pc = "post"
    /\ req' = [req EXCEPT ![r] = AfterPredict(info)]
    /\ UNCHANGED <<predicted, info, queue, deployed, obsolete>>

\* Mutant: the handler that holds the lock tries until it gets an answer.
PostRetries(r) ==
    /\ req[r].pc = "post"
    /\ req' = [req EXCEPT ![r].pc = "wait"]
    /\ UNCHANGED <<predicted, info, queue, deployed, obsolete>>

\* An error, a timeout, or a body that is no object: ModelServiceError.
PostFails(r) ==
    /\ req[r].pc = "post"
    /\ Finish(r, info, "unusable")
    /\ UNCHANGED <<info, deployed, obsolete>>

\* What is left to do for a handler whose info() returns with i in the cache.
AfterInfo(r, i) ==
    \/ req[r].pc = "meta" /\ Finish(r, i, req[r].body)
    \/ /\ req[r].pc = "info"
       /\ req' = [req EXCEPT ![r] = Rendered(i)]
       /\ UNCHANGED <<predicted, queue>>

\* The service answers a GET with the version it runs; the answer travels.
GetAnswered(r) ==
    /\ req[r].pc \in {"meta", "info"}
    /\ req[r].version = Nothing
    /\ req' = [req EXCEPT ![r].version = deployed]
    /\ UNCHANGED <<predicted, info, queue, deployed, obsolete>>

\* Mutant: the stamp is taken when the answer arrives.
StampLate(r) == [age |-> 0, version |-> req[r].version]

\* The stamp of _info_cache is the time before the request.
Stamp(r) == [age |-> req[r].age, version |-> req[r].version]

\* ... and is stored when it arrives, over whatever is there by then.
GetReturns(r) ==
    /\ req[r].pc \in {"meta", "info"}
    /\ req[r].version # Nothing
    /\ info' = Stamp(r)
    /\ AfterInfo(r, Stamp(r))
    /\ UNCHANGED <<deployed, obsolete>>

\* The GET fails: info returns what it has, however old.
GetFails(r) ==
    /\ req[r].pc \in {"meta", "info"}
    /\ AfterInfo(r, info)
    /\ UNCHANGED <<info, deployed, obsolete>>

\* Parsing the answer raises what _request does not catch: nothing is stored,
\* the lock is released by whoever holds it, and no info() follows.
ParseRaises(r) ==
    /\ \/ req[r].pc = "post" /\ deployed \in Oversized
       \/ req[r].pc \in {"meta", "info"} /\ req[r].version \in Oversized
    /\ queue' = IF req[r].pc = "info" THEN queue ELSE Tail(queue)
    /\ req' = [req EXCEPT ![r] = Failed]
    /\ UNCHANGED <<predicted, info, deployed, obsolete>>

----------------------------------------------------------------------------
Older(age, limit) == IF age < limit THEN age + 1 ELSE limit

\* Time passes.
Pass ==
    /\ predicted' = [d \in Devices |-> Older(predicted[d], TTL)]
    /\ info' = [info EXCEPT !.age = Older(@, InfoTTL)]
    /\ req' = [r \in Requests |->
                 IF req[r].pc \in {"meta", "info"}
                   THEN [req[r] EXCEPT !.age = Older(@, InfoTTL)] ELSE req[r]]
    /\ obsolete' = [v \in Versions |->
                      IF v < deployed THEN Older(obsolete[v], InfoTTL) ELSE 0]
    /\ UNCHANGED <<queue, deployed>>

\* The service is redeployed with another model.
Deploy ==
    /\ deployed < MaxVersions
    /\ deployed' = deployed + 1
    /\ UNCHANGED <<predicted, info, queue, req, obsolete>>

PostEnds(r) == PostReturns(r) \/ PostFails(r)

GetEnds(r) == GetReturns(r) \/ GetFails(r)

Next ==
    \/ \E r \in Requests :
          \/ \E d \in Devices : Arrive(r, d)
          \/ Turn(r) \/ PostEnds(r) \/ GetAnswered(r) \/ GetEnds(r) \/ ParseRaises(r)
    \/ Pass
    \/ Deploy

Spec == Init /\ [][Next]_vars

\* The event loop resumes handlers, and httpx ends every call.
FairSpec ==
    Spec /\ \A r \in Requests :
               WF_vars(Turn(r) \/ PostEnds(r) \/ GetEnds(r) \/ ParseRaises(r))

----------------------------------------------------------------------------
Handler == [pc : {"idle", "wait", "post", "meta", "info", "failed"},
            device : Devices \cup {Nothing},
            body : Bodies,
            age : 0 .. InfoTTL,
            version : Versions \cup {Nothing}]

\* Caches and handlers hold values of their types, and the handlers at the
\* lock are the ones inside the locked part of predict, each once.
TypeOK ==
    /\ predicted \in [Devices -> 0 .. TTL]
    /\ info \in [age : 0 .. InfoTTL, version : Versions \cup {Nothing}]
    /\ req \in [Requests -> Handler]
    /\ deployed \in Versions
    /\ obsolete \in [Versions -> 0 .. InfoTTL]
    /\ queue \in Seq(Requests)
    /\ IsInjective(queue)
    /\ ToSet(queue) = {r \in Requests : req[r].pc \in {"wait", "post", "meta"}}
    /\ \A r \in Requests :
          req[r].pc \notin {"idle", "failed", "info"} => req[r].device \in Devices

\* The herd collapses onto one call: whoever waits and whatever fails, at most
\* one prediction is being asked for, and never one for a device whose cached
\* prediction is still good (predict looks again behind the lock).
HerdCollapsed ==
    \A r \in Requests :
        req[r].pc \in {"post", "meta"} =>
            Head(queue) = r /\ predicted[req[r].device] = TTL

\* Metadata is never taken for fresher than it is, although answers overtake
\* each other and an older one may overwrite a newer: while the cached version
\* counts as fresh, the service was still running it less than InfoTTL ago, and
\* not replaced it before the stamp (info stamps the time before its request).
InfoNotOverstated ==
    info.age < InfoTTL => info.version # Nothing /\ obsolete[info.version] <= info.age

\* Every snapshot is answered, with the service down, slow or returning garbage,
\* and with any number of others arriving (the lock is released on every path
\* and served in order); and its first screen is rendered, not a 500, unless a
\* version was deployed that sends what no except clause is ready for.
Answered ==
    \A r \in Requests :
        req[r].pc \notin {"idle", "failed"} ~>
            \/ req[r].pc = "idle"
            \/ req[r].pc = "failed" /\ \E v \in Oversized \cup Unrenderable : v <= deployed

============================================================================

----------------------------- MODULE PodStatus -----------------------------
(***************************************************************************)
(* The work queue of the controller and the status of the Search CR: the   *)
(* request named Pod/<name> that every event of a search pod enqueues, and *)
(* updateStatus, which folds the Ready conditions of the pods of one       *)
(* Deployment into one condition of the Search.                            *)
(*                                                                         *)
(* `versions' holds the Search CR from the version in the informer cache   *)
(* (its first) to the stored one (its last).  Status().Update replaces the *)
(* whole status and is refused unless the worker's copy is the stored one. *)
(* The Search is there all the time: SearchLifecycle has its life.         *)
(***************************************************************************)
EXTENDS Integers, Sequences, FiniteSets, Bounds

CONSTANTS PodsOf,    \* the names the pods of each Deployment may have
          Overrides  \* images people ask for the collector in the Search CR

Deployments == DOMAIN PodsOf
Pods == UNION {PodsOf[d] : d \in Deployments}
ASSUME PodsAssumption ==
  \A d, e \in Deployments : d # e => PodsOf[d] \cap PodsOf[e] = {}

VARIABLES versions,  \* versions of the Search CR: Head cached, Last stored
          pods,      \* the search pods in the informer cache
          queue,     \* the requests in the work queue
          request,   \* the one at work
          inst,      \* `instance', the Search CR the worker holds
          fresh,     \* does inst still have the stored resourceVersion
          missed     \* history: Deployments found without pods by a restart

podVars == <<versions, pods, queue, request, inst, fresh, missed>>
worker == <<request, inst, fresh>>

Unset == ""
None == "none"
SearchRequest == "search"

\* ready: the conditions Ready--<deployment>; feature: the condition of the
\* optional features; want: the annotation that asks for them; override: the
\* image asked for the collector.
Search == [ready : [Deployments -> {None, "True", "False"}], feature : BOOLEAN,
           want : BOOLEAN, override : Overrides \cup {Unset}]
NewSearch == [ready |-> [d \in Deployments |-> None], feature |-> FALSE,
              want |-> FALSE, override |-> Unset]

Cached == Head(versions)
Stored == versions[Len(versions)]

\* What a pod says of itself: an unscheduled one has no Ready condition.
PodStates == {"absent", "noReady", "True", "False"}
Present == {p \in Pods : pods[p] # "absent"}

VersionsOK == versions \in Seq(Search) /\ versions # <<>> /\ inst \in Search

PodTypeOK ==
  /\ VersionsOK /\ fresh \in BOOLEAN
  /\ pods \in [Pods -> PodStates]
  /\ queue \subseteq Pods \cup {SearchRequest}
  /\ request \in Pods \cup {SearchRequest, None}
  /\ missed \subseteq Deployments
  /\ faults \in Nat /\ edits \in Nat /\ faults + edits <= MaxEvents

\* The process starts: the informers list what is there.
Listed == Present \cup {SearchRequest}
PodInit ==
  /\ versions = <<NewSearch>>
  /\ pods \in [Pods -> {"absent", "True"}]
  /\ queue = Listed
  /\ request = None /\ inst = NewSearch /\ fresh = FALSE /\ missed = {}
  /\ faults = 0 /\ edits = 0

-----------------------------------------------------------------------------
(* The worker takes one request at a time.                                 *)

Take(r) ==
  /\ request = None /\ r \in queue
  /\ queue' = queue \ {r} /\ request' = r
  /\ inst' = Cached /\ fresh' = (Len(versions) = 1)
  /\ UNCHANGED <<versions, pods, missed>>

Release == request' = None /\ inst' = NewSearch /\ fresh' = FALSE
           /\ UNCHANGED <<pods, missed>>
Done == Release /\ UNCHANGED queue
Retry == Release /\ queue' = queue \cup {request}

\* Status().Update.  The API server makes no new version of an object that is
\* sent unchanged.
Write(v) == versions' = IF v = Stored THEN versions ELSE Append(versions, v)

deploymentName(p) == CHOOSE d \in Deployments : p \in PodsOf[d]

\* updateStatusCondition: one replica that is not ready outweighs the others;
\* pods that say nothing leave the condition as it is.
Said(d) == {pods[p] : p \in Present \cap PodsOf[d]} \ {"noReady"}
podCondition(d) == IF "False" \in Said(d) THEN "False" ELSE "True"
WithReady(v, d, s) == [v EXCEPT !.ready[d] = s]
updateStatusCondition(v, d) ==
  IF Said(d) = {} THEN v ELSE WithReady(v, d, podCondition(d))

\* No pods at all is a False of its own, stamped with the time of day: always a
\* new version.
SendStatus(v, d) ==
  IF Present \cap PodsOf[d] = {}
  THEN versions' = Append(versions, WithReady(v, d, "False"))
  ELSE Write(updateStatusCondition(v, d))

\* Mutants: the status is sent over whatever is stored; the conflict is only
\* logged, as that of the features is.
updateStatusUnconditional ==
  /\ request \in Pods
  /\ SendStatus([inst EXCEPT !.want = Stored.want, !.override = Stored.override],
                deploymentName(request))
  /\ Done /\ NoFault /\ UNCHANGED edits
updateStatusLogsConflict ==
  /\ request \in Pods
  /\ IF fresh THEN SendStatus(inst, deploymentName(request)) ELSE UNCHANGED versions
  /\ Done /\ NoFault /\ UNCHANGED edits

\* List the pods and write the status.
updateStatus ==
  /\ request \in Pods
  /\ \/ fresh /\ SendStatus(inst, deploymentName(request)) /\ Done /\ NoFault
     \/ ~fresh /\ Retry /\ NoFault /\ UNCHANGED versions
     \/ Fault /\ Retry /\ UNCHANGED versions
  /\ UNCHANGED edits

-----------------------------------------------------------------------------
(* Everything around the worker.                                           *)

\* The informer moves one version on and the Search event enqueues a request.
Deliver ==
  /\ Len(versions) > 1
  /\ versions' = Tail(versions)
  /\ queue' = queue \cup {SearchRequest}
  /\ UNCHANGED <<pods, worker, missed, faults, edits>>

Resync ==
  /\ ~(Listed \subseteq queue) /\ queue' = queue \cup Listed
  /\ UNCHANGED <<versions, pods, worker, missed, faults, edits>>

\* A restart: requests for pods that are gone are never made again.
Restart ==
  /\ versions' = <<Stored>>
  /\ request' = None /\ inst' = NewSearch /\ fresh' = FALSE
  /\ queue' = Listed
  /\ missed' = {d \in Deployments : Present \cap PodsOf[d] = {}}
  /\ UNCHANGED pods

\* A pod appears, reports or goes; the Pod watch has no predicate.
PodEvent(p, s) ==
  /\ Edit /\ pods[p] # s
  /\ pods' = [pods EXCEPT ![p] = s]
  /\ queue' = queue \cup {p}
  /\ missed' = missed \ {deploymentName(p)}
  /\ UNCHANGED <<versions, worker, faults>>

\* Somebody else writes the Search CR: what the worker holds is out of date.
EditSearch(v) ==
  /\ Edit /\ v # Stored
  /\ versions' = Append(versions, v) /\ fresh' = FALSE
  /\ UNCHANGED <<pods, queue, request, inst, missed, faults>>
=============================================================================

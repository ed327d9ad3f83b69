-------------------------- MODULE SearchLifecycle --------------------------
(***************************************************************************)
(* The life of the Search custom resource and of the objects its reconciler*)
(* manages: SearchReconciler.Reconcile (controllers/search_controller.go)  *)
(* with the create/update helpers it calls, setFinalizer, finalizeSearch,  *)
(* the watches of SetupWithManager, the garbage collector of the cluster,  *)
(* the people who edit the cluster, failing API calls and operator crashes.*)
(*                                                                         *)
(* The reconciler reads the Search CR from an informer cache that lags     *)
(* behind the API server, and writes it under optimistic concurrency.      *)
(* `versions' holds every version from the one in the cache (its first) to *)
(* the one in the API server (its last); a resourceVersion is only ever    *)
(* compared for equality, so all that is kept of the version in memory is  *)
(* whether it is still the last one (`fresh').                             *)
(*                                                                         *)
(* Reads of the managed objects are modelled as current: a cached read that*)
(* misses a later change is the same behaviour with that change after it,  *)
(* and one that misses a creation makes the Create fail, which is a fault. *)
(***************************************************************************)
EXTENDS Integers, Sequences, FiniteSets

CONSTANTS Plan,       \* the ensure-steps of one reconcile, in order
          MaxGen,     \* bound on the generations of the Search spec
          MaxFaults,  \* bound on failing API calls and operator crashes
          MaxEdits    \* bound on what others do to the cluster

(***************************************************************************)
(* The helpers a reconcile step may call.                                  *)
(***************************************************************************)
Fn == {"createPVC", "createSearchServiceAccount", "createUpdateRoles",
       "createRoleBinding", "ensureWebhookCAInjection",
       "createOrUpdateMergedCollectorConfig", "createSecret",
       "createService", "createCollectorService", "createOrUpdateConfigMap",
       "createOrUpdateDeployment", "createServiceMonitor",
       "createOrUpdateNetworkPolicy", "createConfigMap", "features",
       "createOrUpdatePrometheusRule", "cleanOnce", "deleteLegacy"}

Step(o, f) == [obj |-> o, fn |-> f]

(***************************************************************************)
(* Reconcile after the pause check: every object it ensures, and how.      *)
(* "features" stands for reconcileGlobalSearch, addEnvToSearchAPI,         *)
(* reconcileFineGrainedRBACConfiguration and                               *)
(* reconcileVirtualMachineConfiguration.                                   *)
(***************************************************************************)
ReconcileRBAC ==
  << Step("pvc", "createPVC"),
     Step("api-sa", "createSearchServiceAccount"),
     Step("postgres-sa", "createSearchServiceAccount"),
     Step("indexer-sa", "createSearchServiceAccount"),
     Step("collector-sa", "createSearchServiceAccount"),
     Step("indexer-cr", "createUpdateRoles"),
     Step("addon-cr", "createUpdateRoles"),
     Step("global-search-user-cr", "createUpdateRoles"),
     Step("api-crb", "createRoleBinding"),
     Step("collector-crb", "createRoleBinding"),
     Step("indexer-crb", "createRoleBinding") >>

ReconcileStores ==
  << Step("webhook-ca", "ensureWebhookCAInjection"),
     Step("merged-collector-config", "createOrUpdateMergedCollectorConfig"),
     Step("postgres-secret", "createSecret"),
     Step("api-readonly-secret", "createSecret"),
     Step("mcp-readonly-secret", "createSecret"),
     Step("postgres-svc", "createService"),
     Step("postgres-cm", "createOrUpdateConfigMap"),
     Step("postgres-deploy", "createOrUpdateDeployment") >>

ReconcileComponents ==
  << Step("indexer-svc", "createService"),
     Step("api-svc", "createService"),
     Step("collector-svc", "createCollectorService"),
     Step("indexer-monitor", "createServiceMonitor"),
     Step("api-monitor", "createServiceMonitor"),
     Step("collector-monitor", "createServiceMonitor"),
     Step("collector-deploy", "createOrUpdateDeployment"),
     Step("indexer-deploy", "createOrUpdateDeployment"),
     Step("api-deploy", "createOrUpdateDeployment"),
     Step("postgres-np", "createOrUpdateNetworkPolicy"),
     Step("indexer-np", "createOrUpdateNetworkPolicy"),
     Step("api-np", "createOrUpdateNetworkPolicy"),
     Step("collector-np", "createOrUpdateNetworkPolicy"),
     Step("operator-np", "createOrUpdateNetworkPolicy"),
     Step("indexer-cm", "createConfigMap"),
     Step("ca-cert-cm", "createConfigMap") >>

ReconcileTail ==
  << Step("search-cr", "features"),
     Step("pvc-rule", "createOrUpdatePrometheusRule"),
     Step("legacy-monitors", "cleanOnce"),
     Step("cma-ownerref", "cleanOnce"),
     Step("legacy-cr", "deleteLegacy"),
     Step("legacy-crb", "deleteLegacy"),
     Step("legacy-sa", "deleteLegacy") >>

ReconcilePlan ==
  ReconcileRBAC \o ReconcileStores \o ReconcileComponents \o ReconcileTail

(***************************************************************************)
(* finalizeSearch: what is taken down, in this order, before the finalizer *)
(* is removed.  The first entry is the Search owner reference on the       *)
(* ClusterManagementAddon, the others are deleted objects.                 *)
(***************************************************************************)
finalizeSearchWithoutIndexerCRB == << "cma-ownerref", "addon-cr", "addon-crb",
                     "api-crb", "collector-crb", "indexer-cr" >>  \* mutant
finalizeSearch == << "cma-ownerref", "addon-cr", "addon-crb", "api-crb",
                     "collector-crb", "indexer-cr", "indexer-crb" >>

\* Cluster-scoped objects the reconciler creates: a namespaced Search cannot
\* own them, so the garbage collector never takes them away.
ClusterScoped == {"indexer-cr", "addon-cr", "global-search-user-cr",
                  "api-crb", "collector-crb", "indexer-crb"}

\* Objects of releases before ACM-34432, 2.10 and 2.9.
Legacy == {"legacy-monitors", "cma-ownerref", "legacy-cr", "legacy-crb",
           "legacy-sa", "addon-crb"}

\* The ServiceMonitors, in the namespace of Search, are built without an owner.
Monitors == {"indexer-monitor", "api-monitor", "collector-monitor"}

\* Not owned by Search: no owner reference is set on these.
Unowned == ClusterScoped \cup Legacy \cup Monitors \cup {"pvc", "webhook-ca", "search-cr"}

Objects == {Plan[i].obj : i \in DOMAIN Plan}
             \cup {finalizeSearch[i] : i \in DOMAIN finalizeSearch}

ASSUME PlanAssumption == Plan \in Seq([obj : STRING, fn : Fn])
ASSUME BoundsAssumption ==
  MaxGen \in Nat \ {0} /\ MaxFaults \in Nat /\ MaxEdits \in Nat

-----------------------------------------------------------------------------
VARIABLES versions,  \* versions of the Search CR: Head cached, Last stored
          objs,      \* the managed objects
          phase,     \* where the worker is in Reconcile
          at,        \* the step of Plan or of finalizeSearch it is at
          inst,      \* `instance', the Search CR the worker holds
          fresh,     \* does inst still have the stored resourceVersion
          queued,    \* is a request for the Search CR in the work queue
          addon,     \* once: has this process started the addon manager
          cleaned,   \* cleanOnce: has this process done the migrations
          faults,    \* API calls failed and crashes so far
          edits      \* what others have done so far

once == <<addon, cleaned>>
vars == <<versions, objs, phase, at, inst, fresh, queued, addon, cleaned,
          faults, edits>>
cluster == <<versions, objs>>
worker == <<phase, at, inst, fresh>>

Search == [exists : BOOLEAN, uid : Nat, gen : Nat, finalizer : BOOLEAN,
           deleting : BOOLEAN, paused : BOOLEAN]
Gone(u) == [exists |-> FALSE, uid |-> u, gen |-> 0, finalizer |-> FALSE,
            deleting |-> FALSE, paused |-> FALSE]
NewSearch(u) == [exists |-> TRUE, uid |-> u, gen |-> 1, finalizer |-> FALSE,
                 deleting |-> FALSE, paused |-> FALSE]
Finalizable(v) == [v EXCEPT !.finalizer = TRUE]
MarkedDeleted(v) == [v EXCEPT !.deleting = TRUE]
WithPause(v, p) == [v EXCEPT !.paused = p]
NextGen(v) == [v EXCEPT !.gen = @ + 1]

\* owner is the uid in the controller reference, 0 when there is none; gen is
\* the spec generation the content was built from, 0 when somebody changed it.
Object == [there : BOOLEAN, owner : Nat, gen : Nat]
Absent == [there |-> FALSE, owner |-> 0, gen |-> 0]
Rebuilt(x, g) == [x EXCEPT !.gen = g]
Preexisting == [there |-> TRUE, owner |-> 0, gen |-> 0]

Phases == {"idle", "setFinalizer", "apply", "finalize"}

Cached == Head(versions)
Stored == versions[Len(versions)]
Active == Stored.exists /\ ~Stored.deleting /\ ~Stored.paused

FlagsOK == fresh \in BOOLEAN /\ queued \in BOOLEAN /\ cleaned \in BOOLEAN

TypeOK ==
  /\ versions \in Seq(Search) /\ versions # <<>>
  /\ objs \in [Objects -> Object]
  /\ phase \in Phases /\ at \in Nat /\ inst \in Search
  /\ addon \in {"none", "started", "failed"}
  /\ faults \in Nat /\ edits \in Nat
  /\ FlagsOK

(***************************************************************************)
(* A hub without Search, or one upgraded from an older release: its Search *)
(* carries the finalizer and the legacy objects are still there.           *)
(***************************************************************************)
Init ==
  /\ \/ /\ versions = <<Gone(0)>>
        /\ objs = [o \in Objects |-> IF o = "webhook-ca"
                                     THEN Preexisting ELSE Absent]
     \/ /\ versions = << Finalizable(NewSearch(1)) >>
        /\ objs = [o \in Objects |-> IF o \in Legacy \cup {"webhook-ca"}
                                     THEN Preexisting ELSE Absent]
  /\ phase = "idle" /\ at = 0 /\ inst = Gone(0) /\ fresh = FALSE
  /\ queued = TRUE
  /\ addon = "none" /\ cleaned = FALSE
  /\ faults = 0 /\ edits = 0

-----------------------------------------------------------------------------
(* The worker: one reconcile at a time.                                    *)

Fault == faults < MaxFaults /\ faults' = faults + 1
NoFault == UNCHANGED faults

IdleOffByOne == phase' = "idle" /\ at' = at - 1 /\ inst' = Gone(0)
                  /\ fresh' = FALSE                               \* mutant
Idle == phase' = "idle" /\ at' = 0 /\ inst' = Gone(0) /\ fresh' = FALSE
Return == Idle /\ UNCHANGED queued
Requeue == Idle /\ queued' = TRUE
Enqueue(q) == IF q THEN queued' = TRUE ELSE UNCHANGED queued
Goto(p, i) == phase' = p /\ at' = i /\ UNCHANGED queued
KeepInst == UNCHANGED <<inst, fresh>>

\* r.Update / r.Status().Update of the instance: refused unless it is fresh.
UpdateSearch(v) == fresh /\ versions' = Append(versions, v)

\* Get the instance from the cache, start the addon once, go on to setFinalizer.
StartReconcile ==
  /\ phase = "idle" /\ queued
  /\ queued' = FALSE
  /\ IF Cached.exists
     THEN /\ phase' = "setFinalizer" /\ at' = 0
          /\ inst' = Cached
          /\ \/ Len(versions) = 1 /\ fresh' = TRUE
             \/ Len(versions) > 1 /\ fresh' = FALSE
          /\ IF addon = "none"
             THEN \/ addon' = "started" /\ NoFault
                  \/ addon' = "failed" /\ Fault
             ELSE UNCHANGED addon /\ NoFault
     ELSE Idle /\ UNCHANGED addon /\ NoFault
  /\ UNCHANGED <<cluster, cleaned, edits>>

\* What follows setFinalizer when it neither failed nor deleted: IsPaused.
PauseCheck(v, f) ==
  IF v.paused THEN Return
  ELSE Goto("apply", 1) /\ inst' = v /\ fresh' = f

\* Mutants: the pause check comes first; a conflict is only logged; a paused
\* Search is torn down.
setFinalizerAfterPause ==
  /\ phase = "setFinalizer"
  /\ IF inst.paused THEN Return /\ NoFault /\ UNCHANGED versions
     ELSE \/ inst.deleting /\ Goto("finalize", 1) /\ KeepInst /\ NoFault
             /\ UNCHANGED versions
          \/ ~inst.deleting /\ fresh
             /\ LET v == Finalizable(inst)
                IN UpdateSearch(v) /\ PauseCheck(v, TRUE) /\ NoFault
          \/ ~inst.deleting /\ ~fresh /\ Requeue /\ NoFault /\ UNCHANGED versions
  /\ UNCHANGED <<objs, once, edits>>
setFinalizerIgnoresConflict ==
  /\ phase = "setFinalizer"
  /\ \/ inst.deleting /\ inst.finalizer
        /\ Goto("finalize", 1) /\ KeepInst /\ NoFault /\ UNCHANGED versions
     \/ inst.deleting /\ ~inst.finalizer
        /\ Return /\ NoFault /\ UNCHANGED versions
     \/ ~inst.deleting
        /\ LET v == Finalizable(inst)
           IN /\ PauseCheck(v, fresh) /\ NoFault
              /\ IF fresh /\ ~inst.finalizer THEN UpdateSearch(v) ELSE UNCHANGED versions
  /\ UNCHANGED <<objs, once, edits>>
setFinalizerTearsDownPaused ==
  /\ phase = "setFinalizer"
  /\ \/ inst.finalizer /\ (inst.deleting \/ inst.paused)
        /\ Goto("finalize", 1) /\ KeepInst /\ NoFault /\ UNCHANGED versions
     \/ inst.finalizer /\ ~inst.deleting /\ ~inst.paused
        /\ PauseCheck(inst, fresh) /\ NoFault /\ UNCHANGED versions
  /\ UNCHANGED <<objs, once, edits>>

setFinalizer ==
  /\ phase = "setFinalizer"
  /\ \/ inst.deleting /\ inst.finalizer
        /\ Goto("finalize", 1) /\ KeepInst /\ NoFault /\ UNCHANGED versions
     \/ inst.deleting /\ ~inst.finalizer
        /\ Return /\ NoFault /\ UNCHANGED versions
     \/ ~inst.deleting /\ inst.finalizer
        /\ PauseCheck(inst, fresh) /\ NoFault /\ UNCHANGED versions
     \/ ~inst.deleting /\ ~inst.finalizer
        /\ \/ LET v == Finalizable(inst)
              IN UpdateSearch(v) /\ PauseCheck(v, TRUE) /\ NoFault
           \/ ~fresh /\ Requeue /\ NoFault /\ UNCHANGED versions
           \/ Fault /\ Requeue /\ UNCHANGED versions
  /\ UNCHANGED <<objs, once, edits>>

\* One call of finalizeSearch; an error leaves the finalizer in place.
FinalizeStep ==
  /\ phase = "finalize" /\ at <= Len(finalizeSearch)
  /\ \/ /\ objs' = [objs EXCEPT ![finalizeSearch[at]] = Absent]
        /\ Goto("finalize", at + 1) /\ KeepInst /\ NoFault
     \/ Fault /\ Requeue /\ UNCHANGED objs
  /\ UNCHANGED <<versions, once, edits>>

\* RemoveFinalizer and Update: the API server drops a Search that is being
\* deleted with its last finalizer.
RemoveFinalizer ==
  /\ phase = "finalize" /\ at > Len(finalizeSearch)
  /\ \/ UpdateSearch(Gone(inst.uid)) /\ Return /\ NoFault
     \/ ~fresh /\ Requeue /\ NoFault /\ UNCHANGED versions
     \/ Fault /\ Requeue /\ UNCHANGED versions
  /\ UNCHANGED <<objs, once, edits>>

-----------------------------------------------------------------------------
(* The ensure-steps.                                                       *)

Now == Plan[at]
Current == objs[Now.obj]

\* Content that follows the Search spec; the rest is the same in every build.
Wanted(v, f) == IF f \in {"createOrUpdateDeployment",
                          "createOrUpdatePrometheusRule"} THEN v.gen ELSE 1
Built == [there |-> TRUE,
          owner |-> IF Now.obj \in Unowned THEN 0 ELSE inst.uid,
          gen |-> Wanted(inst, Now.fn)]

\* Helpers that correct content they did not build ...
Corrects == {"createUpdateRoles", "createRoleBinding", "ensureWebhookCAInjection",
             "createOrUpdateMergedCollectorConfig", "createOrUpdateConfigMap",
             "createOrUpdateDeployment", "createOrUpdateNetworkPolicy",
             "createOrUpdatePrometheusRule"}
\* ... by sending the object they built, owner reference and all.
SendsWhole == {"createSearchServiceAccount", "createOrUpdateConfigMap",
               "createOrUpdateDeployment", "createOrUpdateNetworkPolicy"}
Deletes == {"cleanOnce", "deleteLegacy"}
Creates == Fn \ (Deletes \cup {"ensureWebhookCAInjection", "features"})

\* Helpers that return when Get fails with anything but NotFound.
GetErrorReturned == {"createUpdateRoles", "createRoleBinding", "createSecret",
  "createService", "createOrUpdateDeployment", "createOrUpdateNetworkPolicy",
  "createOrUpdateMergedCollectorConfig", "createOrUpdatePrometheusRule"}

\* A failing write is logged and the reconcile goes on: Update of a Deployment,
\* everything about the collector Service, the webhook and cleanOnce.
WriteErrorSwallowed ==
  \/ Now.fn \in {"createCollectorService", "ensureWebhookCAInjection", "cleanOnce"}
  \/ Now.fn = "createOrUpdateDeployment" /\ Current.there

\* Mutants: objects are created and never corrected; the legacy RBAC is deleted
\* inside cleanOnce.
NeedsWriteCreateOnly ==
  \/ ~Current.there /\ Now.fn \in Creates
  \/ Current.there /\ Now.fn \in Deletes
NeedsWriteLegacyOnce ==
  \/ ~Current.there /\ Now.fn \in Creates
  \/ Current.there /\ Now.fn \in Corrects /\ Current.gen # Built.gen
  \/ Current.there /\ Now.fn \in Deletes /\ ~cleaned

NeedsWrite ==
  \/ ~Current.there /\ Now.fn \in Creates
  \/ /\ Current.there /\ Now.fn \in Corrects
     /\ \/ Current.gen # Built.gen
        \/ Now.fn = "createOrUpdateNetworkPolicy" /\ Current.owner # Built.owner
  \/ Current.there /\ Now.fn = "deleteLegacy"
  \/ Current.there /\ Now.fn = "cleanOnce" /\ ~cleaned

\* The API server defaults fields the builders leave out, so DeploymentEquals
\* may be false, and the Deployment sent, even when nothing was changed.  Of a
\* ServiceAccount only the number of pull secrets counts, which is not kept here:
\* it is sent again, whatever was changed, when there is more than one.
MayWrite == /\ Now.fn \in {"createOrUpdateDeployment", "createSearchServiceAccount"}
            /\ Current.there

Written ==
  IF Now.fn \in Deletes THEN Absent
  ELSE IF Current.there /\ Now.fn \notin SendsWhole
       THEN Rebuilt(Current, Built.gen) ELSE Built

\* Watch predicates of SetupWithManager: owned ConfigMaps created or updated,
\* owned NetworkPolicies updated or deleted, owned Deployments and Secrets
\* deleted.
EventOnWrite(o, f) ==
  /\ o \notin Unowned
  /\ \/ f \in {"createOrUpdateConfigMap", "createConfigMap"}
     \/ f = "createOrUpdateNetworkPolicy" /\ objs[o].there
EventOnDelete(o) ==
  \E i \in DOMAIN Plan : /\ Plan[i].obj = o
                         /\ Plan[i].fn \in {"createOrUpdateDeployment",
                              "createSecret", "createOrUpdateNetworkPolicy"}

NextStepWith(v, f, q) ==
  /\ Enqueue(q)
  /\ IF at = Len(Plan) THEN Idle
     ELSE phase' = "apply" /\ at' = at + 1 /\ inst' = v /\ fresh' = f
NextStep(q) == NextStepWith(inst, fresh, q)

\* cleanOnce.Do is spent by the last of its steps, whether they worked or not.
SpendOnce ==
  IF Now.fn = "cleanOnce" /\ (at = Len(Plan) \/ Plan[at + 1].fn # "cleanOnce")
  THEN cleaned' = TRUE /\ UNCHANGED addon ELSE UNCHANGED once

ApplyStep ==
  /\ phase = "apply" /\ at \in DOMAIN Plan /\ Now.fn # "features"
  /\ \/ /\ NeedsWrite \/ MayWrite
        /\ objs' = [objs EXCEPT ![Now.obj] = Written]
        /\ NextStep(EventOnWrite(Now.obj, Now.fn)) /\ NoFault
     \/ ~NeedsWrite /\ UNCHANGED objs /\ NextStep(FALSE) /\ NoFault
  /\ SpendOnce
  /\ UNCHANGED <<versions, edits>>

\* Get fails.  createOrUpdateConfigMap takes this for a ConfigMap with no data
\* and overwrites what is there; the helpers outside GetErrorReturned go on as
\* if the object existed.
ApplyGetError ==
  /\ phase = "apply" /\ at \in DOMAIN Plan
  /\ Now.fn \notin Deletes \cup {"features"}
  /\ Fault
  /\ \/ Now.fn \in GetErrorReturned /\ Requeue /\ UNCHANGED objs
     \/ Now.fn = "createOrUpdateConfigMap" /\ ~Current.there
        /\ Requeue /\ UNCHANGED objs
     \/ Now.fn = "createOrUpdateConfigMap" /\ Current.there
        /\ objs' = [objs EXCEPT ![Now.obj] = Built]
        /\ NextStep(EventOnWrite(Now.obj, Now.fn))
     \/ Now.fn \notin GetErrorReturned \cup {"createOrUpdateConfigMap"}
        /\ NextStep(FALSE) /\ UNCHANGED objs
  /\ UNCHANGED <<versions, once, edits>>

\* A Create, Update or Delete fails.  A ClusterRoleBinding with another RoleRef
\* is deleted and created again: the second call can fail after the first.
ApplyWriteError ==
  /\ phase = "apply" /\ at \in DOMAIN Plan
  /\ NeedsWrite \/ MayWrite
  /\ Fault
  /\ \/ UNCHANGED objs
     \/ /\ Now.fn = "createRoleBinding" /\ Current.there
        /\ objs' = [objs EXCEPT ![Now.obj] = Absent]
  /\ IF WriteErrorSwallowed
     THEN NextStep(FALSE) /\ SpendOnce ELSE Requeue /\ UNCHANGED once
  /\ UNCHANGED <<versions, edits>>

\* The optional features may write the Search CR itself (its spec or its
\* status), lose that write to a conflict and go on, or fail the reconcile.
ApplyFeatures ==
  /\ phase = "apply" /\ at \in DOMAIN Plan /\ Now.fn = "features"
  /\ \/ UNCHANGED versions /\ NextStep(FALSE) /\ NoFault
     \/ LET v == NextGen(inst)
        IN /\ inst.gen < MaxGen /\ UpdateSearch(v)
           /\ NextStepWith(v, TRUE, FALSE) /\ NoFault
     \/ UNCHANGED versions /\ Fault /\ Requeue
  /\ UNCHANGED <<objs, once, edits>>

Worker == \/ StartReconcile \/ setFinalizer \/ FinalizeStep \/ RemoveFinalizer
          \/ ApplyStep \/ ApplyGetError \/ ApplyWriteError \/ ApplyFeatures

-----------------------------------------------------------------------------
(* Everything around the worker.                                           *)

\* A request named Pod/...: updateStatus writes the status read from the cache.
UpdateStatus ==
  /\ phase = "idle" /\ Cached.exists /\ Len(versions) = 1
  /\ edits < MaxEdits /\ edits' = edits + 1
  /\ versions' = Append(versions, Cached)
  /\ UNCHANGED <<objs, worker, queued, once, faults>>

\* The informer moves one version on and the Search event enqueues a request.
Deliver ==
  /\ Len(versions) > 1
  /\ versions' = Tail(versions)
  /\ queued' = TRUE
  /\ UNCHANGED <<objs, worker, once, faults, edits>>

\* The periodic resync of the informer.
Resync ==
  /\ Cached.exists /\ ~queued /\ queued' = TRUE
  /\ UNCHANGED <<cluster, worker, once, faults, edits>>

\* The pod of the operator is replaced: it forgets everything it held, lists
\* the Search CR again and gets an event for it.
Crash ==
  /\ Fault
  /\ versions' = <<Stored>>
  /\ Idle /\ queued' = TRUE
  /\ addon' = "none" /\ cleaned' = FALSE
  /\ UNCHANGED <<objs, edits>>

\* The cluster's garbage collector deletes an object whose owner is gone.
Orphaned(o) == /\ objs[o].there /\ objs[o].owner # 0
               /\ ~(Stored.exists /\ Stored.uid = objs[o].owner)
GarbageCollect(o) ==
  /\ Orphaned(o)
  /\ objs' = [objs EXCEPT ![o] = Absent]
  /\ Enqueue(EventOnDelete(o))
  /\ UNCHANGED <<versions, worker, once, faults, edits>>

Edit == edits < MaxEdits /\ edits' = edits + 1

\* Somebody else writes the Search CR: what the worker holds is out of date.
EditSearch(v) ==
  /\ Edit
  /\ versions' = Append(versions, v) /\ fresh' = FALSE
  /\ UNCHANGED <<objs, phase, at, inst, queued, once, faults>>

CreateSearch == ~Stored.exists /\ EditSearch(NewSearch(Stored.uid + 1))
Pause(p) == /\ Stored.exists /\ Stored.paused # p
            /\ EditSearch(WithPause(Stored, p))
ChangeSpec == /\ Stored.exists /\ Stored.gen < MaxGen
              /\ EditSearch(NextGen(Stored))
DeleteSearch ==
  /\ Stored.exists /\ ~Stored.deleting
  /\ EditSearch(IF Stored.finalizer THEN MarkedDeleted(Stored)
                ELSE Gone(Stored.uid))

DeleteObject(o) ==
  /\ objs[o].there /\ Edit
  /\ objs' = [objs EXCEPT ![o] = Absent]
  /\ Enqueue(o \notin Unowned /\ EventOnDelete(o))
  /\ UNCHANGED <<versions, worker, once, faults>>

ChangeObject(o) ==
  /\ objs[o].there /\ objs[o].gen # 0 /\ Edit
  /\ objs' = [objs EXCEPT ![o] = Rebuilt(objs[o], 0)]
  /\ Enqueue(\E i \in DOMAIN Plan :
               Plan[i].obj = o /\ EventOnWrite(o, Plan[i].fn))
  /\ UNCHANGED <<versions, worker, once, faults>>

Environment == \/ CreateSearch \/ ChangeSpec \/ DeleteSearch
               \/ \E p \in BOOLEAN : Pause(p)
               \/ \E o \in Objects : DeleteObject(o) \/ ChangeObject(o)

Next == \/ Worker \/ UpdateStatus \/ Deliver \/ Resync \/ Crash
        \/ (\E o \in Objects : GarbageCollect(o))
        \/ Environment

Spec == Init /\ [][Next]_vars

(***************************************************************************)
(* The worker goroutine runs, the informer delivers and resyncs, and the   *)
(* garbage collector runs; people and failures owe nothing.                *)
(***************************************************************************)
Fairness == /\ WF_vars(Worker) /\ WF_vars(Deliver) /\ WF_vars(Resync)
            /\ \A o \in Objects : WF_vars(GarbageCollect(o))
FairSpec == Spec /\ Fairness

-----------------------------------------------------------------------------
(* Properties.                                                             *)

\* The RBAC objects finalizeSearch takes down, of those a reconcile creates.
FinalizedRBAC == {"addon-cr", "api-crb", "collector-crb", "indexer-cr",
                  "indexer-crb"}

\* No privilege outlives the product: a ClusterRole or ClusterRoleBinding that
\* finalizeSearch is responsible for exists only while the API server holds a
\* Search that carries the finalizer, whatever version of it the reconciler was
\* working from, and across crashes and failed calls (setFinalizer).
RBACCovered ==
  \A o \in FinalizedRBAC \cap Objects :
     objs[o].there => Stored.exists /\ Stored.finalizer

\* finalizeSearch, run for a cached Search that is being deleted, never takes an
\* object from a Search that is not: between a delete and a re-creation of the
\* CR a stale read may start it again, and by then nothing must be left for it.
FinalizerSparesLive ==
  [][phase = "finalize" /\ ~(Stored.exists /\ Stored.deleting)
       /\ phase' = "finalize"
     => \A o \in FinalizedRBAC \cap Objects : objs[o].there => objs'[o].there]_vars

\* ProductLife as it shows in this model.
LifeOf(v) == IF ~v.exists THEN "none"
             ELSE IF v.deleting THEN "terminating"
             ELSE IF v.finalizer THEN "guarded" ELSE "plain"
Granted == {o \in FinalizedRBAC \cap Objects : objs[o].there}
Life == INSTANCE ProductLife
          WITH Privileges <- FinalizedRBAC, product <- LifeOf(Stored), granted <- Granted

\* The reconciler, the finalizer and its stale reads implement ProductLife: one
\* privilege at a time, none before the finalizer is stored (setFinalizer), and
\* the Search goes only after all of them (finalizeSearch).
ImplementsProductLife == Life!Spec

\* A delete of Search completes, search-pause or not ("permit search deletion
\* irrespective of search-pause annotation"): no Search stays in deletion.
DeletionCompletes == []<>(~Stored.deleting)

\* Does an object match what the reconciler would build for the stored Search?
Desired(i) ==
  LET o == objs[Plan[i].obj]
      f == Plan[i].fn
  IN /\ f \in Creates =>
           /\ o.there
           /\ o.owner = IF Plan[i].obj \in Unowned THEN 0 ELSE Stored.uid
           /\ f \in Corrects => o.gen = Wanted(Stored, f)
     /\ f = "deleteLegacy" => ~o.there

\* Once edits and failures stop, an active Search ends up with every object it
\* asks for, built from its spec and owned by it where the code sets an owner
\* (the ServiceMonitors have none), and with the legacy RBAC gone:
\* neither a swallowed error, nor an object of a predecessor that the garbage
\* collector takes later, nor an unwatched deletion is lost for good.
Converges == <>[](Active => \A i \in DOMAIN Plan : Desired(i))
=============================================================================

------------------------------ MODULE Requests ------------------------------
(***************************************************************************)
(* The controller with its two kinds of request and the add-on manager     *)
(* beside it: SearchReconciler.Reconcile up to the point where requests    *)
(* for a pod and for the Search part, with once.Do(CreateAddonOnce) before *)
(* it, and, of the full reconcile, its writes that meet the other parts:   *)
(* the image of the collector on the hub, and the status condition of the  *)
(* optional features.                                                      *)
(***************************************************************************)
EXTENDS PodStatus, Addon

VARIABLE hubImage   \* image of the search-collector Deployment on the hub

vars == <<podVars, addonVars, hubImage, faults, edits>>

\* The collector on the hub and those on the managed clusters each check the
\* override, in their own way.
getImageSha(override) ==
  IF override # "" /\ IsTrustedImage(override) THEN override ELSE COLLECTOR_IMAGE

TypeOK == PodTypeOK /\ AddonTypeOK
          /\ hubImage \in TrustedImages \cup {COLLECTOR_IMAGE, None}

Init == PodInit /\ AddonInit /\ hubImage = None

\* Reconcile: Get the instance, start the add-on if nobody has, and branch.
StartReconcile(r) ==
  /\ Take(r)
  /\ IF manager = "none" THEN CreateAddonOnce(Cached.override) ELSE UNCHANGED addonVars
  /\ UNCHANGED <<hubImage, faults, edits>>

PodReconcile == updateStatus /\ UNCHANGED <<addonVars, hubImage>>

\* The full reconcile.  An Update of the Deployment that fails is logged, and so
\* is a write of the condition that fails or conflicts
\* (commitSearchCRInstanceState); another error ends it.
WithFeature(v) == [v EXCEPT !.feature = v.want]
FullReconcile ==
  /\ request = SearchRequest
  /\ \/ /\ hubImage' = getImageSha(inst.override) /\ NoFault
        /\ IF fresh THEN Write(WithFeature(inst)) ELSE UNCHANGED versions
        /\ Done
     \/ Fault /\ hubImage' = getImageSha(inst.override) /\ UNCHANGED versions /\ Done
     \/ /\ Fault /\ hubImage # None /\ UNCHANGED hubImage /\ Done
        /\ IF fresh THEN Write(WithFeature(inst)) ELSE UNCHANGED versions
     \/ Fault /\ UNCHANGED <<hubImage, versions>> /\ Retry
  /\ UNCHANGED <<addonVars, edits>>

Crash == Fault /\ Restart /\ AddonRestart /\ UNCHANGED <<hubImage, edits>>

Around == /\ \/ Deliver \/ Resync
             \/ \E p \in Pods, s \in PodStates : PodEvent(p, s)
             \/ \E b \in BOOLEAN : EditSearch([Stored EXCEPT !.want = b])
             \/ \E i \in Overrides : EditSearch([Stored EXCEPT !.override = i])
          /\ UNCHANGED <<addonVars, hubImage>>

Beside == /\ \/ startAddon
             \/ \E c \in Clusters : Framework(c) \/ AddonEdit(c)
          /\ UNCHANGED <<podVars, hubImage>>

Next == \/ \E r \in Listed \cup queue : StartReconcile(r)
        \/ PodReconcile \/ FullReconcile \/ Crash \/ Around \/ Beside

Spec == Init /\ [][Next]_vars

\* The queue hands out every request in the end, the worker finishes it, the
\* informer delivers and resyncs, and the goroutines of the framework run.
Fairness ==
  /\ \A r \in Pods \cup {SearchRequest} : SF_vars(StartReconcile(r))
  /\ WF_vars(PodReconcile \/ FullReconcile)
  /\ WF_vars(Deliver /\ UNCHANGED <<addonVars, hubImage>>)
  /\ WF_vars(Resync /\ UNCHANGED <<addonVars, hubImage>>)
  /\ WF_vars(startAddon /\ UNCHANGED <<podVars, hubImage>>)
  /\ \A c \in Clusters : WF_vars(Framework(c) /\ UNCHANGED <<podVars, hubImage>>)
FairSpec == Spec /\ Fairness

-----------------------------------------------------------------------------
(* Properties.                                                             *)

\* A write of the status changes what its writer answers for and nothing else,
\* although each sends the whole status it holds: a pod request the condition of
\* its own Deployment, a full reconcile that of the features (updateStatus and
\* commitSearchCRInstanceState, both from a cached instance).
WritesOwnCondition ==
  [][/\ \A d \in Deployments : Stored'.ready[d] # Stored.ready[d] => request \in PodsOf[d]
     /\ Stored'.feature # Stored.feature => request = SearchRequest]_vars

\* Once edits and failures stop, each condition of the status tells what the
\* pods say, a Deployment without pods is not called ready, and the condition of
\* the features follows the annotation.  What is left out: pods none of which
\* has a Ready condition, and pods that went while the operator was down.
StatusTrue ==
  /\ \A d \in Deployments :
       /\ Said(d) # {} => Stored.ready[d] = podCondition(d)
       /\ Present \cap PodsOf[d] = {} /\ d \notin missed => Stored.ready[d] # "True"
  /\ Stored.feature = Stored.want
StatusSettles == <>[]StatusTrue

\* The collector runs nowhere from an image of a registry that is not trusted,
\* whether the Search CR or an annotation of the add-on asks for it, and whatever
\* image this process or an earlier one was started with.
ImagesTrusted ==
  \A i \in {hubImage} \cup {manifests[c].image : c \in Clusters} :
     i \in TrustedImages \cup {COLLECTOR_IMAGE, None, NotRendered.image}

\* The add-on serves its clusters in the end, whichever request came first and
\* however often the operator restarts, unless the manager failed to start in
\* the process that is running or somebody put another RoleRef into a binding.
AddonServes ==
  <>[](manager # "failed" =>
         /\ manager = "running"
         /\ \A c \in Clusters : /\ csr[c] = "approved" /\ manifests[c] = Values(c)
                                /\ bindings[c] \in {"right", "otherRoleRef"})
=============================================================================

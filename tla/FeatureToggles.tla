--------------------------- MODULE FeatureToggles ---------------------------
(***************************************************************************)
(* The optional features the reconciler switches on and off by annotations *)
(* of the Search CR: global search (controllers/global_search_setup.go),   *)
(* fine-grained RBAC (fine_grained_rbac.go) and virtual machine actions    *)
(* (virtual_machines_setup.go), with addEnvToSearchAPI (common.go) between *)
(* them.  They run one after the other, in one reconcile, on one `instance'*)
(* in memory, and write it back under optimistic concurrency.              *)
(*                                                                         *)
(* The Search CR is reduced to its feature annotations, the environment of *)
(* the search-api it asks for, and the status conditions of the features.  *)
(* What a feature sets up elsewhere (flags in the console's ConfigMaps and *)
(* two objects in the namespace of each managed cluster) is the set `made'.*)
(***************************************************************************)
EXTENDS Integers, Sequences, FiniteSets, Sublists

CONSTANTS Clusters,   \* managed clusters, in the order a List returns them
          MaxFaults,  \* bound on failing API calls and operator crashes
          MaxEdits    \* bound on what others do

Names == Elements(Clusters)
ASSUME ClustersAssumption == Clusters \in Seq(Names) /\ Clusters # <<>>
ASSUME BoundsAssumption == MaxFaults \in Nat /\ MaxEdits \in Nat

Features == {"global", "fgrbac", "vm"}
Envs == {"FEATURE_FEDERATED_SEARCH", "FEATURE_FINE_GRAINED_RBAC", "HUB_NAME"}
Conditions == {"none", "false", "true"}

\* Console flags and the two objects each feature keeps per managed cluster.
Flags == {<<"console-mce-config", "globalSearchFeatureFlag">>,
          <<"console-config", "globalSearchFeatureFlag">>,
          <<"console-mce-config", "VIRTUAL_MACHINE_ACTIONS">>}
FlagsOf(f) == {x \in Flags : f = IF x[2] = "VIRTUAL_MACHINE_ACTIONS"
                                 THEN "vm" ELSE "global"}
KindsOf(f) == CASE f = "global" -> <<"search-global", "search-global-config">>
                [] f = "vm" -> <<"vm-actor", "virtual-machine-actions">>
                [] OTHER -> <<>>
HubObjects(f, S) ==
  {<<c, KindsOf(f)[k]>> : c \in S, k \in DOMAIN KindsOf(f)}
Setup(f) == FlagsOf(f) \cup HubObjects(f, Names)

\* The loop of a feature begins with its calls on the hub, then the List.
EnvCall == <<"search-api", "FEATURE_FEDERATED_SEARCH">>
ListCall == <<"list", "list">>
HubCalls(f) ==
  IF f = "global"
  THEN << <<"console-mce-config", "globalSearchFeatureFlag">>,
          <<"console-config", "globalSearchFeatureFlag">>, EnvCall, ListCall >>
  ELSE << <<"console-mce-config", "VIRTUAL_MACHINE_ACTIONS">>, ListCall >>

\* What may be left of the loop: some calls on the hub, or calls for clusters.
Left(f) == {SubSeq(HubCalls(f), n, Len(HubCalls(f))) : n \in DOMAIN HubCalls(f)}
             \cup Seq(HubObjects(f, Names))

Search == [ann : [Features -> BOOLEAN], env : SUBSET Envs,
           cond : [Features -> Conditions]]
Plain == [ann |-> [f \in Features |-> FALSE], env |-> {},
          cond |-> [f \in Features |-> "none"]]

\* Where the worker is; "enable" and "disable" are the loops of a feature.
Steps == {"idle", "global", "hubName", "fgrbac", "fgrbacStatus", "vm",
          "enable", "disable", "return", "error"}

VARIABLES stored,   \* the Search CR in the API server
          cached,   \* the Search CR in the informer cache
          lag,      \* is the cached one an older version
          inst,     \* `instance'
          fresh,    \* does inst have the stored resourceVersion
          made,     \* what the features have set up outside the Search CR
          hubs,     \* clusters whose claim says they are managed hubs
          deps,     \* are the add-ons of the MultiClusterEngine enabled
          hubName,  \* is there a ConfigMap search-global-config with a name
          pc, feature, todo, errs, \* the worker: step, loop, errList
          queued, faults, edits

cr == <<stored, cached, lag>>
held == <<inst, fresh>>
outside == <<made, hubs, deps, hubName>>
loop == <<feature, todo, errs>>
vars == <<stored, cached, lag, inst, fresh, made, hubs, deps, hubName,
          pc, feature, todo, errs, queued, faults, edits>>

FlagsOK == /\ lag \in BOOLEAN /\ fresh \in BOOLEAN /\ errs \in BOOLEAN
           /\ deps \in BOOLEAN /\ hubName \in BOOLEAN /\ queued \in BOOLEAN
SearchOK == stored \in Search /\ cached \in Search /\ inst \in Search
LoopOK == pc \in Steps /\ feature \in {"global", "vm"} /\ todo \in Left(feature)
OutsideOK == made \subseteq Setup("global") \cup Setup("vm") /\ hubs \subseteq Names
CountersOK == faults \in 0 .. MaxFaults /\ edits \in 0 .. MaxEdits
TypeOK == FlagsOK /\ SearchOK /\ LoopOK /\ OutsideOK /\ CountersOK

Init ==
  /\ stored = Plain /\ cached = Plain /\ lag = FALSE
  /\ inst = Plain /\ fresh = FALSE
  /\ made = {} /\ hubs \in {{}, {Clusters[1]}}
  /\ deps = TRUE /\ hubName \in BOOLEAN
  /\ pc = "idle" /\ feature = "global" /\ todo = <<>> /\ errs = FALSE
  /\ queued = TRUE /\ faults = 0 /\ edits = 0

-----------------------------------------------------------------------------
(* The Search CR in memory and in the API server.                          *)

Fault == faults < MaxFaults /\ faults' = faults + 1
NoFault == UNCHANGED faults
Goto(p) == pc' = p /\ UNCHANGED loop
Rest == /\ inst' = Plain /\ fresh' = FALSE
        /\ pc' = "idle" /\ feature' = "global" /\ todo' = <<>> /\ errs' = FALSE
KeepCR == UNCHANGED cr

\* A response is decoded over the instance: a list the API server leaves out
\* because it is empty keeps what was in memory.
Decoded(mem, srv, empty) == IF srv = empty THEN {mem, srv} ELSE {srv}

\* r.Update: spec and metadata are written, the status is not.
WriteSpec(v) ==
  /\ fresh /\ stored' = [stored EXCEPT !.env = v.env]
  /\ lag' = TRUE /\ UNCHANGED <<cached, fresh>>
  /\ \E c \in Decoded(v.cond, stored.cond, Plain.cond) :
        inst' = [v EXCEPT !.cond = c]

\* r.Status().Update: only the status is written.
WriteStatus(v) ==
  /\ fresh /\ stored' = [stored EXCEPT !.cond = v.cond]
  /\ lag' = TRUE /\ UNCHANGED <<cached, fresh>>
  /\ \E e \in Decoded(v.env, stored.env, {}) : inst' = [v EXCEPT !.env = e]

\* The write fails, on a conflict or otherwise: memory keeps the change.
WriteFails(v) == /\ \/ ~fresh /\ NoFault
                    \/ Fault
                 /\ inst' = v /\ UNCHANGED fresh /\ KeepCR

\* searchAPIEnvVar: the instance with the variable set, or removed.
searchAPIEnvVar(v, e, on) ==
  [v EXCEPT !.env = IF on THEN @ \cup {e} ELSE @ \ {e}]

SetCondition(v, f, c) == [v EXCEPT !.cond[f] = c]

\* updateSearchApiDeployment, its result handed on as ok.
updateSearchApiDeployment(e, on, ok) ==
  LET v == searchAPIEnvVar(inst, e, on)
  IN \/ v = inst /\ ok /\ NoFault /\ KeepCR /\ UNCHANGED held
     \/ v # inst /\ ok /\ NoFault /\ WriteSpec(v)
     \/ v # inst /\ ~ok /\ WriteFails(v)

\* updateGlobalSearchStatus and updateStatusCondition: nothing is written when
\* nothing changed, but the message of a failure may differ; an error is logged.
updateStatusCondition(f, c) ==
  LET v == SetCondition(inst, f, c)
  IN \/ v = inst /\ NoFault /\ KeepCR /\ UNCHANGED held
     \/ /\ v # inst \/ c = "false"
        /\ \/ WriteStatus(v) /\ NoFault
           \/ WriteFails(v)

\* removeStatusCondition and the end of a disable, its result handed on as ok.
removeStatusCondition(f, ok) ==
  LET v == SetCondition(inst, f, "none")
  IN \/ v = inst /\ ok /\ NoFault /\ KeepCR /\ UNCHANGED held
     \/ v # inst /\ ok /\ NoFault /\ WriteStatus(v)
     \/ v # inst /\ ~ok /\ WriteFails(v)

-----------------------------------------------------------------------------
(* The reconcile, from reconcileGlobalSearch on.                           *)

\* Reconcile has read the Search CR and has got past everything before.
StartReconcile ==
  /\ pc = "idle" /\ queued /\ queued' = FALSE
  /\ inst' = cached /\ fresh' = ~lag /\ pc' = "global"
  /\ UNCHANGED <<cr, outside, loop, faults, edits>>

\* Reconcile returns; an error puts the request back into the queue.
EndReconcile ==
  /\ pc \in {"return", "error"} /\ Rest
  /\ queued' = (queued \/ pc = "error")
  /\ UNCHANGED <<cr, outside, faults, edits>>

BeginLoop(p, f) == pc' = p /\ feature' = f /\ todo' = HubCalls(f) /\ errs' = FALSE

\* What comes after global search and after virtual machine actions.
After(f) == IF f = "global" THEN "hubName" ELSE "return"

\* reconcileGlobalSearch and reconcileVirtualMachineConfiguration up to the
\* loop: dependencies that cannot be validated fail the whole reconcile.
reconcileFeature(f) ==
  /\ pc = f
  /\ \/ /\ inst.ann[f]
        /\ \/ deps /\ BeginLoop("enable", f) /\ NoFault
           \/ ~deps /\ Goto("error") /\ NoFault
           \/ Fault /\ Goto("error")
     \/ /\ ~inst.ann[f] /\ inst.cond[f] # "none"
        /\ BeginLoop("disable", f) /\ NoFault
     \/ ~inst.ann[f] /\ inst.cond[f] = "none" /\ Goto(After(f)) /\ NoFault
  /\ UNCHANGED <<cr, held, outside, queued, edits>>

\* One call of enableGlobalSearch, disableGlobalSearch,
\* configureVirtualMachineActions or disableVirtualMachineActions that sets up
\* or removes something outside the Search CR; an error is tracked, not returned.
CallOutside ==
  /\ pc \in {"enable", "disable"} /\ todo # <<>>
  /\ Head(todo) \notin {EnvCall, ListCall}
  /\ \/ /\ made' = IF pc = "enable" THEN made \cup {Head(todo)}
                                   ELSE made \ {Head(todo)}
        /\ NoFault /\ UNCHANGED errs
     \/ Fault /\ errs' = TRUE /\ UNCHANGED made
  /\ todo' = Tail(todo)
  /\ UNCHANGED <<cr, held, hubs, deps, hubName, pc, feature, queued, edits>>

\* The environment of the search-api: an error here is tracked as well.
CallEnvUntracked ==                                               \* mutant
  /\ pc \in {"enable", "disable"} /\ todo # <<>> /\ Head(todo) = EnvCall
  /\ \E ok \in BOOLEAN :
        updateSearchApiDeployment(Head(todo)[2], pc = "enable", ok)
  /\ todo' = Tail(todo)
  /\ UNCHANGED <<outside, pc, feature, errs, queued, edits>>
CallEnv ==
  /\ pc \in {"enable", "disable"} /\ todo # <<>> /\ Head(todo) = EnvCall
  /\ \E ok \in BOOLEAN :
        /\ updateSearchApiDeployment(Head(todo)[2], pc = "enable", ok)
        /\ errs' = (errs \/ ~ok)
  /\ todo' = Tail(todo)
  /\ UNCHANGED <<outside, pc, feature, queued, edits>>

\* Two calls for each listed cluster.
ClusterCallsSwapped(f, s) ==        \* mutant: name and namespace exchanged
  [i \in 1 .. 2 * Len(s) |-> <<KindsOf(f)[2 - (i % 2)], s[(i + 1) \div 2]>>]
ClusterCalls(f, s) ==
  [i \in 1 .. 2 * Len(s) |-> <<s[(i + 1) \div 2], KindsOf(f)[2 - (i % 2)]>>]

\* List the ManagedClusters.  Global search is enabled on managed hubs only; the
\* disable loops range over the result of a failed List, and panic.
Listed == IF pc = "enable" /\ feature = "global" THEN Kept(Clusters, hubs)
          ELSE Clusters
CallList ==
  /\ pc \in {"enable", "disable"} /\ todo # <<>> /\ Head(todo) = ListCall
  /\ \/ /\ todo' = ClusterCalls(feature, Listed)
        /\ NoFault /\ UNCHANGED <<pc, feature, errs>>
     \/ /\ pc = "enable" /\ Fault /\ todo' = <<>> /\ errs' = TRUE
        /\ UNCHANGED <<pc, feature>>
     \/ pc = "disable" /\ Fault /\ Goto("error")
  /\ UNCHANGED <<cr, held, outside, queued, edits>>

\* The end of enable: record the outcome.  A failed enable of global search is
\* not an error of the reconcile, one of virtual machine actions is.
EndEnable ==
  /\ pc = "enable" /\ todo = <<>>
  /\ updateStatusCondition(feature, IF errs THEN "false" ELSE "true")
  /\ Goto(IF errs /\ feature = "vm" THEN "error" ELSE After(feature))
  /\ UNCHANGED <<outside, queued, edits>>

\* The end of disable: the condition, which is the memory that the feature was
\* once enabled, is removed only when nothing failed.
EndDisableForgetsErrors ==                                        \* mutant
  /\ pc = "disable" /\ todo = <<>>
  /\ \E ok \in BOOLEAN : /\ removeStatusCondition(feature, ok)
                          /\ Goto(IF ok THEN After(feature) ELSE "error")
  /\ UNCHANGED <<outside, queued, edits>>
EndDisable ==
  /\ pc = "disable" /\ todo = <<>>
  /\ \/ errs /\ updateStatusCondition(feature, "false") /\ Goto("error")
     \/ /\ ~errs
        /\ \E ok \in BOOLEAN : /\ removeStatusCondition(feature, ok)
                                /\ Goto(IF ok THEN After(feature) ELSE "error")
  /\ UNCHANGED <<outside, queued, edits>>

\* addEnvToSearchAPI: HUB_NAME follows the ConfigMap while there is one.
addEnvToSearchAPI ==
  /\ pc = "hubName"
  /\ \/ ~hubName /\ Goto("fgrbac") /\ NoFault /\ KeepCR /\ UNCHANGED held
     \/ Fault /\ Goto("error") /\ KeepCR /\ UNCHANGED held
     \/ /\ hubName
        /\ \E ok \in BOOLEAN :
              /\ updateSearchApiDeployment("HUB_NAME", TRUE, ok)
              /\ Goto(IF ok THEN "fgrbac" ELSE "error")
  /\ UNCHANGED <<outside, queued, edits>>

\* reconcileFineGrainedRBACConfiguration: first the environment, ...
FineGrainedRBACOnlyAdded ==     \* mutant: the variable is never removed
  /\ pc = "fgrbac"
  /\ \E ok \in BOOLEAN :
        /\ updateSearchApiDeployment("FEATURE_FINE_GRAINED_RBAC",
             inst.ann["fgrbac"] \/ "FEATURE_FINE_GRAINED_RBAC" \in inst.env, ok)
        /\ pc' = IF ok \/ inst.ann["fgrbac"] THEN "fgrbacStatus" ELSE "error"
        /\ errs' = ~ok
  /\ UNCHANGED <<outside, feature, todo, queued, edits>>
reconcileFineGrainedRBACConfiguration ==
  /\ pc = "fgrbac"
  /\ \E ok \in BOOLEAN :
        /\ updateSearchApiDeployment("FEATURE_FINE_GRAINED_RBAC",
                                     inst.ann["fgrbac"], ok)
        /\ pc' = IF ok \/ inst.ann["fgrbac"] THEN "fgrbacStatus" ELSE "error"
        /\ errs' = ~ok
  /\ UNCHANGED <<outside, feature, todo, queued, edits>>

\* ... then the condition.
FineGrainedRBACStatus ==
  /\ pc = "fgrbacStatus"
  /\ \/ inst.ann["fgrbac"] /\ errs
        /\ updateStatusCondition("fgrbac", "false") /\ Goto("error")
     \/ inst.ann["fgrbac"] /\ ~errs
        /\ updateStatusCondition("fgrbac", "true") /\ Goto("vm")
     \/ /\ ~inst.ann["fgrbac"]
        /\ \E ok \in BOOLEAN : /\ removeStatusCondition("fgrbac", ok)
                                /\ Goto(IF ok THEN "vm" ELSE "error")
  /\ UNCHANGED <<outside, queued, edits>>

Worker == \/ StartReconcile \/ EndReconcile
          \/ (\E f \in {"global", "vm"} : reconcileFeature(f))
          \/ CallOutside \/ CallEnv \/ CallList \/ EndEnable \/ EndDisable
          \/ addEnvToSearchAPI \/ reconcileFineGrainedRBACConfiguration
          \/ FineGrainedRBACStatus

-----------------------------------------------------------------------------
(* Everything around the worker.                                           *)

worker == <<held, pc, loop>>

\* The informer catches up, and the Search event enqueues a request.
Deliver == /\ lag /\ lag' = FALSE /\ cached' = stored /\ queued' = TRUE
           /\ UNCHANGED <<stored, outside, worker, faults, edits>>

\* The periodic resync of the informer.
Resync == /\ ~queued /\ queued' = TRUE
          /\ UNCHANGED <<cr, outside, worker, faults, edits>>

\* The pod of the operator is replaced.
Crash == /\ Fault /\ Rest /\ queued' = TRUE
         /\ cached' = stored /\ lag' = FALSE
         /\ UNCHANGED <<stored, outside, edits>>

Edit == edits < MaxEdits /\ edits' = edits + 1

\* Somebody sets or removes an annotation, or writes something else of the CR.
EditSearch(v) == /\ Edit /\ stored' = v /\ lag' = TRUE /\ fresh' = FALSE
                 /\ UNCHANGED <<cached, inst, outside, pc, loop, queued, faults>>
Annotate(f) == EditSearch([stored EXCEPT !.ann[f] = ~@])
Touch == EditSearch(stored)

\* A ManagedCluster becomes a managed hub or ceases to be one; the watch maps
\* the old and the new object, and one of them is a hub.
ChangeHub(c) ==
  /\ Edit /\ hubs' = (hubs \ {c}) \cup ({c} \ hubs) /\ queued' = TRUE
  /\ UNCHANGED <<cr, worker, made, deps, hubName, faults>>

\* The add-ons of the MultiClusterEngine are not watched.
ChangeDependencies ==
  /\ Edit /\ deps' = ~deps
  /\ UNCHANGED <<cr, worker, made, hubs, hubName, queued, faults>>

\* Creation of search-global-config is watched, its deletion is not.
ChangeHubName ==
  /\ Edit /\ hubName' = ~hubName /\ queued' = (queued \/ hubName')
  /\ UNCHANGED <<cr, worker, made, hubs, deps, faults>>

Environment == \/ (\E f \in Features : Annotate(f)) \/ Touch
               \/ (\E c \in Names : ChangeHub(c))
               \/ ChangeDependencies \/ ChangeHubName

Next == Worker \/ Deliver \/ Resync \/ Crash \/ Environment
Spec == Init /\ [][Next]_vars

\* The worker runs and the informer delivers and resyncs; others owe nothing.
Fairness == WF_vars(Worker) /\ WF_vars(Deliver) /\ WF_vars(Resync)
FairSpec == Spec /\ Fairness

-----------------------------------------------------------------------------
(* Properties.                                                             *)

Env(f) == IF f = "global" THEN {"FEATURE_FEDERATED_SEARCH"}
          ELSE IF f = "fgrbac" THEN {"FEATURE_FINE_GRAINED_RBAC"} ELSE {}
Clean(f) == made \cap Setup(f) = {} /\ Env(f) \cap stored.env = {}

\* The condition is the only memory that a feature was ever enabled, so it may
\* go only when nothing of the feature is left, whatever calls failed on the
\* way (the disable paths of reconcileGlobalSearch and of
\* reconcileVirtualMachineConfiguration, reconcileFineGrainedRBACConfiguration).
ForgetsOnlyWhenClean ==
  [][\A f \in Features :
       stored.cond[f] # "none" /\ stored'.cond[f] = "none" => Clean(f)']_vars

\* A condition that turns true tells the truth: the flags are set and the
\* search-api is asked to serve the feature, although several independent
\* writes made it so and each of them may have failed.
ReadyIsTrue ==
  [][\A f \in Features :
       stored.cond[f] # "true" /\ stored'.cond[f] = "true"
         => FlagsOf(f) \subseteq made' /\ Env(f) \subseteq stored'.env]_vars

\* Once people and failures stop, every annotation has its effect: a feature
\* that is asked for is set up on every cluster it is meant for and reported
\* ready, fine-grained RBAC that is not asked for is off, and a feature that is
\* not asked for and still has a condition has been taken down.  A missing
\* dependency of an enabled feature holds up the ones after it.
Targets(f) == IF f = "global" THEN hubs ELSE Names
SetUp(f) == /\ FlagsOf(f) \cup HubObjects(f, Targets(f)) \subseteq made
            /\ Env(f) \subseteq stored.env /\ stored.cond[f] = "true"
Effective ==
  /\ \A f \in Features : stored.ann[f] => SetUp(f)
  /\ \A f \in Features : ~stored.ann[f] => stored.cond[f] = "none"
  /\ ~stored.ann["fgrbac"] => Clean("fgrbac")
Settles == <>[](deps => Effective)

\* "Use the status conditions to determine if global search was enabled before
\* this reconcile": a feature that is no longer asked for is taken down.
\* Refuted when the write of the condition is lost to a conflict with the
\* removal of the annotation: nothing remembers what was set up.
DisabledIsTakenDown ==
  <>[](deps => \A f \in Features : ~stored.ann[f] => Clean(f))
=============================================================================

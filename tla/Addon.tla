------------------------------- MODULE Addon -------------------------------
(***************************************************************************)
(* The search-collector add-on: started once per process by the first      *)
(* request of the controller (CreateAddonOnce), after which the add-on     *)
(* framework, in goroutines of its own, grants each managed cluster its    *)
(* RoleBinding, approves its certificate requests and renders the manifests*)
(* of the collector that runs there.                                       *)
(*                                                                         *)
(* A failing call of the framework changes nothing and is retried by it.   *)
(***************************************************************************)
EXTENDS Naturals, FiniteSets, Bounds

CONSTANTS Clusters,            \* managed clusters with the add-on
          TrustedImages,       \* images from the registries of TrustedImagePrefixes
          AnnotationValues     \* values people put into the add-on's annotations

VARIABLES SearchCollectorImage,  \* the variable of the package
          manager,    \* the add-on manager of this process
          addons,     \* annotations of the ManagedClusterAddOns
          bindings,   \* the RoleBinding in the namespace of each cluster
          csr,        \* the certificate request of each cluster
          manifests   \* the values the manifests were rendered with

addonVars == <<SearchCollectorImage, manager, addons, bindings, csr, manifests>>
process == <<SearchCollectorImage, manager>>

COLLECTOR_IMAGE == "collector"
IsTrustedImage(image) == image \in TrustedImages
ValidateImageRepo(image) == image # "" /\ IsTrustedImage(image)

NoValues == << >>
NotRendered == [image |-> "not rendered", limitMemory |-> "", heartBeat |-> ""]
BindingStates == {"absent", "right", "otherSubjects", "otherRoleRef"}

AddonTypeOK ==
  /\ SearchCollectorImage \in TrustedImages \cup {COLLECTOR_IMAGE}
  /\ manager \in {"none", "starting", "running", "failed"}
  /\ DOMAIN addons = Clusters /\ DOMAIN manifests = Clusters
  /\ bindings \in [Clusters -> BindingStates]
  /\ csr \in [Clusters -> {"pending", "approved"}]

NoAnnotations == [values |-> NoValues, limitMemory |-> "", heartBeat |-> ""]
AddonInit ==
  /\ SearchCollectorImage = COLLECTOR_IMAGE /\ manager = "none"
  /\ addons = [c \in Clusters |-> NoAnnotations]
  /\ bindings = [c \in Clusters |-> "absent"]
  /\ csr = [c \in Clusters |-> "pending"]
  /\ manifests = [c \in Clusters |-> NotRendered]

-----------------------------------------------------------------------------
(* What the manifests of a cluster are rendered with: a sequence of value  *)
(* functions, of which the later ones win.                                 *)

\* Annotations that fail resourceRegex or strconv.Atoi are left out.
Wellformed == {"1Gi", "30"}
getValue(a) ==
  [image |-> SearchCollectorImage,
   limitMemory |-> IF a.limitMemory \in Wellformed THEN a.limitMemory ELSE "",
   heartBeat |-> IF a.heartBeat \in Wellformed THEN a.heartBeat ELSE ""]
GetValuesFromAddonAnnotation(a) == a.values
\* Node placement and resource requirements: none of the keys kept here.
GetAddOnDeploymentConfigValues == NoValues
\* Mutant: checks what the operator was given, not what the annotation says.
validateImageOverrideOnce == NoValues
validateImageOverride == [image |-> SearchCollectorImage]
MergeValues(a, b) ==
  [k \in DOMAIN a \cup DOMAIN b |-> IF k \in DOMAIN b THEN b[k] ELSE a[k]]
Values(c) ==
  LET annotated == MergeValues(getValue(addons[c]),
                               GetValuesFromAddonAnnotation(addons[c]))
  IN MergeValues(MergeValues(annotated, GetAddOnDeploymentConfigValues),
                 validateImageOverride)

-----------------------------------------------------------------------------
(* Actions.                                                                *)

\* The image is settled before the goroutine starts.
\* Mutant: the override is taken as it is.
CreateAddonOnceUnchecked(override) ==
  /\ manager = "none" /\ manager' = "starting"
  /\ SearchCollectorImage' = IF override # "" THEN override ELSE SearchCollectorImage
  /\ UNCHANGED <<addons, bindings, csr, manifests>>
CreateAddonOnce(override) ==
  /\ manager = "none" /\ manager' = "starting"
  /\ SearchCollectorImage' = IF ValidateImageRepo(override) THEN override
                             ELSE SearchCollectorImage
  /\ UNCHANGED <<addons, bindings, csr, manifests>>

\* startAddon with NewAddonManager: an error is logged, and once.Do is spent.
startAddon ==
  /\ manager = "starting"
  /\ \/ manager' = "running" /\ NoFault
     \/ manager' = "failed" /\ Fault
  /\ UNCHANGED <<SearchCollectorImage, addons, bindings, csr, manifests, edits>>

\* PermissionConfig.  A RoleRef cannot be changed: the API server refuses that
\* Update each time.
\* Mutant: a binding that is there is taken to be right.
createOrUpdateRoleBindingCreates(c) ==
  /\ manager = "running" /\ bindings[c] = "absent"
  /\ bindings' = [bindings EXCEPT ![c] = "right"]
  /\ UNCHANGED <<process, addons, csr, manifests, faults, edits>>
createOrUpdateRoleBinding(c) ==
  /\ manager = "running" /\ bindings[c] \in {"absent", "otherSubjects"}
  /\ bindings' = [bindings EXCEPT ![c] = "right"]
  /\ UNCHANGED <<process, addons, csr, manifests, faults, edits>>

\* CSRApproveCheck, DefaultCSRApprover.
ApproveCSR(c) ==
  /\ manager = "running" /\ csr[c] = "pending"
  /\ csr' = [csr EXCEPT ![c] = "approved"]
  /\ UNCHANGED <<process, addons, bindings, manifests, faults, edits>>

\* BuildHelmAgentAddon with the value functions.
Render(c) ==
  /\ manager = "running" /\ manifests[c] # Values(c)
  /\ manifests' = [manifests EXCEPT ![c] = Values(c)]
  /\ UNCHANGED <<process, addons, bindings, csr, faults, edits>>

Framework(c) == createOrUpdateRoleBinding(c) \/ ApproveCSR(c) \/ Render(c)

\* A new process reads COLLECTOR_IMAGE again.
AddonRestart ==
  /\ SearchCollectorImage' = COLLECTOR_IMAGE /\ manager' = "none"
  /\ UNCHANGED <<addons, bindings, csr, manifests>>

\* People annotate the add-on, somebody changes the binding, the agent renews.
Annotate(c, a) ==
  /\ Edit /\ addons[c] # a
  /\ addons' = [addons EXCEPT ![c] = a]
  /\ UNCHANGED <<process, bindings, csr, manifests, faults>>
ChangeBinding(c, s) ==
  /\ Edit /\ bindings[c] # s
  /\ bindings' = [bindings EXCEPT ![c] = s]
  /\ UNCHANGED <<process, addons, csr, manifests, faults>>
RequestCSR(c) ==
  /\ Edit /\ csr[c] = "approved"
  /\ csr' = [csr EXCEPT ![c] = "pending"]
  /\ UNCHANGED <<process, addons, bindings, manifests, faults>>
AddonEdit(c) == \/ \E a \in AnnotationValues : Annotate(c, a)
                \/ \E s \in BindingStates \ {"right"} : ChangeBinding(c, s)
                \/ RequestCSR(c)
=============================================================================

-------------------------- MODULE Requests_proofs --------------------------
(***************************************************************************)
(* Proofs about Requests for all pods, clusters, images and bounds.        *)
(***************************************************************************)
EXTENDS Requests, TLAPS

\* A worker whose copy has the stored resourceVersion holds the stored Search.
FreshInv == fresh => inst = Stored

IInv == TypeOK /\ FreshInv

\* What a step may do to the status (the action of WritesOwnCondition).
OwnStep ==
  /\ \A d \in Deployments : Stored'.ready[d] # Stored.ready[d] => request \in PodsOf[d]
  /\ Stored'.feature # Stored.feature => request = SearchRequest

-----------------------------------------------------------------------------
(* Facts about the model's values.                                         *)

\* A Search CR as it is created.
LEMMA NewSearchType == NewSearch \in Search
  <1>1. [d \in Deployments |-> None] \in [Deployments -> {None, "True", "False"}]
    OBVIOUS
  <1> QED
    BY <1>1 DEF NewSearch, Search

\* The versions of the Search CR the model builds.
LEMMA SearchTypes ==
  ASSUME NEW v \in Search
  PROVE  /\ NewSearch \in Search
         /\ WithFeature(v) \in Search
         /\ \A d \in Deployments, s \in {None, "True", "False"} : WithReady(v, d, s) \in Search
         /\ \A b \in BOOLEAN : [v EXCEPT !.want = b] \in Search
         /\ \A i \in Overrides : [v EXCEPT !.override = i] \in Search
  <1>1. NewSearch \in Search
    BY NewSearchType
  <1>2. WithFeature(v) \in Search
    BY DEF WithFeature, Search
  <1>3. \A d \in Deployments, s \in {None, "True", "False"} : WithReady(v, d, s) \in Search
    BY DEF WithReady, Search
  <1>4. \A b \in BOOLEAN : [v EXCEPT !.want = b] \in Search
    BY DEF Search
  <1>5. \A i \in Overrides : [v EXCEPT !.override = i] \in Search
    BY DEF Search
  <1> QED
    BY <1>1, <1>2, <1>3, <1>4, <1>5

\* What they leave of the status: one condition changes at a time.
LEMMA SearchKeeps ==
  ASSUME NEW v \in Search
  PROVE  /\ WithFeature(v).ready = v.ready
         /\ \A s : \A d \in Deployments :
              /\ WithReady(v, d, s).feature = v.feature
              /\ \A e \in Deployments \ {d} : WithReady(v, d, s).ready[e] = v.ready[e]
         /\ \A b : [v EXCEPT !.want = b].ready = v.ready
                   /\ [v EXCEPT !.want = b].feature = v.feature
         /\ \A i : [v EXCEPT !.override = i].ready = v.ready
                   /\ [v EXCEPT !.override = i].feature = v.feature
  <1>1. WithFeature(v).ready = v.ready
    BY DEF WithFeature, Search
  <1>2. ASSUME NEW d \in Deployments, NEW s
        PROVE /\ WithReady(v, d, s).feature = v.feature
              /\ \A e \in Deployments \ {d} : WithReady(v, d, s).ready[e] = v.ready[e]
    BY DEF WithReady, Search
  <1>3. \A b : [v EXCEPT !.want = b].ready = v.ready
               /\ [v EXCEPT !.want = b].feature = v.feature
    BY DEF Search
  <1>4. \A i : [v EXCEPT !.override = i].ready = v.ready
               /\ [v EXCEPT !.override = i].feature = v.feature
    BY DEF Search
  <1> QED
    BY <1>1, <1>2, <1>3, <1>4

\* There is a stored version and a cached one.
LEMMA StoredType ==
  ASSUME VersionsOK
  PROVE  /\ Len(versions) \in Nat /\ Len(versions) >= 1
         /\ Stored \in Search /\ Cached \in Search
         /\ Len(versions) = 1 => Cached = Stored
  BY DEF VersionsOK, Stored, Cached

\* A write that the API server accepts becomes the stored version.
LEMMA AppendVersion ==
  ASSUME VersionsOK, NEW v \in Search, versions' = Append(versions, v)
  PROVE  versions' \in Seq(Search) /\ versions' # <<>> /\ Stored' = v
  <1>1. versions \in Seq(Search) /\ Len(versions) \in Nat
    BY DEF VersionsOK
  <1>2. versions' \in Seq(Search) /\ Len(versions') = Len(versions) + 1
        /\ versions'[Len(versions')] = v
    BY <1>1
  <1> QED
    BY <1>1, <1>2 DEF Stored

\* So does one that is sent unchanged, which makes no new version.
LEMMA WriteVersion ==
  ASSUME VersionsOK, NEW v \in Search, Write(v)
  PROVE  versions' \in Seq(Search) /\ versions' # <<>> /\ Stored' = v
  <1>1. CASE versions' = Append(versions, v)
    BY <1>1, AppendVersion
  <1>2. CASE v = Stored /\ versions' = versions
    BY <1>2 DEF VersionsOK, Stored
  <1> QED
    BY <1>1, <1>2 DEF Write

\* The informer moving on keeps the stored version.
LEMMA DeliverVersion ==
  ASSUME VersionsOK, Deliver
  PROVE  versions' \in Seq(Search) /\ versions' # <<>> /\ Stored' = Stored
  <1>1. /\ versions \in Seq(Search) /\ Len(versions) \in Nat
        /\ Len(versions) > 1 /\ versions' = Tail(versions)
    BY DEF VersionsOK, Deliver
  <1>2. /\ versions' \in Seq(Search) /\ Len(versions') = Len(versions) - 1
        /\ \A i \in 1 .. Len(versions') : versions'[i] = versions[i + 1]
    BY <1>1
  <1>3. versions' # <<>>
    BY <1>1, <1>2
  <1>4. Stored' = Stored
    BY <1>1, <1>2 DEF Stored
  <1> QED
    BY <1>2, <1>3, <1>4

\* Every pod belongs to a Deployment.
LEMMA DeploymentOf ==
  ASSUME NEW p \in Pods
  PROVE  deploymentName(p) \in Deployments /\ p \in PodsOf[deploymentName(p)]
  BY DEF deploymentName, Pods

\* A pod request sends a status in which only the condition of its Deployment is new.
LEMMA SentStatus ==
  ASSUME VersionsOK, NEW d \in Deployments, SendStatus(inst, d)
  PROVE  /\ versions' \in Seq(Search) /\ versions' # <<>>
         /\ Stored'.feature = inst.feature
         /\ \A e \in Deployments \ {d} : Stored'.ready[e] = inst.ready[e]
  <1>0. inst \in Search
    BY DEF VersionsOK
  <1>1. WithReady(inst, d, "False") \in Search /\ WithReady(inst, d, "True") \in Search
    BY <1>0, SearchTypes
  <1>2. PICK v \in {inst, WithReady(inst, d, "False"), WithReady(inst, d, "True")} :
          versions' = Append(versions, v) \/ Write(v)
    BY DEF SendStatus, updateStatusCondition, podCondition
  <1>3. v \in Search
    BY <1>0, <1>1, <1>2
  <1>4. versions' \in Seq(Search) /\ versions' # <<>> /\ Stored' = v
    BY <1>2, <1>3, AppendVersion, WriteVersion
  <1>5. v.feature = inst.feature /\ \A e \in Deployments \ {d} : v.ready[e] = inst.ready[e]
    BY <1>0, <1>2, SearchKeeps
  <1> QED
    BY <1>4, <1>5

-----------------------------------------------------------------------------
(* The status of the Search CR.                                            *)

\* Steps that leave the stored version as it is.
LEMMA KeepStored ==
  ASSUME IInv, versions' \in Seq(Search), versions' # <<>>, Stored' = Stored,
         inst' \in Search, fresh' => fresh /\ inst' = inst
  PROVE  VersionsOK' /\ FreshInv' /\ OwnStep
  BY DEF IInv, VersionsOK, FreshInv, OwnStep

\* Every step keeps the versions of the Search CR well typed and the worker's
\* copy the stored one as long as it is fresh, and changes no condition but that
\* of the request at work.
LEMMA NextStatus == IInv /\ [Next]_vars => VersionsOK' /\ FreshInv' /\ OwnStep
  <1> SUFFICES ASSUME IInv, [Next]_vars PROVE VersionsOK' /\ FreshInv' /\ OwnStep
    OBVIOUS
  <1>0. /\ VersionsOK /\ NewSearch \in Search /\ inst \in Search
        /\ versions \in Seq(Search) /\ versions # <<>>
    BY SearchTypes DEF IInv, TypeOK, PodTypeOK, VersionsOK
  <1>1. ASSUME UNCHANGED versions PROVE Stored' = Stored
    BY <1>1 DEF Stored
  <1>2. ASSUME NEW r, StartReconcile(r) PROVE VersionsOK' /\ FreshInv' /\ OwnStep
    <2>1. UNCHANGED versions /\ inst' = Cached /\ fresh' = (Len(versions) = 1)
      BY <1>2 DEF StartReconcile, Take
    <2>2. Stored' = Stored
      BY <1>1, <2>1
    <2>3. inst' \in Search /\ (fresh' => inst' = Stored)
      BY <1>0, <2>1, StoredType
    <2> QED
      BY <1>0, <2>1, <2>2, <2>3 DEF VersionsOK, FreshInv, OwnStep
  <1>3. CASE PodReconcile
    <2>0. inst' = NewSearch /\ fresh' = FALSE
      BY <1>3 DEF PodReconcile, updateStatus, Done, Retry, Release
    <2>1. CASE UNCHANGED versions
      BY <1>0, <1>1, <2>0, <2>1, KeepStored
    <2>2. CASE fresh /\ SendStatus(inst, deploymentName(request)) /\ request \in Pods
      <3> DEFINE d == deploymentName(request)
      <3>1. d \in Deployments /\ request \in PodsOf[d]
        BY <2>2, DeploymentOf
      <3>2. /\ versions' \in Seq(Search) /\ versions' # <<>>
            /\ Stored'.feature = inst.feature
            /\ \A e \in Deployments \ {d} : Stored'.ready[e] = inst.ready[e]
        BY <1>0, <2>2, <3>1, SentStatus
      <3>3. inst = Stored
        BY <2>2 DEF IInv, FreshInv
      <3> QED
        BY <1>0, <2>0, <3>1, <3>2, <3>3 DEF VersionsOK, FreshInv, OwnStep
    <2> QED
      BY <1>3, <2>1, <2>2 DEF PodReconcile, updateStatus
  <1>4. CASE FullReconcile
    <2>0. inst' = NewSearch /\ fresh' = FALSE
      BY <1>4 DEF FullReconcile, Done, Retry, Release
    <2>1. CASE UNCHANGED versions
      BY <1>0, <1>1, <2>0, <2>1, KeepStored
    <2>2. CASE fresh /\ Write(WithFeature(inst)) /\ request = SearchRequest
      <3>1. WithFeature(inst) \in Search /\ WithFeature(inst).ready = inst.ready
        BY <1>0, SearchTypes, SearchKeeps
      <3>2. versions' \in Seq(Search) /\ versions' # <<>> /\ Stored' = WithFeature(inst)
        BY <1>0, <2>2, <3>1, WriteVersion
      <3>3. inst = Stored
        BY <2>2 DEF IInv, FreshInv
      <3> QED
        BY <1>0, <2>0, <2>2, <3>1, <3>2, <3>3 DEF VersionsOK, FreshInv, OwnStep
    <2> QED
      BY <1>4, <2>1, <2>2 DEF FullReconcile
  <1>5. CASE Crash
    <2>1. versions' = <<Stored>> /\ inst' = NewSearch /\ fresh' = FALSE
      BY <1>5 DEF Crash, Restart
    <2>2. Stored \in Search
      BY <1>0, StoredType
    <2>3. versions' \in Seq(Search) /\ versions' # <<>> /\ versions'[Len(versions')] = Stored
      BY <2>1, <2>2
    <2>4. Stored' = Stored
      BY <2>3 DEF Stored
    <2> QED
      BY <1>0, <2>1, <2>3, <2>4, KeepStored
  <1>6. CASE Deliver
    <2>1. UNCHANGED <<inst, fresh>>
      BY <1>6 DEF Deliver, worker
    <2> QED
      BY <1>0, <1>6, <2>1, DeliverVersion, KeepStored
  <1>7. CASE UNCHANGED <<versions, inst, fresh>>
    BY <1>0, <1>1, <1>7, KeepStored
  <1>8. ASSUME NEW v \in Search, EditSearch(v), v.ready = Stored.ready, v.feature = Stored.feature
        PROVE  VersionsOK' /\ FreshInv' /\ OwnStep
    <2>1. versions' \in Seq(Search) /\ versions' # <<>> /\ Stored' = v
      BY <1>0, <1>8, AppendVersion DEF EditSearch
    <2>2. inst' = inst /\ fresh' = FALSE
      BY <1>8 DEF EditSearch
    <2> QED
      BY <1>0, <1>8, <2>1, <2>2 DEF VersionsOK, FreshInv, OwnStep
  <1>9. CASE Around
    <2>0. Stored \in Search
      BY <1>0, StoredType
    <2>1. CASE Resync \/ \E p \in Pods, s \in PodStates : PodEvent(p, s)
      BY <1>7, <2>1 DEF Resync, PodEvent, worker
    <2>2. ASSUME NEW b \in BOOLEAN, EditSearch([Stored EXCEPT !.want = b])
          PROVE  VersionsOK' /\ FreshInv' /\ OwnStep
      BY <1>8, <2>0, <2>2, SearchTypes, SearchKeeps
    <2>3. ASSUME NEW i \in Overrides, EditSearch([Stored EXCEPT !.override = i])
          PROVE  VersionsOK' /\ FreshInv' /\ OwnStep
      BY <1>8, <2>0, <2>3, SearchTypes, SearchKeeps
    <2> QED
      BY <1>6, <1>9, <2>1, <2>2, <2>3 DEF Around
  <1>10. CASE Beside \/ UNCHANGED vars
    BY <1>7, <1>10 DEF Beside, vars, podVars
  <1> QED
    BY <1>2, <1>3, <1>4, <1>5, <1>9, <1>10 DEF Next

-----------------------------------------------------------------------------
(* Type correctness.                                                       *)

LEMMA InitType == Init => IInv
  <1> SUFFICES ASSUME Init PROVE IInv
    OBVIOUS
  <1>1. NewSearch \in Search
    BY NewSearchType
  <1>2. VersionsOK /\ FreshInv /\ fresh \in BOOLEAN
    <2>1. versions = <<NewSearch>> /\ inst = NewSearch /\ fresh = FALSE
      BY DEF Init, PodInit
    <2>2. VersionsOK
      BY <1>1, <2>1 DEF VersionsOK
    <2>3. FreshInv /\ fresh \in BOOLEAN
      BY <2>1 DEF FreshInv
    <2> QED
      BY <2>2, <2>3
  <1>3. /\ pods \in [Pods -> PodStates] /\ queue \subseteq Pods \cup {SearchRequest}
        /\ request \in Pods \cup {SearchRequest, None} /\ missed \subseteq Deployments
    BY DEF Init, PodInit, PodStates, Listed, Present
  <1>4. faults \in Nat /\ edits \in Nat /\ faults + edits <= MaxEvents
    BY BoundsAssumption DEF Init, PodInit
  <1>5. AddonTypeOK
    BY DEF Init, AddonInit, AddonTypeOK, BindingStates
  <1> QED
    BY <1>2, <1>3, <1>4, <1>5 DEF Init, IInv, TypeOK, PodTypeOK

\* The bound on failures and edits is kept.
LEMMA NextBounds ==
  ASSUME TypeOK, [Next]_vars
  PROVE  faults' \in Nat /\ edits' \in Nat /\ faults' + edits' <= MaxEvents
  <1>0. faults \in Nat /\ edits \in Nat /\ faults + edits <= MaxEvents
    BY DEF TypeOK, PodTypeOK
  <1>1. \/ (Fault \/ NoFault) /\ UNCHANGED edits
        \/ Edit /\ UNCHANGED faults
    <2>1. ASSUME NEW r, StartReconcile(r) PROVE NoFault /\ UNCHANGED edits
      BY <2>1 DEF StartReconcile, NoFault
    <2>2. CASE PodReconcile \/ FullReconcile \/ Crash
      BY <2>2 DEF PodReconcile, updateStatus, FullReconcile, Crash
    <2>3. CASE Around
      BY <2>3 DEF Around, Deliver, Resync, PodEvent, EditSearch, NoFault
    <2>4. CASE Beside
      <3>1. CASE startAddon
        BY <3>1 DEF startAddon
      <3>2. ASSUME NEW c, Framework(c) PROVE NoFault /\ UNCHANGED edits
        BY <3>2 DEF Framework, createOrUpdateRoleBinding, ApproveCSR, Render, NoFault
      <3>3. ASSUME NEW c, AddonEdit(c) PROVE Edit /\ UNCHANGED faults
        BY <3>3 DEF AddonEdit, Annotate, ChangeBinding, RequestCSR
      <3> QED
        BY <2>4, <3>1, <3>2, <3>3 DEF Beside
    <2>5. CASE UNCHANGED vars
      BY <2>5 DEF vars, NoFault
    <2> QED
      BY <2>1, <2>2, <2>3, <2>4, <2>5 DEF Next
  <1> QED
    BY <1>0, <1>1, BoundsAssumption DEF Fault, NoFault, Edit

\* The flag of the worker stays Boolean.
LEMMA NextFresh ==
  ASSUME TypeOK, [Next]_vars
  PROVE  fresh' \in BOOLEAN
  <1>0. fresh \in BOOLEAN
    BY DEF TypeOK, PodTypeOK
  <1>1. ASSUME NEW r, StartReconcile(r) PROVE fresh' \in BOOLEAN
    BY <1>1 DEF StartReconcile, Take
  <1>2. CASE PodReconcile \/ FullReconcile \/ Crash
    BY <1>2 DEF PodReconcile, updateStatus, FullReconcile, Crash, Restart, Done, Retry, Release
  <1>3. CASE Around
    BY <1>0, <1>3 DEF Around, Deliver, Resync, PodEvent, EditSearch, worker
  <1>4. CASE Beside \/ UNCHANGED vars
    BY <1>0, <1>4 DEF Beside, vars, podVars
  <1> QED
    BY <1>1, <1>2, <1>3, <1>4 DEF Next

\* Pods, queue, the request at work and the history of restarts.
LEMMA NextPods ==
  ASSUME TypeOK, [Next]_vars
  PROVE  /\ pods' \in [Pods -> PodStates] /\ queue' \subseteq Pods \cup {SearchRequest}
         /\ request' \in Pods \cup {SearchRequest, None} /\ missed' \subseteq Deployments
  <1> DEFINE Goal == /\ pods' \in [Pods -> PodStates]
                     /\ queue' \subseteq Pods \cup {SearchRequest}
                     /\ request' \in Pods \cup {SearchRequest, None}
                     /\ missed' \subseteq Deployments
  <1> SUFFICES Goal
    OBVIOUS
  <1>0. /\ pods \in [Pods -> PodStates] /\ queue \subseteq Pods \cup {SearchRequest}
        /\ request \in Pods \cup {SearchRequest, None} /\ missed \subseteq Deployments
        /\ Listed \subseteq Pods \cup {SearchRequest}
    BY DEF TypeOK, PodTypeOK, Listed, Present
  <1>1. ASSUME NEW r \in Listed \cup queue, StartReconcile(r) PROVE Goal
    <2>1. queue' = queue \ {r} /\ request' = r /\ UNCHANGED <<pods, missed>>
      BY <1>1 DEF StartReconcile, Take
    <2> QED
      BY <1>0, <2>1
  <1>2. CASE PodReconcile \/ FullReconcile
    <2>1. /\ request' = None /\ UNCHANGED <<pods, missed>>
          /\ \/ queue' = queue
             \/ queue' = queue \cup {request} /\ request \in Pods \cup {SearchRequest}
      BY <1>2 DEF PodReconcile, updateStatus, FullReconcile, Done, Retry, Release
    <2> QED
      BY <1>0, <2>1
  <1>3. CASE Crash
    <2>1. /\ request' = None /\ queue' = Listed /\ UNCHANGED pods
          /\ missed' = {d \in Deployments : Present \cap PodsOf[d] = {}}
      BY <1>3 DEF Crash, Restart
    <2> QED
      BY <1>0, <2>1
  <1>4. CASE Deliver
    BY <1>0, <1>4 DEF Deliver, worker
  <1>5. CASE Resync
    BY <1>0, <1>5 DEF Resync, worker
  <1>6. ASSUME NEW p \in Pods, NEW s \in PodStates, PodEvent(p, s) PROVE Goal
    BY <1>0, <1>6 DEF PodEvent, worker
  <1>7. ASSUME NEW v, EditSearch(v) PROVE Goal
    BY <1>0, <1>7 DEF EditSearch
  <1>8. CASE Beside \/ UNCHANGED vars
    BY <1>0, <1>8 DEF Beside, vars, podVars
  <1> QED
    BY <1>1, <1>2, <1>3, <1>4, <1>5, <1>6, <1>7, <1>8 DEF Next, Around

-----------------------------------------------------------------------------
(* The add-on and the images of the collector.                             *)

\* The last of the value functions decides about the image, whatever the
\* annotations of the add-on hold.
LEMMA OverrideWins ==
  ASSUME NEW c
  PROVE  Values(c).image = SearchCollectorImage
  BY DEF Values, MergeValues, validateImageOverride

\* The Deployment on the hub gets no image that is not trusted.
LEMMA HubImageTrusted ==
  ASSUME NEW i
  PROVE  getImageSha(i) \in TrustedImages \cup {COLLECTOR_IMAGE}
  BY DEF getImageSha, IsTrustedImage

LEMMA InitImages == Init => ImagesTrusted
  BY DEF Init, AddonInit, ImagesTrusted, NotRendered

\* Every step keeps the add-on well typed and its images trusted.
LEMMA NextAddon ==
  ASSUME TypeOK, ImagesTrusted, [Next]_vars
  PROVE  AddonTypeOK' /\ hubImage' \in TrustedImages \cup {COLLECTOR_IMAGE, None} /\ ImagesTrusted'
  <1> DEFINE Goal == /\ AddonTypeOK' /\ ImagesTrusted'
                     /\ hubImage' \in TrustedImages \cup {COLLECTOR_IMAGE, None}
  <1> SUFFICES Goal
    OBVIOUS
  <1>0. AddonTypeOK /\ hubImage \in TrustedImages \cup {COLLECTOR_IMAGE, None}
    BY DEF TypeOK
  <1>1. ASSUME UNCHANGED <<addonVars, hubImage>> PROVE Goal
    BY <1>0, <1>1 DEF AddonTypeOK, ImagesTrusted, addonVars
  <1>2. ASSUME NEW r, StartReconcile(r) PROVE Goal
    <2>1. CASE CreateAddonOnce(Cached.override)
      BY <1>0, <1>2, <2>1
      DEF CreateAddonOnce, ValidateImageRepo, IsTrustedImage, AddonTypeOK, ImagesTrusted,
          StartReconcile
    <2> QED
      BY <1>1, <1>2, <2>1 DEF StartReconcile
  <1>3. CASE PodReconcile \/ Around
    BY <1>1, <1>3 DEF PodReconcile, Around
  <1>4. CASE FullReconcile
    <2>1. hubImage' = hubImage \/ hubImage' = getImageSha(inst.override)
      BY <1>4 DEF FullReconcile
    <2>2. hubImage' \in TrustedImages \cup {COLLECTOR_IMAGE, None}
      BY <1>0, <2>1, HubImageTrusted
    <2>3. UNCHANGED addonVars
      BY <1>4 DEF FullReconcile
    <2> QED
      BY <1>0, <2>2, <2>3 DEF AddonTypeOK, ImagesTrusted, addonVars
  <1>5. CASE Crash
    BY <1>0, <1>5 DEF Crash, AddonRestart, AddonTypeOK, ImagesTrusted
  <1>6. CASE startAddon /\ UNCHANGED hubImage
    BY <1>0, <1>6 DEF startAddon, AddonTypeOK, ImagesTrusted
  <1>7. ASSUME NEW c \in Clusters, Framework(c), UNCHANGED hubImage PROVE Goal
    <2>1. CASE createOrUpdateRoleBinding(c)
      BY <1>0, <1>7, <2>1
      DEF createOrUpdateRoleBinding, process, AddonTypeOK, ImagesTrusted, BindingStates
    <2>2. CASE ApproveCSR(c)
      BY <1>0, <1>7, <2>2 DEF ApproveCSR, process, AddonTypeOK, ImagesTrusted
    <2>3. CASE Render(c)
      <3>1. manifests' = [manifests EXCEPT ![c] = Values(c)] /\ DOMAIN manifests = Clusters
        BY <1>0, <2>3 DEF Render, AddonTypeOK
      <3>2. \A e \in Clusters : manifests'[e].image
               \in TrustedImages \cup {COLLECTOR_IMAGE, None, NotRendered.image}
        BY <1>0, <3>1, OverrideWins DEF ImagesTrusted, AddonTypeOK
      <3>3. AddonTypeOK'
        BY <1>0, <2>3, <3>1 DEF Render, process, AddonTypeOK
      <3> QED
        BY <1>0, <1>7, <3>2, <3>3 DEF ImagesTrusted
    <2> QED
      BY <1>7, <2>1, <2>2, <2>3 DEF Framework
  <1>8. ASSUME NEW c \in Clusters, AddonEdit(c), UNCHANGED hubImage PROVE Goal
    BY <1>0, <1>8
    DEF AddonEdit, Annotate, ChangeBinding, RequestCSR, process, AddonTypeOK, ImagesTrusted,
        BindingStates
  <1>9. CASE UNCHANGED vars
    BY <1>1, <1>9 DEF vars
  <1> QED
    BY <1>2, <1>3, <1>4, <1>5, <1>6, <1>7, <1>8, <1>9 DEF Next, Beside

-----------------------------------------------------------------------------
(* The theorems.                                                           *)

\* Every step keeps the inductive invariant.
LEMMA NextInv == IInv /\ ImagesTrusted /\ [Next]_vars => IInv' /\ ImagesTrusted'
  <1> SUFFICES ASSUME IInv, ImagesTrusted, [Next]_vars PROVE IInv' /\ ImagesTrusted'
    OBVIOUS
  <1>1. TypeOK
    BY DEF IInv
  <1>2. VersionsOK' /\ FreshInv' /\ fresh' \in BOOLEAN
    BY <1>1, NextStatus, NextFresh
  <1>3. PodTypeOK'
    BY <1>1, <1>2, NextBounds, NextPods DEF PodTypeOK
  <1> QED
    BY <1>1, <1>2, <1>3, NextAddon DEF IInv, TypeOK

\* Whichever requests, failures, restarts and edits come, and in whatever order,
\* the queue, the status and the add-on stay well typed.
THEOREM TypeCorrect == Spec => []TypeOK
  <1>1. IInv /\ ImagesTrusted => TypeOK
    BY DEF IInv
  <1> QED
    BY <1>1, InitType, InitImages, NextInv, PTL DEF Spec

\* The collector runs nowhere from an image of a registry that is not trusted: for
\* any images people ask for in the Search CR or in the annotations of an add-on,
\* any clusters, and however often the operator is restarted.
THEOREM ImagesAlwaysTrusted == Spec => []ImagesTrusted
  BY InitType, InitImages, NextInv, PTL DEF Spec

\* A status write changes no condition but its own request's, although pod
\* requests and full reconciles each send the whole status they hold.
THEOREM StatusWritesOwn == Spec => WritesOwnCondition
  <1>1. IInv /\ [Next]_vars
          => [/\ \A d \in Deployments : Stored'.ready[d] # Stored.ready[d] => request \in PodsOf[d]
              /\ Stored'.feature # Stored.feature => request = SearchRequest]_vars
    BY NextStatus DEF OwnStep
  <1> QED
    BY <1>1, InitType, InitImages, NextInv, PTL DEF Spec, WritesOwnCondition
=============================================================================

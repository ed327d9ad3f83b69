# Search operator: a TLA+ model of its control

This directory models the control of the search-v2-operator: the reconciler of
the `Search` custom resource (CR), its finalizer, its optional features, its
status, the settings of the hub it follows, the add-on on managed clusters, and
the `CollectorConfig` resources with their seeder, merge and admission webhook.
TLC checks the models on small instances; TLAPS proves, for every instance, every
safety property that a passing run checks, that the life cycle implements its
abstract specification, and the meaning of collection rules. `PROJECT.json` lists the
runs, the source lines every definition models, the hazards the properties are
aimed at, and the disagreements between the code and what it says of itself.

## The system

One operator process is active at a time (leader election) with one reconcile
worker. It keeps almost no state: two `sync.Once`, the seeder's progress and an
informer cache. Everything else is in the API server, which other writers share.

| Part | State | Operations | Met by |
|---|---|---|---|
| Reconciler (`search_controller.go`) | cached `Search`, `once`, `cleanOnce` | `Reconcile`: get the CR, start the addon once, `setFinalizer`, pause check, 42 ensure-steps in order | requests from watches, the resync, retries |
| Finalizer (`setFinalizer`, `finalizeSearch`, `cleanup.go`) | the finalizer on the CR | add it before anything is created; on deletion take down cluster-scoped RBAC, then remove it | deletion, pause, conflicts, crashes |
| Ensure helpers (`common.go`, `create_*.go`) | owned and unowned objects | create, correct, replace or delete one object | failing calls, people, the garbage collector |
| Watches (`SetupWithManager`) | the work queue | which events enqueue a request | everyone |
| Optional features (`global_search_setup.go`, `fine_grained_rbac.go`, `virtual_machines_setup.go`) | annotations, search-api environment, status conditions; console flags and per-cluster objects | enable, disable, report | conflicts on the CR, partial failures |
| Collection rules (`collectorconfig_webhook.go`, `create_collectorconfig.go`) | none | overlap of rules, validation | webhook and merge |
| CollectorConfig merge | `merged-collector-config`, backup labels, `Applied` condition | list teams, label, read user, drop, report, write | teams, users, the webhook |
| Integration seeder | once per process | poll until one pass has no error | pause, deletion of `Search`, the webhook |
| Admission webhook | none | accept or refuse each write | every writer, the operator too |
| Postgres configuration (`create_pgconfigmap.go`, `tlsconfig.go`, `create_pgdeployment.go`) | the ConfigMap `search-postgres`, shared with its users; the hash on the Deployment | merge or migrate `custom-postgresql.conf`, read `WORK_MEM` and the TLS profile, restart Postgres | people who edit the same ConfigMap, failing reads, the reconcile its own write enqueues |
| Network policies (`create_networkpolicies.go`) | five NetworkPolicies | build from the namespace of the MultiClusterEngine, create, correct | a resource that is not watched |
| Pod status (`updateStatus`, `updateStatusCondition`) | conditions `Ready--<deployment>` | fold the Ready conditions of the pods of a Deployment | status writes of the features, restarts |
| Search add-on (`addon.go`, `imagevalidation.go`) | the add-on manager, `SearchCollectorImage` | start once, bind roles, approve certificates, render manifests | annotations, image overrides, a failed start |

What is hard in it: reads from a lagging cache with writes under optimistic
concurrency; deletion and re-creation of the CR while the garbage collector is
still busy with its predecessor; errors that are logged and swallowed; events
that are not watched; several independent writes whose only record is a status
condition; an operator whose own writes pass through its webhook; a ConfigMap that people and
operator both write, one of them unconditionally. The hazards
are listed, line by line, in `PROJECT.json`.

What makes each part correct: no RBAC outlives the product and no live product
is stripped of it; a deletion completes; an active `Search` converges; a feature
is remembered until it is gone and reported ready only when it is; teams win over
users in the merged config (all but for one race), which follows its sources; seeding is not given up;
what people wrote into the Postgres configuration is kept, and the merge comes to
rest; the status tells what the pods say; no collector runs an image from a
registry that is not trusted, and every cluster with the add-on is served.

## Modules

| Module | Models | Extends |
|---|---|---|
| `SearchLifecycle` | reconciler, finalizer, helpers, watches, garbage collector, people, crashes | instantiates `ProductLife` |
| `SearchLifecycle_proofs` | its inductive invariant and theorems | `SearchLifecycle` |
| `ProductLife` | what installing and removing Search promises: the abstract specification | |
| `Sublists` | loops that keep some elements of a list | |
| `Sublists_proofs` | what they return | `Sublists` |
| `FeatureToggles` | the three features and `addEnvToSearchAPI` | `Sublists` |
| `FeatureToggles_proofs` | its inductive invariant and theorems | `FeatureToggles`, `Sublists_proofs` |
| `CollectionRules` | overlap and validation of rules, as operators | |
| `CollectionRules_proofs` | what they mean, for all rules | `MCCollectionRules` |
| `CollectorConfigs` | merge, seeder, webhook, people, garbage collector | `CollectionRules` |
| `CollectorConfigs_proofs` | its inductive invariant and theorems | `CollectorConfigs` |
| `Bounds` | the counters of failures and edits, with one bound for both | |
| `HubSettings` | Postgres configuration, TLS profile, `WORK_MEM`, NetworkPolicies, people | `Bounds`, `Sublists` |
| `HubSettings_proofs` | its inductive invariant and theorems | `HubSettings`, `Sublists_proofs` |
| `PodStatus` | the work queue, pod events, `updateStatus` | `Bounds` |
| `Addon` | the add-on manager, its value functions, bindings, certificates | `Bounds` |
| `Requests` | both kinds of request beside the add-on: the composition | `PodStatus`, `Addon` |
| `Requests_proofs` | its inductive invariant and theorems | `Requests` |
| `MC...` | the instances TLC checks | one each |

A definition whose comment ends in "mutant" is a plausible wrong version of the
definition after it. No specification uses it: it is there to show that a
property would notice.

**SearchLifecycle.** `versions` is the sequence of versions of the CR between
the one in the cache and the stored one; `fresh` says whether the instance the
worker holds still has the stored resourceVersion, which is all that an update
depends on. `objs` keeps, per object, whether it is there, the uid of its owner,
and the spec generation its content was built from (0 when a person changed it).
`Plan` is the sequence of ensure-steps, each an object and the helper called for
it; `ReconcilePlan` is the one in the code. What a helper does is a matter of the
sets it belongs to (`Corrects`, `SendsWhole`, `Creates`, `GetErrorReturned`,
...), so `ApplyStep`, `ApplyGetError` and `ApplyWriteError` are one call of any
helper: its success, an error of its read, an error of its write. `setFinalizer`,
`FinalizeStep` and `RemoveFinalizer` are the deletion; `Deliver` and `Resync` the
informer; `Crash` a replaced pod. Steps of the plan that depend on a storage
class are taken with one set. `Unowned` are the objects without an owner
reference: cluster-scoped and legacy ones, the volume claim and the three
ServiceMonitors, which outlive `Search` and which its successor finds and leaves
as they are. A ServiceAccount is sent again only when it has more than one pull
secret, which is not kept: `MayWrite` allows it, and nothing relies on it.

**ProductLife.** The abstract specification: a product that is absent, plain,
guarded by its finalizer or terminating, and a set of cluster-wide privileges.
Privileges are granted one at a time and only to a guarded or terminating product
(a reconcile that has not seen the deletion may still grant), and a termination
completes only when none is left. `SearchLifecycle` maps the stored CR to the
product (`LifeOf`) and the existing objects of `finalizeSearch` to the privileges
(`Granted`); cache, worker, queue and every other object are hidden.

**FeatureToggles.** The CR is reduced to the annotations, the search-api
environment and the conditions; `made` is what a feature has set up elsewhere.
`enable` and `disable` work through `todo`, a list of calls, and collect errors
in `errs`. `WriteSpec`, `WriteStatus` and `WriteFails` are the three outcomes of
writing the shared instance: a failed write leaves its change in memory, where a
later write picks it up. A response is decoded over the instance, so an empty
list may keep what was there (`Decoded`). Others do not delete what a feature has
set up.

**CollectionRules and CollectorConfigs.** A rule is an action and a selector (sets
of groups and kinds, with a wildcard), and flags for its optional fields. A
config is its rules, labels, annotation and owner. In the merged config each rule
is kept with the config it came from, so that `TeamsWin` can tell them apart; the
code compares the rules only. The worker holds the teams' rules twice: `teamRules`
is what `mergedSpec` took from the listed configs, `items` those configs in
memory, against which the user's rules are dropped. They part when a label is
patched: the response is decoded into the config (`Answer`), with the rules
somebody wrote meanwhile, while `mergedSpec` keeps the copies made before, except
that these share the lists of groups and kinds with the config, so that the
decoder may write over them (`Decoded`; the lists being sets, partial overlays and
mere reorderings are left out). The same holds of the user's rules. `moved` is a
history variable: the configs whose rules somebody changed between their read and
the patch of their label. Every write, the operator's too, goes through
`Admit`; the overlap check falls away when its List fails. `collectNamespaces`
and the order of rules are left out; the webhook reads configs as they are.

**HubSettings.** The part of `Reconcile` from the TLS profile to the
NetworkPolicies. A configuration file is the sequence of its lines; `versions`
holds the ConfigMap from the cached version to the stored one. `ReadConfigMap` and
`WriteConfigMap` are the two halves of `createOrUpdateConfigMap`, between which
people write; the Update carries no resourceVersion and always wins. Each read of
a setting may fail and falls back as the code does. A legacy ConfigMap, with the
changes of its user in `postgresql.conf`, is one of the initial states. The TLS
presets are cut down to one cipher of each kind, and a profile without any.

**PodStatus, Addon and Requests.** `Requests` joins them with the branch at the
head of `Reconcile`: a request first starts the add-on, whichever kind it is, and
then either folds the pods of one Deployment into a condition or runs the full
reconcile, of which it keeps the writes that meet the other parts: the image of
the collector on the hub and the condition of a feature, whose conflict is
logged, not retried. `missed` is a history variable: the Deployments a restart
found without pods, for which no pod event comes again. The add-on framework is
external: its controllers retry, so a failing call of theirs is a step not taken.

## Runs

| Run | Question | Result |
|---|---|---|
| `lifecycle` | Does RBAC outlive `Search`, or is a live one stripped? Does a deletion complete, and an active `Search` converge? | `RBACCovered`, `FinalizerSparesLive`, `ImplementsProductLife`, `DeletionCompletes`, `Converges` hold; 358 thousand states |
| `lifecycle_full` | Does it converge with all 42 steps? | `Converges` holds |
| `features` | Are conditions forgotten or set too early? Does every annotation have its effect? | `ForgetsOnlyWhenClean`, `ReadyIsTrue`, `Settles` hold; 220 thousand states |
| `features_memory` | Is a feature without annotation taken down? | no: its condition can lose a conflict |
| `rules_pairs` | Do overlap and validation mean what they should? | both hold; 29 thousand pairs |
| `configs` | Can a user's exclude beat a team's include in what the merge writes, from configs nobody changed under a label patch? Does the merge follow its sources? Is seeding given up? | `TeamsWinUndisturbed`, `MergeConverges`, `SeedingCompletes` hold; 324 thousand states |
| `configs_teamswin` | Does a team's include always win in the merged config? | no: the user's rules are judged by the answer to the label patch, not by what is merged |
| `configs_userexclude` | Does an overlapping user exclude give way? | no: the webhook refuses the backup label |
| `configs_teamexclude` | Are team excludes honoured? | no: the webhook refuses the merged config |
| `settings_settle` | Is the custom file kept by a reconcile that saw it, is only a stored configuration hashed, and do configuration, environment and policies follow the settings in the end? | `CustomKept`, `HashedIsStored`, `Settles`, `TrafficFlows` hold; 265 thousand states |
| `settings_custom` | Is the custom file always preserved? | no: an edit the cache has not seen is overwritten |
| `requests` | Can an untrusted image run? Do status writers undo each other? Does the status follow the pods, and is the add-on started and useful? | `ImagesTrusted`, `WritesOwnCondition`, `StatusSettles`, `AddonServes` hold; 521 thousand states |

`TeamsWinUndisturbed` leaves out exactly the configs that `configs_teamswin` is
about. There, a team's unlabelled config is listed with an include and replaced
before its label is patched; the response takes its place in the list, so that an
exclude of the user that overlaps the old include is kept, while `mergedSpec`
still holds that include (the webhook admits the result, since it sees the new
config). What the decoder does to the shared lists does not matter: the include it
may leave in `mergedSpec` is overlapped as well. The change has enqueued another
reconcile, which repairs the merged config: `MergeConverges` covers that state.
`MergeConverges` leaves out exactly the two states that `configs_userexclude` and
`configs_teamexclude` show (`UserLabelRefused`, `TeamExcludeRefused`), and
`Settles` says nothing of a feature that has neither annotation nor condition,
which is what `features_memory` is about. `CustomKept` is confined to a reconcile
whose read is the stored version, outside of which `settings_custom` lies: there
the edit is overwritten by a race with the cache; a failing Get, and a file that
somebody emptied, which the migration takes for a legacy one, lose it too.
`StatusSettles` says nothing of a Deployment whose pods have no Ready condition
yet, or went while the operator was down: the code leaves the old condition.

Four further remarks of the repository do not describe the code and need no
run to see it. `docs/ARCHITECTURE.md:114` says that the finalizer cleans up the
cluster-scoped resources; the ClusterRole `global-search-user`, which `Reconcile`
creates (`search_controller.go:205`), is not among those `finalizeSearch` deletes,
and stays. `docs/ARCHITECTURE.md:140` lists ClusterRoles as a watch source;
`SetupWithManager` watches none, nor updates of Deployments and Secrets, and
`EventOnWrite` and `EventOnDelete` follow the code. `docs/ARCHITECTURE.md:73` says
that a team can freely edit its canonical config; once the seeder has made
`Search` its owner, `rejectIfProtected` refuses that to everyone but the service
accounts of the namespace. `addon/addon_test.go:628` says that a trusted image in
the values annotation is preserved; `validateImageOverride` replaces every image
given there, and `Values` follows the code.

**Bounds.** `MaxFaults` caps failing calls and crashes, `MaxEdits` what others do,
`MaxGen` the generations of the spec. Two edits delete and re-create `Search`,
or delete a paused one, or edit and undo; one fault is enough to lose any one
write, or to crash between any two. (For any number of them the safety
properties are proved.) The life cycle run takes a role and a binding of the
finalizer and one object for each other way of creating, correcting, owning and
watching one; the full run takes all objects for a `Search` that stays, because
the garbage collector may otherwise take forty of them in any order. Two clusters
are needed for a loop over several of them. `MaxEvents` caps faults and edits
together in the modules that extend `Bounds`: two of them are an edit with a
failure or a crash around it, two edits on either side of a read, or a failure of
both a call and its retry. One Deployment with two replicas lets replicas
disagree, appear and go; the condition of another Deployment differs from it no
more than that of the feature does, which the run has. One shipped and one other team,
an include, an exclude it covers and one it does not, give every outcome of the
merge.

**Fairness.** The worker, the informer's delivery, its resync (ten hours, but
certain), the seeder's poll, the controllers of the add-on framework and the
garbage collector are weakly fair: each is a loop that runs whenever it can. With
two kinds of request (`Requests`) the start of each is strongly fair: the work
queue is first in, first out, so no request waits for ever behind the others,
although each is disabled while another is at work. Faults and people are not, and are bounded, so
"in the end" means once they stop. Convergence relies on the resync: the
deletion of most objects is not watched.

**Deadlock** is checked for the features, the settings and the requests, where a
resync is always possible. In the other runs the system may come to rest: without a `Search` nothing is left
to do once people stop.

## Proofs

`SearchLifecycle_proofs`, for every `Plan` and all bounds:

* `TypeCorrect`: `Spec => []TypeOK`.
* `RBACAlwaysCovered`: `Spec => []RBACCovered`.
* `FinalizeSparesLive`: `Spec => FinalizerSparesLive`.
* `LifecycleImplementsProductLife`: `Spec => ImplementsProductLife`, the
  refinement.

`RBACCovered` is not inductive: whether a step may create a role depends on what
the worker believes about a CR that it read from the cache. The invariant `IInv`
adds three facts. `CacheInv`: if any version from the cached one on lets a
reconcile create objects (it carries the finalizer and is not being deleted), the
stored CR still carries the finalizer; if any makes a reconcile finalize, a
stored CR that carries the finalizer is itself being deleted. `WorkerInv`: the
same of the instance the worker holds, which is the stored version while it is
fresh; at an ensure-step both carry the finalizer, and in the finalizer the
instance is being deleted. `FinalizeInv`: what `finalizeSearch` has deleted stays
deleted until it is done, so that nothing is left when the finalizer goes. A few
lemmas (a quiet step, a return, a write by others) and one step per action show
that `IInv` is kept; `FinalizeSparesLive` follows from it step by step. The
refinement rests on the same invariant. Lemma `LifeQuiet` covers the many steps
that leave the stored CR and the privileges alone, `LifeObject` those that change
one object and must be a `Grant` (the invariant gives the guarded product) or a
`Revoke`; the writes of the CR are a `Guard`, an `Install`, a `Remove` or a
stutter, and the one that drops the finalizer is a `Complete`, because
`FinalizeInv` says that by then no privilege is left. The
assumptions are that a plan is a sequence of known helpers (`PlanAssumption`) and
that bounds are natural numbers (`BoundsAssumption`).

`CollectionRules_proofs`, for all groups and kinds that are not the wildcard:

* `OverlapSound`: two selectors overlap exactly when they share a resource.
* `ExcludeSound`: an admitted exclude rule selects no protected resource.
* `OverlapAlwaysExact` and `ExcludesAlwaysSpare`: the same of the pairs of rules
  the run `rules_pairs` goes through, over any names instead of six.

`CollectorConfigs_proofs`, for any teams and rules and all bounds:

* `TypeCorrect`: `Spec => []TypeOK`.
* `TeamsWinWhenUndisturbed`: `Spec => TeamsWinUndisturbed`.

`TeamsWinUndisturbed` speaks of what is written, which the worker gathered in
earlier steps, while teams and users went on writing, in three pieces: the rules
in `mergedSpec`, the listed configs its user rules were dropped against, and the
rules that the answer to a label patch brings. The invariant `IInv` ties them
together for every config that is not in `moved`. `TeamsAgree`: `mergedSpec` holds
of a team what the list holds, and the list what is stored, as long as the label
is to be patched, so that the answer is no news. `UserAgrees`: the same of the
user's config, whose rules are those kept and those set aside. `UserDropped`: no
exclude rule that is kept overlaps an include of the list, and none is held before
the user's config is read. Lemma `OthersAgree` covers every write of others, which
either leaves a pending config's rules alone or puts it into `moved`;
`AnswerType` and `DecodedType` say that an answer that is no news changes nothing.
The assumptions are that the
user's config is not a team's (`NamesAssumption`) and that configs hold rules
(`ContentsAssumption`); what rules say and when two overlap plays no part.

`Requests_proofs`, for any Deployments, pods, clusters and images and all bounds:

* `TypeCorrect`: `Spec => []TypeOK`.
* `ImagesAlwaysTrusted`: `Spec => []ImagesTrusted`.
* `StatusWritesOwn`: `Spec => WritesOwnCondition`.

Each writer of the status sends all of it, so that it changes only its own
condition is a matter of what it holds: `FreshInv` says that an instance with the
stored resourceVersion is the stored one. `ImagesTrusted` is inductive together
with the types: every image that is set has passed `ValidateImageRepo`, and
`validateImageOverride` replaces every image that comes with an annotation. The
assumption is that no pod belongs to two Deployments (`PodsAssumption`).

`HubSettings_proofs`, for any custom files and all bounds:

* `TypeCorrect`: `Spec => []TypeOK`.
* `CustomAlwaysKept`: `Spec => CustomKept`.
* `HashesStored`: `Spec => HashedIsStored`.
* `MergeSettles`: what a second merge with the same settings makes of any
  ConfigMap a third one leaves alone, and the first does it where there was a
  custom file. Each write of the ConfigMap enqueues the reconcile that merges it
  again, so this is what keeps the operator from restarting Postgres for ever;
  that it also reaches this point is the liveness property `Settles`.

The read and the write of the ConfigMap are two steps, and so are its write and
the hash. `HeldInv` bridges both: as long as nobody else has written, what is
about to be written keeps the custom file that is stored, and what the hash is
taken of is stored. `AbsentInv` (a ConfigMap that is not there holds nothing) lets
a creation lose nothing. The assumption is that a custom file is a list of lines
(`CustomsAssumption`).

`FeatureToggles_proofs`, for any list of clusters and all bounds:

* `TypeCorrect`: `Spec => []TypeOK`.
* `ConditionsTrue`: `Spec => ReadyIsTrue`.
* `ForgottenAreClean`: `Spec => ForgetsOnlyWhenClean`.

Both properties speak of one write, of a condition, and are true because of all
the calls before it, any of which may have failed, or may have left its change in
memory for a later write to store. The invariant `IInv` says so step by step.
`LagInv`: a cache that has caught up holds the stored CR. `CondInv`: a condition
in memory differs from the stored one only after a failed write of it; if it is
"true" there, the feature is ready, and if it is missing there, the reconcile is
on its way to return an error. Without it, the status a later feature writes
could carry a condition of an earlier one that nobody has made true.
`EnableInv` and `DisableInv`: while no call of a loop has failed, what the loop
has to set up (or remove) is done or among the calls to come; that the calls for
clusters leave none out is lemma `ClusterCallsAll`. `EnvInv` and `RBACInv`: memory and
API server agree on the environment variable of a feature up to the call that
changes it, and after that call unless it failed. The assumption is that there is
a nonempty list of clusters (`ClustersAssumption`), which an initial state needs.

The loops that keep some elements of a list (`Kept`) are recursive functions, and
the provers cannot instantiate an induction scheme. `Sublists_proofs` makes the
induction by hand: of the indices for which a claim fails, the least
(`NatMin`) leads to a contradiction. What is proved is the type of the result,
which is all that the invariants need.

For each property there is a plausible wrong version of a definition (its mutant
in `PROJECT.json`) under which TLC finds the property violated; for the safety
properties the proof fails under it as well.

Only model-checked is liveness (`Converges`, `DeletionCompletes`, both `Settles`,
`MergeConverges`, `SeedingCompletes`, `TrafficFlows`, `StatusSettles`,
`AddonServes`), which is out of the prover's reach; and what the runs that expect
a violation refute is refuted on an instance.

## Not modelled

The rest of the content of Deployments, Services, Secrets and roles (data: no
control depends on it); the start scripts of Postgres in its ConfigMap; egress in
the NetworkPolicies; generated code, flags and wiring in `main.go`; the wording of
conditions and logs. That the RoleRef of an add-on's RoleBinding cannot be
corrected, and that an image override reaches the managed clusters only with the
next restart, are in the model but no property speaks of them: the code promises
nothing else.

## Plan

1. A composition of `SearchLifecycle` and `CollectorConfigs`: a refused merge
   holds up every later ensure-step.
2. Proofs of what liveness rests on, as far as it is safety: that a policy of
   `HubSettings` admits the traffic it should for every namespace, and that
   `Kept` returns exactly the elements it should.

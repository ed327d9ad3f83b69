---------------------------- MODULE HubSettings ----------------------------
(***************************************************************************)
(* What Reconcile derives from settings that are kept outside the Search   *)
(* CR: the search-postgres ConfigMap with its custom-postgresql.conf, the  *)
(* hash of it that restarts Postgres, the TLS profile of the cluster, the  *)
(* dbConfig ConfigMap and the namespace of the MultiClusterEngine.         *)
(*                                                                         *)
(* The reconciler shares search-postgres with its users: they own          *)
(* custom-postgresql.conf, it owns the rest, and it sends the whole object *)
(* back without a resourceVersion.  `versions' holds the ConfigMap from the*)
(* version in the informer cache (its first) to the stored one (its last); *)
(* the worker remembers in `fresh' whether nobody wrote since it read.     *)
(*                                                                         *)
(* A configuration file is the sequence of its lines.  SearchLifecycle has *)
(* the rest of Reconcile; here the Search is there, live and not paused.   *)
(***************************************************************************)
EXTENDS Integers, Sequences, FiniteSets, Bounds, Sublists

CONSTANTS Profiles,   \* the TLS security profiles the cluster may be given
          Customs,    \* what people write into custom-postgresql.conf
          Memories,   \* what people set WORK_MEM to
          Namespaces  \* target namespaces of a MultiClusterEngine

Line(k, v) == [key |-> k, value |-> v]
Unset == ""
ASSUME CustomsAssumption == \A c \in Customs : c \in Seq(Elements(c))

-----------------------------------------------------------------------------
(* The TLS profile of the cluster.                                         *)

\* The presets of OpenShift, cut down to ciphers that differ in kind, and a
\* Custom profile that leaves everything out.
TLSProfiles ==
  [Old |-> [minTLSVersion |-> "VersionTLS10",
            ciphers |-> <<"TLS_AES_128_GCM_SHA256", "DES-CBC3-SHA">>],
   Intermediate |-> [minTLSVersion |-> "VersionTLS12",
            ciphers |-> <<"TLS_AES_128_GCM_SHA256", "ECDHE-RSA-AES128-GCM-SHA256">>],
   Modern |-> [minTLSVersion |-> "VersionTLS13",
            ciphers |-> <<"TLS_AES_128_GCM_SHA256">>],
   Custom |-> [minTLSVersion |-> Unset, ciphers |-> <<>>]]
TLS13Ciphers == {"TLS_AES_128_GCM_SHA256"}
GoCiphers == {"TLS_AES_128_GCM_SHA256", "ECDHE-RSA-AES128-GCM-SHA256"}

defaultProfileSpec == TLSProfiles["Intermediate"]

\* A profile that is neither a preset nor complete cannot be resolved.
Resolvable(t) == t = Unset \/ t \in DOMAIN TLSProfiles
fetchTLSProfileSpec(t) == IF t = Unset THEN defaultProfileSpec ELSE TLSProfiles[t]

tlsVersionToPostgres(v) ==
  CASE v = "VersionTLS10" -> "TLSv1"
    [] v = "VersionTLS11" -> "TLSv1.1"
    [] v = "VersionTLS13" -> "TLSv1.3"
    [] OTHER -> "TLSv1.2"

opensslCiphersFromProfile(cs) ==
  LET filtered == Without(cs, TLS13Ciphers)
  IN IF filtered = <<>> THEN <<"HIGH:!aNULL">> ELSE filtered

PostgresTLSConfig(spec) ==
  << Line("ssl_min_protocol_version", <<tlsVersionToPostgres(spec.minTLSVersion)>>),
     Line("ssl_ciphers", opensslCiphersFromProfile(spec.ciphers)) >>

\* ok: could the APIServer resource be read.
getPostgresTLSConfig(t, ok) ==
  PostgresTLSConfig(IF ok /\ Resolvable(t) THEN fetchTLSProfileSpec(t)
                    ELSE defaultProfileSpec)

cipherIDsToIANA(cs) == Kept(cs, GoCiphers)

\* TLS_MIN_VERSION and TLS_CIPHERS of the other components, or neither.
NoEnv == [minTLSVersion |-> "none", ciphers |-> <<>>]
getTLSEnvVars(t, ok) ==
  IF ~(ok /\ Resolvable(t)) THEN NoEnv
  ELSE LET spec == fetchTLSProfileSpec(t)
       IN [minTLSVersion |-> spec.minTLSVersion,
           ciphers |-> cipherIDsToIANA(spec.ciphers)]

-----------------------------------------------------------------------------
(* WORK_MEM: the Search CR before dbConfig before the default.             *)

default_WORK_MEM == "64MB"
ValidMemory == {"64MB", "128MB"}     \* of those in Memories: workMemPattern
sanitizeDBConfigUnchecked(v) == v                                 \* mutant
sanitizeDBConfig(v) == IF v \in ValidMemory THEN v ELSE default_WORK_MEM

\* ok: could the dbConfig ConfigMap be read; a failed read counts as no data.
GetDBConfigFromSearchCR(cr, db, ok) ==
  IF cr # Unset THEN sanitizeDBConfig(cr)
  ELSE IF ok /\ db # Unset THEN sanitizeDBConfig(db) ELSE default_WORK_MEM

-----------------------------------------------------------------------------
(* The search-postgres ConfigMap.                                          *)

NoConfigMap == [there |-> FALSE, conf |-> <<>>, custom |-> <<>>, mem |-> Unset,
                label |-> FALSE]
Header == Line("#", <<"Customizations appended to postgresql.conf.">>)
MigratedHeader == Line("#", <<"Customizations appended to postgresql.conf">>)

\* The lines that are the same in every release stand for themselves.
DefaultConf(tls) == <<Line("ssl", <<"on">>)>> \o tls
                      \o <<Line("statement_timeout", <<"60000">>)>>

PostgresConfigmap(tls, mem) ==
  [there |-> TRUE, conf |-> DefaultConf(tls), custom |-> <<Header>>, mem |-> mem,
   label |-> TRUE]

\* strings.Contains on whole lines.
Contains(conf, custom) ==
  \E i \in 0 .. Len(conf) - Len(custom) :
     SubSeq(conf, i + 1, i + Len(custom)) = custom

\* Mutants: the header replaces what was there; a file that has been merged
\* before is taken for one that needs no merge.
UpdatePostgresConfigmapFresh(found, new) ==
  [new EXCEPT !.conf = @ \o found.custom]
UpdatePostgresConfigmapMerged(found, new) ==
  IF found.custom = <<>> THEN new
  ELSE [new EXCEPT !.custom = found.custom,
                   !.conf = IF Contains(found.conf, found.custom) THEN @
                            ELSE @ \o found.custom]

UpdatePostgresConfigmap(found, new) ==
  IF found.custom = <<>> /\ found.conf # new.conf
  THEN [new EXCEPT !.custom = <<MigratedHeader>> \o Without(found.conf, Elements(new.conf))]
  ELSE [new EXCEPT
          !.conf = IF Contains(@, found.custom) THEN @ ELSE @ \o found.custom,
          !.custom = IF found.custom = <<>> THEN @ ELSE found.custom]

\* sha256, which is injective for what can be met.
postgresConfigHash(cm) == cm.conf

-----------------------------------------------------------------------------
(* The NetworkPolicies: who may reach a component, and on which port.      *)

Rule(ns, pods, port) == [ns |-> ns, pods |-> pods, port |-> port]
Own == "own"   \* the namespace of the policy
All == "all"   \* every pod, or every source
multiclusterEngine == "multicluster-engine"
monitoringIngressRule(port) == Rule("openshift-monitoring", All, port)

PostgresNetworkPolicy ==
  {Rule(Own, p, 5432) : p \in {"search-indexer", "search-api", "acm-mcp-server"}}
\* Mutant: the rule keeps the namespace MultiClusterEngine has by default.
IndexerNetworkPolicyFixed(mceNamespace) ==
  { Rule(multiclusterEngine, "ocm-proxyserver", 3010),
    Rule(Own, "search-collector", 3010), monitoringIngressRule(3010) }
IndexerNetworkPolicy(mceNamespace) ==
  { Rule(mceNamespace, "ocm-proxyserver", 3010),
    Rule(Own, "search-collector", 3010), monitoringIngressRule(3010) }
APINetworkPolicy(mceNamespace) ==
  { Rule(Own, All, 4010), Rule(mceNamespace, "console-mce", 4010),
    monitoringIngressRule(4010) }
CollectorNetworkPolicy == {monitoringIngressRule(5010)}
OperatorNetworkPolicy == {Rule(All, All, 9443), monitoringIngressRule(8080)}

Components == <<"search-collector", "search-indexer", "search-api">>
PolicyOrder == <<"search-postgres", "search-indexer", "search-api",
                 "search-collector", "search-operator">>
Policies == {PolicyOrder[i] : i \in DOMAIN PolicyOrder}
NoPolicy == {}

\* ok: could the MultiClusterEngines be listed.
NetworkPolicies(mce, ok) ==
  LET mceNamespace == IF ok /\ mce # Unset THEN mce ELSE multiclusterEngine
  IN [c \in Policies |->
        CASE c = "search-postgres" -> PostgresNetworkPolicy
          [] c = "search-indexer" -> IndexerNetworkPolicy(mceNamespace)
          [] c = "search-api" -> APINetworkPolicy(mceNamespace)
          [] c = "search-collector" -> CollectorNetworkPolicy
          [] c = "search-operator" -> OperatorNetworkPolicy]

-----------------------------------------------------------------------------
VARIABLES versions,  \* versions of search-postgres: Head cached, Last stored
          profile,   \* tlsSecurityProfile of the APIServer resource
          crMem,     \* WORK_MEM in the Search CR
          dbMem,     \* WORK_MEM in the dbConfig ConfigMap
          mce,       \* targetNamespace of the MultiClusterEngine
          deploy,    \* the search-postgres Deployment
          env,       \* TLS environment of the other Deployments
          policies,  \* the NetworkPolicies
          phase,     \* where the worker is in Reconcile
          instMem,   \* WORK_MEM in `instance'
          pgTLS,     \* the Postgres TLS settings it read
          pgConfigMap, \* the ConfigMap it has built and merged
          fresh,     \* has nobody written search-postgres since it read it
          queued     \* is a request for the Search CR in the work queue

settings == <<profile, crMem, dbMem, mce>>
built == <<deploy, env, policies>>
worker == <<phase, instMem, pgTLS, pgConfigMap, fresh>>
vars == <<versions, settings, built, worker, queued, faults, edits>>

Cached == Head(versions)
Stored == versions[Len(versions)]
NoDeployment == [there |-> FALSE, hash |-> <<>>, mem |-> Unset]
NoPods == [minTLSVersion |-> "absent", ciphers |-> <<>>]
ComponentSet == {Components[i] : i \in DOMAIN Components}

\* What is read and written in a configuration: a line of the operator's, or one
\* that people wrote.
Ciphers == {"TLS_AES_128_GCM_SHA256", "DES-CBC3-SHA", "ECDHE-RSA-AES128-GCM-SHA256"}
Keys == {"#", "ssl", "ssl_min_protocol_version", "ssl_ciphers", "statement_timeout",
         "max_connections", "work_mem"}
Words == Ciphers \cup {"HIGH:!aNULL", "TLSv1", "TLSv1.1", "TLSv1.2", "TLSv1.3", "on",
                       "60000", "200", "1GB"}
           \cup {Header.value[1], MigratedHeader.value[1]}
Lines == [key : Keys, value : Seq(Words)] \cup UNION {Elements(c) : c \in Customs}

Memory == ValidMemory \cup {Unset}
ConfigMap == [there : BOOLEAN, conf : Seq(Lines), custom : Seq(Lines), mem : Memory,
              label : BOOLEAN]

FlagsOK == fresh \in BOOLEAN /\ queued \in BOOLEAN

SettingsOK ==
  /\ profile \in Profiles \cup {Unset} /\ mce \in Namespaces \cup {Unset}
  /\ crMem \in Memories \cup {Unset} /\ dbMem \in Memories \cup {Unset}
  /\ instMem \in Memories \cup {Unset}

ConfigMapsOK == /\ versions \in Seq(ConfigMap) /\ versions # <<>>
                /\ pgConfigMap \in ConfigMap /\ pgTLS \in Seq(Lines)

BuiltOK ==
  /\ deploy \in [there : BOOLEAN, hash : Seq(Lines), mem : Memory]
  /\ DOMAIN env = ComponentSet /\ \A c \in ComponentSet : env[c].ciphers \in Seq(Ciphers)
  /\ DOMAIN policies = Policies

TypeOK ==
  /\ FlagsOK /\ SettingsOK /\ ConfigMapsOK /\ BuiltOK
  /\ phase \in {"idle", "read", "create", "update", "deploy", "components", "policies"}
  /\ faults \in Nat /\ edits \in Nat /\ faults + edits <= MaxEvents

\* What a release before 2.15 left behind: no custom-postgresql.conf, and the
\* changes of the user in postgresql.conf.
Legacy == [there |-> TRUE, mem |-> default_WORK_MEM, label |-> FALSE, custom |-> <<>>,
           conf |-> <<Line("ssl", <<"on">>), Line("max_connections", <<"200">>)>>]

Init ==
  /\ versions \in {<<NoConfigMap>>, <<Legacy>>}
  /\ deploy = NoDeployment
  /\ env = [c \in ComponentSet |-> NoPods]
  /\ policies = [c \in Policies |-> NoPolicy]
  /\ profile = Unset /\ crMem = Unset /\ dbMem = Unset /\ mce = Unset
  /\ phase = "idle" /\ instMem = Unset /\ pgTLS = <<>> /\ pgConfigMap = NoConfigMap
  /\ fresh = FALSE /\ queued = TRUE
  /\ faults = 0 /\ edits = 0

-----------------------------------------------------------------------------
(* The worker.                                                             *)

\* A read of the cluster, which may fail.
Reads(ok) == IF ok THEN NoFault ELSE Fault

\* What the worker holds in memory, and forgets once it is of no more use.
Forget == /\ instMem' = Unset /\ pgTLS' = <<>>
          /\ pgConfigMap' = NoConfigMap /\ fresh' = FALSE
Idle == phase' = "idle" /\ Forget
Requeue == Idle /\ queued' = TRUE
Goto(p) == phase' = p /\ UNCHANGED <<instMem, pgTLS, pgConfigMap, fresh, queued>>
GotoRest(p) == phase' = p /\ Forget /\ UNCHANGED queued

\* Reconcile gets as far as the Postgres Service and reads the TLS profile.
StartReconcile ==
  /\ phase = "idle" /\ queued
  /\ queued' = FALSE /\ phase' = "read" /\ instMem' = crMem
  /\ \E ok \in BOOLEAN : Reads(ok) /\ pgTLS' = getPostgresTLSConfig(profile, ok)
  /\ UNCHANGED <<versions, settings, built, pgConfigMap, fresh, edits>>

\* createOrUpdateConfigMap up to its write: an absent ConfigMap is created, one
\* that differs is updated.  Any error of Get but NotFound leaves found empty.
NeedsUpdate(found, new) == found # new
ReadConfigMap ==
  /\ phase = "read"
  /\ \E dbOK, getOK \in BOOLEAN :
       LET new == PostgresConfigmap(pgTLS, GetDBConfigFromSearchCR(instMem, dbMem, dbOK))
           found == IF getOK THEN Cached ELSE NoConfigMap
           merged == UpdatePostgresConfigmap(found, new)
       IN /\ Reads(dbOK /\ getOK)
          /\ fresh' = (getOK /\ Len(versions) = 1)
          /\ IF getOK /\ ~Cached.there
             THEN phase' = "create" /\ pgConfigMap' = new
             ELSE /\ phase' = IF NeedsUpdate(found, merged) THEN "update" ELSE "deploy"
                  /\ pgConfigMap' = merged
  /\ pgTLS' = <<>>
  /\ UNCHANGED <<versions, settings, built, instMem, queued, edits>>

\* The API server makes no new version of an object that is sent unchanged.
Store(cm) == versions' = IF cm = Stored THEN versions ELSE Append(versions, cm)

\* Create, or Update without a resourceVersion; errors end the reconcile.
\* Mutant: an error is only logged, as that of a Deployment is.
WriteConfigMapSwallows ==
  /\ phase \in {"create", "update"}
  /\ \/ /\ Stored.there = (phase = "update")
        /\ Store(pgConfigMap)
        /\ Goto("deploy") /\ NoFault
     \/ Stored.there # (phase = "update") /\ Goto("deploy") /\ NoFault /\ UNCHANGED versions
     \/ Fault /\ Goto("deploy") /\ UNCHANGED versions
  /\ UNCHANGED <<settings, built, edits>>

WriteConfigMap ==
  /\ phase \in {"create", "update"}
  /\ \/ /\ Stored.there = (phase = "update")
        /\ Store(pgConfigMap)
        /\ Goto("deploy") /\ NoFault
     \/ Stored.there # (phase = "update") /\ Requeue /\ NoFault /\ UNCHANGED versions
     \/ Fault /\ Requeue /\ UNCHANGED versions
  /\ UNCHANGED <<settings, built, edits>>

\* PGDeployment reads WORK_MEM once more.
PGDeployment(ok) ==
  [there |-> TRUE, hash |-> postgresConfigHash(pgConfigMap),
   mem |-> GetDBConfigFromSearchCR(instMem, dbMem, ok)]

\* createOrUpdateDeployment: a failing Update is logged and the reconcile goes
\* on, a failing Get or Create ends it.
ApplyPostgres ==
  /\ phase = "deploy"
  /\ \/ \E ok \in BOOLEAN : Reads(ok) /\ deploy' = PGDeployment(ok) /\ GotoRest("components")
     \/ Fault /\ deploy.there /\ UNCHANGED deploy /\ GotoRest("components")
     \/ Fault /\ UNCHANGED deploy /\ Requeue
  /\ UNCHANGED <<versions, settings, env, policies, edits>>

\* The collector, the indexer and the api share one reading of the TLS profile.
ApplyComponents ==
  LET new(ok) == getTLSEnvVars(profile, ok)
      With(S, e) == [c \in ComponentSet |-> IF c \in S THEN e ELSE env[c]]
  IN /\ phase = "components"
     /\ \/ \E ok \in BOOLEAN : Reads(ok) /\ env' = With(ComponentSet, new(ok))
                               /\ GotoRest("policies")
        \/ \E c \in ComponentSet : /\ Fault /\ env[c] # NoPods
                                   /\ env' = With(ComponentSet \ {c}, new(TRUE))
                                   /\ GotoRest("policies")
        \/ \E n \in 0 .. Len(Components) - 1 :
             Fault /\ env' = With({Components[i] : i \in 1 .. n}, new(TRUE)) /\ Requeue
     /\ UNCHANGED <<versions, settings, deploy, policies, edits>>

\* reconcileNetworkPolicies: updates, not creations, of owned policies come back
\* as events; the first error ends the reconcile.
PolicyEvent == \E c \in Policies : policies[c] # NoPolicy /\ policies'[c] # policies[c]
ApplyPolicies ==
  LET With(n, new) == [c \in Policies |-> IF \E i \in 1 .. n : PolicyOrder[i] = c
                                          THEN new[c] ELSE policies[c]]
  IN /\ phase = "policies"
     /\ \/ /\ \E ok \in BOOLEAN : /\ Reads(ok)
                                  /\ policies' = With(Len(PolicyOrder),
                                                      NetworkPolicies(mce, ok))
           /\ Idle /\ queued' = (queued \/ PolicyEvent)
        \/ /\ \E n \in 0 .. Len(PolicyOrder) - 1 :
                policies' = With(n, NetworkPolicies(mce, TRUE))
           /\ Fault /\ Requeue
     /\ UNCHANGED <<versions, settings, deploy, env, edits>>

Worker == \/ StartReconcile \/ ReadConfigMap \/ WriteConfigMap \/ ApplyPostgres
          \/ ApplyComponents \/ ApplyPolicies

-----------------------------------------------------------------------------
(* Everything around the worker.                                           *)

\* The informer moves one version on.  Creations and updates of an owned
\* ConfigMap enqueue a request, deletions do not (configMapPred).
Deliver ==
  /\ Len(versions) > 1
  /\ versions' = Tail(versions)
  /\ queued' = (queued \/ versions[2].there)
  /\ UNCHANGED <<settings, built, worker, faults, edits>>

Resync == ~queued /\ queued' = TRUE
          /\ UNCHANGED <<versions, settings, built, worker, faults, edits>>

Crash == /\ Fault /\ versions' = <<Stored>> /\ Requeue
         /\ UNCHANGED <<settings, built, edits>>

EditConfigMap(cm) ==
  /\ Edit /\ Stored.there
  /\ versions' = Append(versions, cm) /\ fresh' = FALSE
  /\ UNCHANGED <<settings, built, phase, instMem, pgTLS, pgConfigMap, queued, faults>>

EditCustom(c) == c # Stored.custom /\ EditConfigMap([Stored EXCEPT !.custom = c])
EditConf == EditConfigMap([Stored EXCEPT !.conf = Append(@, Line("work_mem", <<"1GB">>))])
Unlabel == Stored.label /\ EditConfigMap([Stored EXCEPT !.label = FALSE])
DeleteConfigMap == EditConfigMap(NoConfigMap)

\* The Search CR and the APIServer are watched, the dbConfig ConfigMap and the
\* MultiClusterEngine are not.
EditSettings(p, cr, db, ns) ==
  /\ Edit
  /\ <<p, cr, db, ns>> # settings
  /\ profile' = p /\ crMem' = cr /\ dbMem' = db /\ mce' = ns
  /\ queued' = (queued \/ p # profile \/ cr # crMem)
  /\ UNCHANGED <<versions, built, worker, faults>>

Environment ==
  \/ \E c \in Customs : EditCustom(c)
  \/ EditConf \/ Unlabel \/ DeleteConfigMap
  \/ \E p \in Profiles : EditSettings(p, crMem, dbMem, mce)
  \/ \E v \in Memories : \/ EditSettings(profile, v, dbMem, mce)
                        \/ EditSettings(profile, crMem, v, mce)
  \/ \E ns \in Namespaces : EditSettings(profile, crMem, dbMem, ns)

Next == Worker \/ Deliver \/ Resync \/ Crash \/ Environment

Spec == Init /\ [][Next]_vars

\* The worker goroutine runs, the informer delivers and resyncs.
FairSpec == Spec /\ WF_vars(Worker) /\ WF_vars(Deliver) /\ WF_vars(Resync)

-----------------------------------------------------------------------------
(* Properties.                                                             *)

\* What is in custom-postgresql.conf survives a reconcile: the ways to lose it
\* are a failing Get, a write of somebody else that the reconcile did not see,
\* and a file that is empty (createOrUpdateConfigMap, UpdatePostgresConfigmap).
CustomKept ==
  [][edits' = edits /\ fresh /\ Stored.custom # <<>>
       => Stored'.custom = Stored.custom]_vars

\* A hash only restarts Postgres for a configuration that is stored: the hash is
\* taken from memory, and by then the ConfigMap has been written or needed no
\* write, unless somebody else wrote it in between (postgresConfigHash).
HashedIsStored ==
  [][fresh /\ deploy'.hash # deploy.hash => deploy'.hash = Stored.conf]_vars

\* Once edits and failures stop, postgresql.conf is the default for the TLS
\* profile followed by custom-postgresql.conf, the Deployment carries its hash,
\* and WORK_MEM and the TLS environment are the configured ones: a reading that
\* failed is made up for, the merge reaches a fixed point although each write
\* enqueues the next reconcile, and what is not watched is picked up.
Settled ==
  LET default == DefaultConf(getPostgresTLSConfig(profile, TRUE))
      mem == GetDBConfigFromSearchCR(crMem, dbMem, TRUE)
  IN /\ Stored.there /\ Stored.label /\ Stored.custom # <<>> /\ Stored.mem = mem
     /\ \/ Stored.conf = default \o Stored.custom
        \/ Stored.conf = default /\ Contains(default, Stored.custom)
     /\ deploy = [there |-> TRUE, hash |-> Stored.conf, mem |-> mem]
     /\ \A c \in ComponentSet : env[c] = getTLSEnvVars(profile, TRUE)
Settles == <>[]Settled

\* Once edits and failures stop, the components reach each other: the proxy and
\* the console of the MultiClusterEngine from the namespace it really has, and
\* the others from the namespace of Search (create_networkpolicies.go).
Allowed(c, ns, pods, port) ==
  \E r \in policies[c] : r.ns \in {ns, All} /\ r.pods \in {pods, All} /\ r.port = port
TrafficFlows ==
  <>[]( /\ Allowed("search-postgres", Own, "search-indexer", 5432)
        /\ Allowed("search-postgres", Own, "search-api", 5432)
        /\ Allowed("search-indexer", Own, "search-collector", 3010)
        /\ Allowed("search-api", Own, "console-api", 4010)
        /\ Allowed("search-operator", "kube-system", "kube-apiserver", 9443)
        /\ mce # Unset => /\ Allowed("search-indexer", mce, "ocm-proxyserver", 3010)
                          /\ Allowed("search-api", mce, "console-mce", 4010) )

\* create_pgconfigmap.go:274, "Preserve user-defined data in
\* [custom-postgresql.conf]": only people change what people wrote there.
CustomPreserved ==
  [][edits' = edits /\ Stored.custom \in Customs => Stored'.custom = Stored.custom]_vars
=============================================================================

------------------------- MODULE HubSettings_proofs -------------------------
(***************************************************************************)
(* Proofs about HubSettings for all profiles, custom configurations,       *)
(* memory settings, namespaces and bounds.                                 *)
(***************************************************************************)
EXTENDS HubSettings, Sublists_proofs, TLAPS

\* A ConfigMap that is not there holds nothing.
AbsentInv == ~Stored.there => Stored.custom = <<>>

\* What the worker holds, as long as nobody else has written: what it is about to
\* write keeps what people wrote, and what it takes the hash of is stored.
HeldInv ==
  /\ phase \in {"create", "update"} => pgConfigMap.there
  /\ fresh /\ phase = "update" /\ Stored.custom # <<>>
       => pgConfigMap.custom = Stored.custom
  /\ fresh /\ phase = "deploy" => pgConfigMap.conf = Stored.conf

IInv == TypeOK /\ AbsentInv /\ HeldInv

\* What a step may do to custom-postgresql.conf (the action of CustomKept).
CustomStep == edits' = edits /\ fresh /\ Stored.custom # <<>>
                => Stored'.custom = Stored.custom

-----------------------------------------------------------------------------
(* Facts about the model's values.                                         *)

\* The presets hold ciphers.
LEMMA ProfileType ==
  ASSUME NEW t, Resolvable(t)
  PROVE  /\ fetchTLSProfileSpec(t).ciphers \in Seq(Ciphers)
         /\ defaultProfileSpec.ciphers \in Seq(Ciphers)
  <1>1. \A p \in {"Old", "Intermediate", "Modern", "Custom"} :
          TLSProfiles[p].ciphers \in Seq(Ciphers)
    <2>1. /\ TLSProfiles["Old"].ciphers = <<"TLS_AES_128_GCM_SHA256", "DES-CBC3-SHA">>
          /\ TLSProfiles["Intermediate"].ciphers
               = <<"TLS_AES_128_GCM_SHA256", "ECDHE-RSA-AES128-GCM-SHA256">>
          /\ TLSProfiles["Modern"].ciphers = <<"TLS_AES_128_GCM_SHA256">>
          /\ TLSProfiles["Custom"].ciphers = <<>>
      BY DEF TLSProfiles
    <2>2. /\ <<"TLS_AES_128_GCM_SHA256", "DES-CBC3-SHA">> \in Seq(Ciphers)
          /\ <<"TLS_AES_128_GCM_SHA256", "ECDHE-RSA-AES128-GCM-SHA256">> \in Seq(Ciphers)
          /\ <<"TLS_AES_128_GCM_SHA256">> \in Seq(Ciphers)
          /\ <<>> \in Seq(Ciphers)
      BY DEF Ciphers
    <2> QED
      BY <2>1, <2>2
  <1>2. DOMAIN TLSProfiles = {"Old", "Intermediate", "Modern", "Custom"}
    BY DEF TLSProfiles
  <1>3. defaultProfileSpec.ciphers \in Seq(Ciphers)
    BY <1>1 DEF defaultProfileSpec
  <1> QED
    BY <1>1, <1>2, <1>3 DEF Resolvable, fetchTLSProfileSpec

\* A line of words is a line.
LEMMA LineType ==
  ASSUME NEW k \in Keys, NEW v \in Seq(Words)
  PROVE  Line(k, v) \in Lines
  BY DEF Line, Lines

\* The TLS settings of Postgres are lines, whichever ciphers the profile has.
LEMMA TLSConfigType ==
  ASSUME NEW t, NEW ok \in BOOLEAN
  PROVE  getPostgresTLSConfig(t, ok) \in Seq(Lines)
  <1>1. ASSUME NEW spec, spec.ciphers \in Seq(Ciphers)
        PROVE PostgresTLSConfig(spec) \in Seq(Lines)
    <2>1. opensslCiphersFromProfile(spec.ciphers) \in Seq(Words)
      <3>1. Without(spec.ciphers, TLS13Ciphers) \in Seq(Ciphers)
        BY <1>1, WithoutType
      <3>2. Without(spec.ciphers, TLS13Ciphers) \in Seq(Words)
        BY <3>1 DEF Words
      <3>3. <<"HIGH:!aNULL">> \in Seq(Words)
        BY DEF Words
      <3> QED
        BY <3>2, <3>3 DEF opensslCiphersFromProfile
    <2>2. tlsVersionToPostgres(spec.minTLSVersion) \in Words
      BY DEF tlsVersionToPostgres, Words
    <2>3. <<tlsVersionToPostgres(spec.minTLSVersion)>> \in Seq(Words)
      BY <2>2
    <2>4. "ssl_min_protocol_version" \in Keys /\ "ssl_ciphers" \in Keys
      BY DEF Keys
    <2>5. /\ Line("ssl_min_protocol_version", <<tlsVersionToPostgres(spec.minTLSVersion)>>) \in Lines
          /\ Line("ssl_ciphers", opensslCiphersFromProfile(spec.ciphers)) \in Lines
      BY <2>1, <2>3, <2>4, LineType
    <2> QED
      BY <2>5 DEF PostgresTLSConfig
  <1>2. Resolvable(Unset)
    BY DEF Resolvable
  <1>3. defaultProfileSpec.ciphers \in Seq(Ciphers)
    BY <1>2, ProfileType
  <1>4. Resolvable(t) => fetchTLSProfileSpec(t).ciphers \in Seq(Ciphers)
    BY ProfileType
  <1>5. PostgresTLSConfig(defaultProfileSpec) \in Seq(Lines)
    BY <1>1, <1>3
  <1>6. Resolvable(t) => PostgresTLSConfig(fetchTLSProfileSpec(t)) \in Seq(Lines)
    BY <1>1, <1>4
  <1> QED
    BY <1>5, <1>6 DEF getPostgresTLSConfig

\* So are the ciphers of the other components.
LEMMA TLSEnvType ==
  ASSUME NEW t, NEW ok
  PROVE  getTLSEnvVars(t, ok).ciphers \in Seq(Ciphers)
  <1>1. CASE ~(ok /\ Resolvable(t))
    <2>1. getTLSEnvVars(t, ok) = NoEnv
      BY <1>1 DEF getTLSEnvVars
    <2>2. NoEnv.ciphers = <<>>
      BY DEF NoEnv
    <2> QED
      BY <2>1, <2>2
  <1>2. CASE ok /\ Resolvable(t)
    <2>1. Kept(fetchTLSProfileSpec(t).ciphers, GoCiphers) \in Seq(Ciphers)
      BY <1>2, ProfileType, KeptType
    <2>2. getTLSEnvVars(t, ok).ciphers = cipherIDsToIANA(fetchTLSProfileSpec(t).ciphers)
      BY <1>2 DEF getTLSEnvVars
    <2> QED
      BY <2>1, <2>2 DEF cipherIDsToIANA
  <1> QED
    BY <1>1, <1>2

\* WORK_MEM is valid, whatever the Search CR and dbConfig say.
LEMMA DBConfigType ==
  ASSUME NEW cr, NEW db, NEW ok
  PROVE  GetDBConfigFromSearchCR(cr, db, ok) \in Memory
  BY DEF GetDBConfigFromSearchCR, sanitizeDBConfig, Memory, ValidMemory, default_WORK_MEM

\* The lines of the operator's own.
LEMMA OwnLines ==
  /\ Line("ssl", <<"on">>) \in Lines /\ Line("statement_timeout", <<"60000">>) \in Lines
  /\ Line("max_connections", <<"200">>) \in Lines /\ Line("work_mem", <<"1GB">>) \in Lines
  /\ Header \in Lines /\ MigratedHeader \in Lines
  <1>1. ASSUME NEW k \in Keys, NEW w \in Words PROVE Line(k, <<w>>) \in Lines
    <2>1. <<w>> \in Seq(Words)
      OBVIOUS
    <2> QED
      BY <2>1, LineType
  <1>2. {"on", "60000", "200", "1GB"} \subseteq Words
    BY DEF Words
  <1>3. {"#", "ssl", "statement_timeout", "max_connections", "work_mem"} \subseteq Keys
    BY DEF Keys
  <1>4. Header.value[1] \in Words /\ MigratedHeader.value[1] \in Words
    BY DEF Words
  <1>5. Header = Line("#", <<Header.value[1]>>) /\ MigratedHeader = Line("#", <<MigratedHeader.value[1]>>)
    BY DEF Header, MigratedHeader, Line
  <1> QED
    BY <1>1, <1>2, <1>3, <1>4, <1>5

\* The ConfigMaps the model builds.
LEMMA ConfigMapTypes ==
  /\ NoConfigMap \in ConfigMap /\ Legacy \in ConfigMap
  /\ \A tls \in Seq(Lines), mem \in Memory :
        PostgresConfigmap(tls, mem) \in ConfigMap /\ PostgresConfigmap(tls, mem).there
  <1>1. NoConfigMap \in ConfigMap
    <2>1. <<>> \in Seq(Lines) /\ Unset \in Memory
      BY DEF Memory
    <2> QED
      BY <2>1 DEF NoConfigMap, ConfigMap
  <1>2. Legacy \in ConfigMap
    <2>1. <<Line("ssl", <<"on">>), Line("max_connections", <<"200">>)>> \in Seq(Lines)
      BY OwnLines
    <2>2. <<>> \in Seq(Lines) /\ default_WORK_MEM \in Memory
      BY DEF Memory, default_WORK_MEM, ValidMemory
    <2> QED
      BY <2>1, <2>2 DEF Legacy, ConfigMap
  <1>3. ASSUME NEW tls \in Seq(Lines), NEW mem \in Memory
        PROVE  PostgresConfigmap(tls, mem) \in ConfigMap /\ PostgresConfigmap(tls, mem).there
    <2>1. DefaultConf(tls) \in Seq(Lines)
      <3>1. <<Line("ssl", <<"on">>)>> \in Seq(Lines)
            /\ <<Line("statement_timeout", <<"60000">>)>> \in Seq(Lines)
        BY OwnLines
      <3> QED
        BY <3>1 DEF DefaultConf
    <2>2. <<Header>> \in Seq(Lines)
      BY OwnLines
    <2> QED
      BY <2>1, <2>2 DEF PostgresConfigmap, ConfigMap
  <1> QED
    BY <1>1, <1>2, <1>3

\* The merge of the found ConfigMap into the new one: custom-postgresql.conf is
\* kept if there is one.
LEMMA MergeType ==
  ASSUME NEW found \in ConfigMap, NEW new \in ConfigMap
  PROVE  /\ UpdatePostgresConfigmap(found, new) \in ConfigMap
         /\ UpdatePostgresConfigmap(found, new).there = new.there
         /\ found.custom # <<>> => UpdatePostgresConfigmap(found, new).custom = found.custom
  <1>0. /\ found.custom \in Seq(Lines) /\ found.conf \in Seq(Lines)
        /\ new.custom \in Seq(Lines) /\ new.conf \in Seq(Lines)
    BY DEF ConfigMap
  <1>1. CASE found.custom = <<>> /\ found.conf # new.conf
    <2> DEFINE c == <<MigratedHeader>> \o Without(found.conf, Elements(new.conf))
    <2>1. c \in Seq(Lines)
      <3>1. Without(found.conf, Elements(new.conf)) \in Seq(Lines)
        BY <1>0, WithoutType
      <3>2. <<MigratedHeader>> \in Seq(Lines)
        BY OwnLines
      <3> QED
        BY <3>1, <3>2
    <2>2. UpdatePostgresConfigmap(found, new) = [new EXCEPT !.custom = c]
      BY <1>1 DEF UpdatePostgresConfigmap
    <2> HIDE DEF c
    <2> QED
      BY <1>1, <2>1, <2>2 DEF ConfigMap
  <1>2. CASE ~(found.custom = <<>> /\ found.conf # new.conf)
    <2> DEFINE conf == IF Contains(new.conf, found.custom) THEN new.conf
                       ELSE new.conf \o found.custom
               c == IF found.custom = <<>> THEN new.custom ELSE found.custom
    <2>1. conf \in Seq(Lines) /\ c \in Seq(Lines)
      BY <1>0
    <2>2. UpdatePostgresConfigmap(found, new) = [new EXCEPT !.conf = conf, !.custom = c]
      BY <1>2 DEF UpdatePostgresConfigmap
    <2>3. found.custom # <<>> => c = found.custom
      OBVIOUS
    <2> HIDE DEF c, conf
    <2> QED
      BY <2>1, <2>2, <2>3 DEF ConfigMap
  <1> QED
    BY <1>1, <1>2

\* The merge, once custom-postgresql.conf holds something: it stays, and it is appended
\* unless the default file holds it.
LEMMA MergeCustom ==
  ASSUME NEW found \in ConfigMap, NEW new \in ConfigMap, found.custom # <<>>
  PROVE  UpdatePostgresConfigmap(found, new)
           = [new EXCEPT !.conf = IF Contains(new.conf, found.custom) THEN new.conf
                                  ELSE new.conf \o found.custom,
                         !.custom = found.custom]
  BY DEF UpdatePostgresConfigmap, ConfigMap

\* Each write of search-postgres enqueues the reconcile that merges it again.  That
\* ends: what a second merge with the same settings makes of any ConfigMap, whatever
\* its release and its users left in it, a third one leaves alone; where there was a
\* custom-postgresql.conf to begin with, the first merge does it
\* (UpdatePostgresConfigmap).
THEOREM MergeSettles ==
  ASSUME NEW found \in ConfigMap, NEW tls \in Seq(Lines), NEW mem \in Memory
  PROVE  LET new == PostgresConfigmap(tls, mem)
             once == UpdatePostgresConfigmap(found, new)
             twice == UpdatePostgresConfigmap(once, new)
         IN /\ UpdatePostgresConfigmap(twice, new) = twice
            /\ found.custom # <<>> => twice = once
            /\ twice.custom = once.custom /\ once.custom # <<>>
  <1> DEFINE new == PostgresConfigmap(tls, mem)
             once == UpdatePostgresConfigmap(found, new)
             twice == UpdatePostgresConfigmap(once, new)
  <1>1. new \in ConfigMap /\ new.custom = <<Header>> /\ new.custom # <<>>
    <2>1. new \in ConfigMap
      BY ConfigMapTypes
    <2> QED
      BY <2>1 DEF PostgresConfigmap
  <1> HIDE DEF new
  <1>2. once \in ConfigMap
    BY <1>1, MergeType
  <1>3. ASSUME NEW f \in ConfigMap, NEW m, m = UpdatePostgresConfigmap(f, new), f.custom # <<>>
        PROVE  m \in ConfigMap /\ m.custom = f.custom /\ UpdatePostgresConfigmap(m, new) = m
    <2> DEFINE result == [new EXCEPT !.conf = IF Contains(new.conf, f.custom) THEN new.conf
                                            ELSE new.conf \o f.custom,
                                   !.custom = f.custom]
    <2>1. m \in ConfigMap /\ m.custom = f.custom
      BY <1>1, <1>3, MergeType
    <2>2. m = result
      BY <1>1, <1>3, MergeCustom
    <2>3. UpdatePostgresConfigmap(m, new)
            = [new EXCEPT !.conf = IF Contains(new.conf, m.custom) THEN new.conf
                                   ELSE new.conf \o m.custom,
                          !.custom = m.custom]
      BY <1>1, <1>3, <2>1, MergeCustom
    <2>4. UpdatePostgresConfigmap(m, new) = result
      BY <2>1, <2>3
    <2> HIDE DEF result
    <2> QED
      BY <2>1, <2>2, <2>4
  <1>4. once.custom # <<>>
    <2>1. CASE found.custom # <<>>
      BY <1>1, <2>1, MergeType
    <2>2. CASE found.custom = <<>> /\ found.conf # new.conf
      <3> DEFINE c == <<MigratedHeader>> \o Without(found.conf, Elements(new.conf))
      <3>1. c # <<>>
        <4>1. Without(found.conf, Elements(new.conf)) \in Seq(Lines)
          <5>1. found.conf \in Seq(Lines)
            BY DEF ConfigMap
          <5> QED
            BY <5>1, WithoutType
        <4>2. <<MigratedHeader>> \in Seq(Lines) /\ Len(<<MigratedHeader>>) = 1
          BY OwnLines
        <4>3. Len(c) >= 1
          BY <4>1, <4>2
        <4> QED
          BY <4>3
      <3>2. once = [new EXCEPT !.custom = c]
        BY <2>2 DEF UpdatePostgresConfigmap
      <3> HIDE DEF c
      <3> QED
        BY <1>1, <3>1, <3>2 DEF ConfigMap
    <2>3. CASE found.custom = <<>> /\ found.conf = new.conf
      <3>1. once.custom = new.custom
        BY <1>1, <2>3 DEF UpdatePostgresConfigmap, ConfigMap
      <3> QED
        BY <1>1, <3>1
    <2> QED
      BY <2>1, <2>2, <2>3
  <1> HIDE DEF once
  <1>5. twice.custom = once.custom /\ UpdatePostgresConfigmap(twice, new) = twice
    BY <1>2, <1>3, <1>4
  <1>6. found.custom # <<>> => twice = once
    BY <1>3 DEF once
  <1> QED
    BY <1>4, <1>5, <1>6 DEF new, once

\* There is a stored version and a cached one.
LEMMA StoredType ==
  ASSUME ConfigMapsOK
  PROVE  /\ Len(versions) \in Nat /\ Len(versions) >= 1
         /\ Stored \in ConfigMap /\ Cached \in ConfigMap
         /\ Len(versions) = 1 => Cached = Stored
  BY DEF ConfigMapsOK, Stored, Cached

\* A write becomes the stored version.
LEMMA AppendVersion ==
  ASSUME ConfigMapsOK, NEW v \in ConfigMap, versions' = Append(versions, v)
  PROVE  versions' \in Seq(ConfigMap) /\ versions' # <<>> /\ Stored' = v
  <1>1. versions \in Seq(ConfigMap) /\ Len(versions) \in Nat
    BY DEF ConfigMapsOK
  <1>2. versions' \in Seq(ConfigMap) /\ Len(versions') = Len(versions) + 1
        /\ versions'[Len(versions')] = v
    BY <1>1
  <1> QED
    BY <1>1, <1>2 DEF Stored

\* So does one that is sent unchanged, which makes no new version.
LEMMA StoreVersion ==
  ASSUME ConfigMapsOK, NEW v \in ConfigMap, Store(v)
  PROVE  versions' \in Seq(ConfigMap) /\ versions' # <<>> /\ Stored' = v
  <1>1. CASE versions' = Append(versions, v)
    BY <1>1, AppendVersion
  <1>2. CASE v = Stored /\ versions' = versions
    BY <1>2 DEF ConfigMapsOK, Stored
  <1> QED
    BY <1>1, <1>2 DEF Store

\* The informer moving on keeps the stored version.
LEMMA DeliverVersion ==
  ASSUME ConfigMapsOK, Deliver
  PROVE  versions' \in Seq(ConfigMap) /\ versions' # <<>> /\ Stored' = Stored
  <1>1. /\ versions \in Seq(ConfigMap) /\ Len(versions) \in Nat
        /\ Len(versions) > 1 /\ versions' = Tail(versions)
    BY DEF ConfigMapsOK, Deliver
  <1>2. /\ versions' \in Seq(ConfigMap) /\ Len(versions') = Len(versions) - 1
        /\ \A i \in 1 .. Len(versions') : versions'[i] = versions[i + 1]
    BY <1>1
  <1>3. versions' # <<>>
    BY <1>1, <1>2
  <1>4. Stored' = Stored
    BY <1>1, <1>2 DEF Stored
  <1> QED
    BY <1>2, <1>3, <1>4

\* What people make of the stored ConfigMap is a ConfigMap.
LEMMA EditedType ==
  ASSUME NEW v \in ConfigMap
  PROVE  /\ \A c \in Customs : [v EXCEPT !.custom = c] \in ConfigMap
                               /\ [v EXCEPT !.custom = c].there = v.there
         /\ LET w == [v EXCEPT !.conf = Append(@, Line("work_mem", <<"1GB">>))]
            IN w \in ConfigMap /\ w.there = v.there
         /\ [v EXCEPT !.label = FALSE] \in ConfigMap
         /\ [v EXCEPT !.label = FALSE].there = v.there
  <1>1. ASSUME NEW c \in Customs PROVE c \in Seq(Lines)
    <2>1. c \in Seq(Elements(c)) /\ Elements(c) \subseteq Lines
      BY CustomsAssumption DEF Lines
    <2> QED
      BY <2>1
  <1>2. ASSUME NEW c \in Seq(Lines)
        PROVE [v EXCEPT !.custom = c] \in ConfigMap /\ [v EXCEPT !.custom = c].there = v.there
    BY DEF ConfigMap
  <1>3. ASSUME NEW c \in Seq(Lines)
        PROVE [v EXCEPT !.conf = c] \in ConfigMap /\ [v EXCEPT !.conf = c].there = v.there
    BY DEF ConfigMap
  <1>4. Append(v.conf, Line("work_mem", <<"1GB">>)) \in Seq(Lines)
    <2>1. v.conf \in Seq(Lines)
      BY DEF ConfigMap
    <2> QED
      BY <2>1, OwnLines
  <1>5. [v EXCEPT !.label = FALSE] \in ConfigMap /\ [v EXCEPT !.label = FALSE].there = v.there
    BY DEF ConfigMap
  <1> QED
    BY <1>1, <1>2, <1>3, <1>4, <1>5

-----------------------------------------------------------------------------
(* The search-postgres ConfigMap.                                          *)

\* Steps that write nothing and hold on to what they have, or to nothing.
LEMMA KeepStored ==
  ASSUME IInv, versions' \in Seq(ConfigMap), versions' # <<>>, Stored' = Stored,
         \/ UNCHANGED <<phase, pgTLS, pgConfigMap, fresh>>
         \/ Forget /\ phase' \in {"idle", "components", "policies"}
  PROVE  ConfigMapsOK' /\ AbsentInv' /\ HeldInv' /\ CustomStep
  <1>1. AbsentInv' /\ CustomStep
    BY DEF IInv, AbsentInv, CustomStep
  <1>2. CASE UNCHANGED <<phase, pgTLS, pgConfigMap, fresh>>
    <2>1. ConfigMapsOK'
      BY <1>2 DEF IInv, TypeOK, ConfigMapsOK
    <2>2. HeldInv'
      BY <1>2 DEF IInv, HeldInv
    <2> QED
      BY <1>1, <2>1, <2>2
  <1>3. CASE Forget /\ phase' \in {"idle", "components", "policies"}
    <2>1. ConfigMapsOK'
      BY <1>3, ConfigMapTypes DEF Forget, ConfigMapsOK
    <2>2. HeldInv'
      BY <1>3 DEF HeldInv
    <2> QED
      BY <1>1, <2>1, <2>2
  <1> QED
    BY <1>2, <1>3

\* Reading the ConfigMap: what is about to be written keeps what people wrote, and
\* what needs no write is stored.
LEMMA ReadHeld ==
  ASSUME IInv, ReadConfigMap
  PROVE  ConfigMapsOK' /\ AbsentInv' /\ HeldInv' /\ CustomStep
  <1>0. ConfigMapsOK /\ pgTLS \in Seq(Lines) /\ UNCHANGED versions /\ Stored' = Stored
    BY DEF IInv, TypeOK, ConfigMapsOK, ReadConfigMap, Stored
  <1>1. PICK dbOK \in BOOLEAN, getOK \in BOOLEAN :
          LET new == PostgresConfigmap(pgTLS, GetDBConfigFromSearchCR(instMem, dbMem, dbOK))
              found == IF getOK THEN Cached ELSE NoConfigMap
              merged == UpdatePostgresConfigmap(found, new)
          IN /\ fresh' = (getOK /\ Len(versions) = 1)
             /\ IF getOK /\ ~Cached.there
                THEN phase' = "create" /\ pgConfigMap' = new
                ELSE /\ phase' = IF NeedsUpdate(found, merged) THEN "update" ELSE "deploy"
                     /\ pgConfigMap' = merged
    BY DEF ReadConfigMap
  <1> DEFINE new == PostgresConfigmap(pgTLS, GetDBConfigFromSearchCR(instMem, dbMem, dbOK))
             found == IF getOK THEN Cached ELSE NoConfigMap
             merged == UpdatePostgresConfigmap(found, new)
  <1>2. new \in ConfigMap /\ new.there
    BY <1>0, DBConfigType, ConfigMapTypes
  <1>3. found \in ConfigMap
    BY <1>0, StoredType, ConfigMapTypes
  <1>4. /\ merged \in ConfigMap /\ merged.there
        /\ found.custom # <<>> => merged.custom = found.custom
    <2> HIDE DEF new, found
    <2> QED
      BY <1>2, <1>3, MergeType
  <1>5. fresh' => found = Stored
    BY <1>0, <1>1, StoredType
  <1>6. \/ phase' = "create" /\ pgConfigMap' = new
        \/ phase' = "update" /\ pgConfigMap' = merged
        \/ phase' = "deploy" /\ pgConfigMap' = merged /\ found = merged
    BY <1>1 DEF NeedsUpdate
  <1> HIDE DEF new, found, merged
  <1>7. ConfigMapsOK'
    <2>1. pgTLS' = <<>> /\ pgConfigMap' \in ConfigMap
      BY <1>2, <1>4, <1>6 DEF ReadConfigMap
    <2> QED
      BY <1>0, <2>1 DEF ConfigMapsOK
  <1>8. HeldInv'
    BY <1>0, <1>2, <1>4, <1>5, <1>6 DEF HeldInv
  <1> QED
    BY <1>0, <1>7, <1>8 DEF IInv, AbsentInv, CustomStep

\* Writing it: what people wrote is kept, and what is stored is what is held.
LEMMA WriteHeld ==
  ASSUME IInv, WriteConfigMap
  PROVE  ConfigMapsOK' /\ AbsentInv' /\ HeldInv' /\ CustomStep
  <1>0. ConfigMapsOK /\ pgConfigMap \in ConfigMap
    BY DEF IInv, TypeOK, ConfigMapsOK
  <1>1. CASE UNCHANGED versions /\ Requeue
    <2>1. versions' \in Seq(ConfigMap) /\ versions' # <<>> /\ Stored' = Stored
      BY <1>0, <1>1 DEF ConfigMapsOK, Stored
    <2> QED
      BY <1>1, <2>1, KeepStored DEF Requeue, Idle
  <1>2. CASE Store(pgConfigMap) /\ Goto("deploy") /\ Stored.there = (phase = "update")
    <2>1. versions' \in Seq(ConfigMap) /\ versions' # <<>> /\ Stored' = pgConfigMap
      BY <1>0, <1>2, StoreVersion
    <2>2. phase' = "deploy" /\ UNCHANGED <<pgTLS, pgConfigMap, fresh>>
      BY <1>2 DEF Goto
    <2>3. pgConfigMap.there
      BY DEF IInv, HeldInv, WriteConfigMap
    <2>4. ConfigMapsOK'
      BY <1>0, <2>1, <2>2 DEF ConfigMapsOK
    <2>5. HeldInv' /\ AbsentInv'
      BY <2>1, <2>2, <2>3 DEF HeldInv, AbsentInv
    <2>6. CustomStep
      <3>1. CASE phase = "update"
        BY <2>1, <3>1 DEF IInv, HeldInv, CustomStep
      <3>2. CASE phase # "update"
        BY <1>2, <3>2 DEF IInv, AbsentInv, CustomStep
      <3> QED
        BY <3>1, <3>2
    <2> QED
      BY <2>4, <2>5, <2>6
  <1> QED
    BY <1>1, <1>2 DEF WriteConfigMap

\* An edit of somebody else is not the worker's.
LEMMA EditHeld ==
  ASSUME IInv, NEW cm \in ConfigMap, EditConfigMap(cm), cm.there \/ cm = NoConfigMap
  PROVE  ConfigMapsOK' /\ AbsentInv' /\ HeldInv' /\ CustomStep
  <1>1. versions' \in Seq(ConfigMap) /\ versions' # <<>> /\ Stored' = cm
    BY AppendVersion DEF IInv, TypeOK, EditConfigMap
  <1>2. fresh' = FALSE /\ UNCHANGED <<phase, pgTLS, pgConfigMap>>
    BY DEF EditConfigMap
  <1>3. ConfigMapsOK'
    BY <1>1, <1>2 DEF IInv, TypeOK, ConfigMapsOK
  <1>4. HeldInv'
    BY <1>2 DEF IInv, HeldInv
  <1>5. AbsentInv'
    BY <1>1 DEF AbsentInv, NoConfigMap
  <1>6. edits' # edits
    BY DEF EditConfigMap, Edit, IInv, TypeOK
  <1> QED
    BY <1>3, <1>4, <1>5, <1>6 DEF CustomStep

\* Every step keeps the ConfigMaps well typed, what the worker holds right, and
\* what people wrote.
LEMMA NextConfigMaps == IInv /\ [Next]_vars => ConfigMapsOK' /\ AbsentInv' /\ HeldInv' /\ CustomStep
  <1> DEFINE Goal == ConfigMapsOK' /\ AbsentInv' /\ HeldInv' /\ CustomStep
  <1> SUFFICES ASSUME IInv, [Next]_vars PROVE Goal
    OBVIOUS
  <1>0. ConfigMapsOK /\ Stored \in ConfigMap
    BY StoredType DEF IInv, TypeOK
  <1>1. ASSUME UNCHANGED versions
        PROVE  versions' \in Seq(ConfigMap) /\ versions' # <<>> /\ Stored' = Stored
    BY <1>0, <1>1 DEF ConfigMapsOK, Stored
  <1>2. CASE StartReconcile
    <2>1. /\ pgTLS' \in Seq(Lines) /\ phase' = "read"
          /\ UNCHANGED <<versions, pgConfigMap, fresh>>
      BY <1>2, TLSConfigType DEF StartReconcile
    <2>2. ConfigMapsOK' /\ HeldInv'
      BY <1>0, <1>1, <2>1 DEF ConfigMapsOK, HeldInv
    <2> QED
      BY <1>1, <2>1, <2>2 DEF IInv, AbsentInv, CustomStep
  <1>3. CASE ReadConfigMap
    BY <1>3, ReadHeld
  <1>4. CASE WriteConfigMap
    BY <1>4, WriteHeld
  <1>5. CASE ApplyPostgres \/ ApplyComponents \/ ApplyPolicies
    <2>1. UNCHANGED versions /\ Forget /\ phase' \in {"idle", "components", "policies"}
      BY <1>5 DEF ApplyPostgres, ApplyComponents, ApplyPolicies, GotoRest, Requeue, Idle
    <2> QED
      BY <1>1, <2>1, KeepStored
  <1>6. CASE Deliver
    <2>1. UNCHANGED <<phase, pgTLS, pgConfigMap, fresh>>
      BY <1>6 DEF Deliver, worker
    <2> QED
      BY <1>0, <1>6, <2>1, DeliverVersion, KeepStored
  <1>7. ASSUME UNCHANGED <<versions, worker>> PROVE Goal
    BY <1>1, <1>7, KeepStored DEF worker
  <1>8. CASE Crash
    <2>1. versions' = <<Stored>> /\ Forget /\ phase' = "idle"
      BY <1>8 DEF Crash, Requeue, Idle
    <2>2. /\ versions' \in Seq(ConfigMap) /\ versions' # <<>>
          /\ versions'[Len(versions')] = Stored
      BY <1>0, <2>1
    <2>3. Stored' = Stored
      BY <2>2 DEF Stored
    <2> QED
      BY <2>1, <2>2, <2>3, KeepStored
  <1>9. ASSUME NEW c \in Customs, EditCustom(c) PROVE Goal
    BY <1>0, <1>9, EditHeld, EditedType DEF EditCustom, EditConfigMap
  <1>10. CASE EditConf
    BY <1>0, <1>10, EditHeld, EditedType DEF EditConf, EditConfigMap
  <1>11. CASE Unlabel
    BY <1>0, <1>11, EditHeld, EditedType DEF Unlabel, EditConfigMap
  <1>12. CASE DeleteConfigMap
    BY <1>12, EditHeld, ConfigMapTypes DEF DeleteConfigMap
  <1>13. CASE Resync
    BY <1>7, <1>13 DEF Resync
  <1>14. ASSUME NEW p, NEW cr, NEW db, NEW ns, EditSettings(p, cr, db, ns) PROVE Goal
    BY <1>7, <1>14 DEF EditSettings
  <1>15. CASE UNCHANGED vars
    BY <1>7, <1>15 DEF vars
  <1> QED
    BY <1>2, <1>3, <1>4, <1>5, <1>6, <1>8, <1>9, <1>10, <1>11, <1>12, <1>13, <1>14, <1>15
    DEF Next, Worker, Environment

-----------------------------------------------------------------------------
(* The rest of the state.                                                  *)

\* What the worker remembers and the queue are flags.
LEMMA NextFlags == FlagsOK /\ [Next]_vars => FlagsOK'
  <1> SUFFICES ASSUME FlagsOK, [Next]_vars PROVE FlagsOK'
    OBVIOUS
  <1>1. CASE StartReconcile
    BY <1>1, Zenon DEF FlagsOK, StartReconcile
  <1>2. CASE ReadConfigMap
    <2>1. fresh' \in BOOLEAN
      BY <1>2, Zenon DEF ReadConfigMap
    <2>2. UNCHANGED queued
      BY <1>2, Zenon DEF ReadConfigMap
    <2> QED
      BY <2>1, <2>2, Zenon DEF FlagsOK
  <1>3. CASE WriteConfigMap
    BY <1>3, Zenon DEF FlagsOK, WriteConfigMap, Goto, Requeue, Idle, Forget
  <1>4. CASE ApplyPostgres
    BY <1>4, Zenon DEF FlagsOK, ApplyPostgres, GotoRest, Requeue, Idle, Forget
  <1>5. CASE ApplyComponents
    BY <1>5, Zenon DEF FlagsOK, ApplyComponents, GotoRest, Requeue, Idle, Forget
  <1>6. CASE ApplyPolicies
    BY <1>6, Zenon DEF FlagsOK, ApplyPolicies, Requeue, Idle, Forget
  <1>7. CASE Deliver
    BY <1>7, Zenon DEF FlagsOK, Deliver, worker
  <1>8. CASE Resync
    BY <1>8, Zenon DEF FlagsOK, Resync, worker
  <1>9. CASE Crash
    BY <1>9, Zenon DEF FlagsOK, Crash, Requeue, Idle, Forget
  <1>10. ASSUME NEW cm, EditConfigMap(cm) PROVE FlagsOK'
    BY <1>10, Zenon DEF FlagsOK, EditConfigMap
  <1>11. ASSUME NEW p, NEW cr, NEW db, NEW ns, EditSettings(p, cr, db, ns) PROVE FlagsOK'
    BY <1>11, Zenon DEF FlagsOK, EditSettings, worker
  <1>12. CASE UNCHANGED vars
    BY <1>12, Zenon DEF FlagsOK, vars, worker
  <1> QED
    BY <1>1, <1>2, <1>3, <1>4, <1>5, <1>6, <1>7, <1>8, <1>9, <1>10, <1>11, <1>12
    DEF Next, Worker, Environment, EditCustom, EditConf, Unlabel, DeleteConfigMap

\* The settings are what people may set, in the cluster and in memory.
LEMMA NextSettings == SettingsOK /\ [Next]_vars => SettingsOK'
  <1> SUFFICES ASSUME SettingsOK, [Next]_vars PROVE SettingsOK'
    OBVIOUS
  <1>1. ASSUME UNCHANGED settings, instMem' \in {instMem, crMem, Unset} PROVE SettingsOK'
    BY <1>1 DEF SettingsOK, settings
  <1>2. CASE StartReconcile
    BY <1>1, <1>2 DEF StartReconcile
  <1>3. CASE ReadConfigMap
    BY <1>1, <1>3 DEF ReadConfigMap
  <1>4. CASE WriteConfigMap
    BY <1>1, <1>4 DEF WriteConfigMap, Goto, Requeue, Idle, Forget
  <1>5. CASE ApplyPostgres
    BY <1>1, <1>5 DEF ApplyPostgres, GotoRest, Requeue, Idle, Forget
  <1>6. CASE ApplyComponents
    BY <1>1, <1>6 DEF ApplyComponents, GotoRest, Requeue, Idle, Forget
  <1>7. CASE ApplyPolicies
    BY <1>1, <1>7 DEF ApplyPolicies, Requeue, Idle, Forget
  <1>8. CASE Deliver
    BY <1>1, <1>8 DEF Deliver, worker
  <1>9. CASE Resync
    BY <1>1, <1>9 DEF Resync, worker
  <1>10. CASE Crash
    BY <1>1, <1>10 DEF Crash, Requeue, Idle, Forget
  <1>11. ASSUME NEW cm, EditConfigMap(cm) PROVE SettingsOK'
    BY <1>1, <1>11 DEF EditConfigMap
  <1>12. ASSUME NEW p \in Profiles \cup {Unset}, NEW cr \in Memories \cup {Unset},
                NEW db \in Memories \cup {Unset}, NEW ns \in Namespaces \cup {Unset},
                EditSettings(p, cr, db, ns)
         PROVE  SettingsOK'
    BY <1>12 DEF SettingsOK, EditSettings, worker
  <1>13. CASE \E p \in Profiles : EditSettings(p, crMem, dbMem, mce)
    BY <1>12, <1>13 DEF SettingsOK
  <1>14. CASE \E v \in Memories : \/ EditSettings(profile, v, dbMem, mce)
                                  \/ EditSettings(profile, crMem, v, mce)
    BY <1>12, <1>14 DEF SettingsOK
  <1>15. CASE \E ns \in Namespaces : EditSettings(profile, crMem, dbMem, ns)
    BY <1>12, <1>15 DEF SettingsOK
  <1>16. CASE UNCHANGED vars
    BY <1>1, <1>16 DEF vars, worker
  <1> QED
    BY <1>2, <1>3, <1>4, <1>5, <1>6, <1>7, <1>8, <1>9, <1>10, <1>11, <1>13, <1>14, <1>15, <1>16
    DEF Next, Worker, Environment, EditCustom, EditConf, Unlabel, DeleteConfigMap

\* What the worker has built: only ApplyPostgres touches the Deployment of Postgres,
\* and its hash is that of the ConfigMap in memory.
LEMMA NextBuilt ==
  IInv /\ [Next]_vars
    => /\ BuiltOK'
       /\ fresh /\ deploy'.hash # deploy.hash => deploy'.hash = Stored.conf
  <1> DEFINE Goal == /\ BuiltOK'
                     /\ fresh /\ deploy'.hash # deploy.hash => deploy'.hash = Stored.conf
  <1> SUFFICES ASSUME IInv, [Next]_vars PROVE Goal
    OBVIOUS
  <1>0. BuiltOK
    BY DEF IInv, TypeOK
  <1>1. ASSUME UNCHANGED built PROVE Goal
    BY <1>0, <1>1 DEF BuiltOK, built
  <1>2. CASE ApplyPostgres
    <2>1. UNCHANGED <<env, policies>>
      BY <1>2 DEF ApplyPostgres
    <2>2. CASE UNCHANGED deploy
      BY <1>1, <2>1, <2>2 DEF built
    <2>3. ASSUME NEW ok \in BOOLEAN, deploy' = PGDeployment(ok) PROVE Goal
      <3>1. GetDBConfigFromSearchCR(instMem, dbMem, ok) \in Memory
        BY DBConfigType
      <3>2. pgConfigMap.conf \in Seq(Lines)
        BY DEF IInv, TypeOK, ConfigMapsOK, ConfigMap
      <3>3. /\ deploy' \in [there : BOOLEAN, hash : Seq(Lines), mem : Memory]
            /\ deploy'.hash = pgConfigMap.conf
        BY <2>3, <3>1, <3>2 DEF PGDeployment, postgresConfigHash
      <3>4. BuiltOK'
        BY <1>0, <2>1, <3>3 DEF BuiltOK
      <3>5. fresh => pgConfigMap.conf = Stored.conf
        BY <1>2 DEF IInv, HeldInv, ApplyPostgres
      <3> QED
        BY <3>3, <3>4, <3>5
    <2> QED
      BY <1>2, <2>2, <2>3 DEF ApplyPostgres
  <1>3. CASE ApplyComponents
    <2> DEFINE With(S, e) == [c \in ComponentSet |-> IF c \in S THEN e ELSE env[c]]
    <2>1. UNCHANGED <<deploy, policies>>
      BY <1>3 DEF ApplyComponents
    <2>2. \E S, ok : env' = With(S, getTLSEnvVars(profile, ok))
      BY <1>3, Zenon DEF ApplyComponents
    <2>3. PICK S, ok : env' = With(S, getTLSEnvVars(profile, ok))
      BY <2>2
    <2>4. getTLSEnvVars(profile, ok).ciphers \in Seq(Ciphers)
      BY TLSEnvType
    <2>5. DOMAIN env' = ComponentSet
      BY <2>3
    <2>6. ASSUME NEW c \in ComponentSet PROVE env'[c].ciphers \in Seq(Ciphers)
      BY <1>0, <2>3, <2>4 DEF BuiltOK
    <2> QED
      BY <1>0, <2>1, <2>5, <2>6 DEF BuiltOK
  <1>4. CASE ApplyPolicies
    <2>1. UNCHANGED <<deploy, env>>
      BY <1>4 DEF ApplyPolicies
    <2>2. DOMAIN policies' = Policies
      BY <1>4 DEF ApplyPolicies
    <2> QED
      BY <1>0, <2>1, <2>2 DEF BuiltOK
  <1>5. CASE StartReconcile \/ ReadConfigMap \/ WriteConfigMap
    BY <1>1, <1>5 DEF StartReconcile, ReadConfigMap, WriteConfigMap
  <1>6. CASE Deliver \/ Resync \/ Crash
    BY <1>1, <1>6 DEF Deliver, Resync, Crash
  <1>7. ASSUME NEW cm, EditConfigMap(cm) PROVE Goal
    BY <1>1, <1>7 DEF EditConfigMap
  <1>8. ASSUME NEW p, NEW cr, NEW db, NEW ns, EditSettings(p, cr, db, ns) PROVE Goal
    BY <1>1, <1>8 DEF EditSettings
  <1>9. CASE UNCHANGED vars
    BY <1>1, <1>9 DEF vars
  <1> QED
    BY <1>2, <1>3, <1>4, <1>5, <1>6, <1>7, <1>8, <1>9
    DEF Next, Worker, Environment, EditCustom, EditConf, Unlabel, DeleteConfigMap

\* The worker is somewhere in Reconcile.
Phases == {"idle", "read", "create", "update", "deploy", "components", "policies"}
LEMMA NextPhase == phase \in Phases /\ [Next]_vars => phase' \in Phases
  <1> SUFFICES ASSUME phase \in Phases, [Next]_vars PROVE phase' \in Phases
    OBVIOUS
  <1>1. CASE StartReconcile \/ ReadConfigMap \/ WriteConfigMap
    BY <1>1 DEF Phases, StartReconcile, ReadConfigMap, WriteConfigMap, Goto, Requeue, Idle
  <1>2. CASE ApplyPostgres \/ ApplyComponents \/ ApplyPolicies \/ Crash
    BY <1>2 DEF Phases, ApplyPostgres, ApplyComponents, ApplyPolicies, Crash,
                GotoRest, Requeue, Idle
  <1>3. CASE Deliver \/ Resync
    BY <1>3 DEF Deliver, Resync, worker
  <1>4. ASSUME NEW cm, EditConfigMap(cm) PROVE UNCHANGED phase
    BY <1>4 DEF EditConfigMap
  <1>5. ASSUME NEW p, NEW cr, NEW db, NEW ns, EditSettings(p, cr, db, ns) PROVE UNCHANGED phase
    BY <1>5 DEF EditSettings, worker
  <1>6. CASE UNCHANGED vars
    BY <1>6 DEF vars, worker
  <1> QED
    BY <1>1, <1>2, <1>3, <1>4, <1>5, <1>6
    DEF Next, Worker, Environment, EditCustom, EditConf, Unlabel, DeleteConfigMap

\* Failures and edits stay within the bound they share.
Bounded == faults \in Nat /\ edits \in Nat /\ faults + edits <= MaxEvents
LEMMA NextBounded == Bounded /\ [Next]_vars => Bounded'
  <1> SUFFICES ASSUME Bounded, [Next]_vars PROVE Bounded'
    OBVIOUS
  <1> USE BoundsAssumption
  <1>1. ASSUME UNCHANGED edits, Fault \/ NoFault PROVE Bounded'
    BY <1>1 DEF Bounded, Fault, NoFault
  <1>2. ASSUME UNCHANGED faults, Edit PROVE Bounded'
    BY <1>2 DEF Bounded, Edit
  <1>3. ASSUME NEW ok, Reads(ok) PROVE Fault \/ NoFault
    BY <1>3 DEF Reads
  <1>4. CASE StartReconcile
    BY <1>1, <1>3, <1>4 DEF StartReconcile
  <1>5. CASE ReadConfigMap
    BY <1>1, <1>3, <1>5 DEF ReadConfigMap
  <1>6. CASE WriteConfigMap
    BY <1>1, <1>6 DEF WriteConfigMap
  <1>7. CASE ApplyPostgres
    BY <1>1, <1>3, <1>7 DEF ApplyPostgres
  <1>8. CASE ApplyComponents
    BY <1>1, <1>3, <1>8 DEF ApplyComponents
  <1>9. CASE ApplyPolicies
    BY <1>1, <1>3, <1>9 DEF ApplyPolicies
  <1>10. CASE Deliver \/ Resync
    BY <1>1, <1>10 DEF Deliver, Resync, NoFault
  <1>11. CASE Crash
    BY <1>1, <1>11 DEF Crash
  <1>12. ASSUME NEW cm, EditConfigMap(cm) PROVE Bounded'
    BY <1>2, <1>12 DEF EditConfigMap
  <1>13. ASSUME NEW p, NEW cr, NEW db, NEW ns, EditSettings(p, cr, db, ns) PROVE Bounded'
    BY <1>2, <1>13 DEF EditSettings
  <1>14. CASE UNCHANGED vars
    BY <1>1, <1>14 DEF vars, NoFault
  <1> QED
    BY <1>4, <1>5, <1>6, <1>7, <1>8, <1>9, <1>10, <1>11, <1>12, <1>13, <1>14
    DEF Next, Worker, Environment, EditCustom, EditConf, Unlabel, DeleteConfigMap

-----------------------------------------------------------------------------
(* The inductive invariant and what follows from it.                       *)

LEMMA InitIInv == Init => IInv
  <1> SUFFICES ASSUME Init PROVE IInv
    OBVIOUS
  <1>1. FlagsOK
    <2>1. fresh = FALSE /\ queued = TRUE
      BY DEF Init
    <2> QED
      BY <2>1 DEF FlagsOK
  <1>2. SettingsOK
    BY DEF Init, SettingsOK
  <1>3. PICK cm \in {NoConfigMap, Legacy} : versions = <<cm>>
    BY DEF Init
  <1>4. cm \in ConfigMap /\ Stored = cm
    BY <1>3, ConfigMapTypes DEF Stored
  <1>5. ConfigMapsOK
    <2>1. pgConfigMap = NoConfigMap /\ pgTLS = <<>>
      BY DEF Init
    <2>2. versions \in Seq(ConfigMap) /\ versions # <<>>
      BY <1>3, <1>4
    <2> QED
      BY <2>1, <2>2, ConfigMapTypes DEF ConfigMapsOK
  <1>6. AbsentInv
    BY <1>3, <1>4 DEF AbsentInv, NoConfigMap, Legacy
  <1>7. BuiltOK
    <2>1. deploy = NoDeployment /\ env = [c \in ComponentSet |-> NoPods]
          /\ policies = [c \in Policies |-> NoPolicy]
      BY DEF Init
    <2>2. deploy \in [there : BOOLEAN, hash : Seq(Lines), mem : Memory]
      <3>1. <<>> \in Seq(Lines) /\ Unset \in Memory
        BY DEF Memory
      <3> QED
        BY <2>1, <3>1 DEF NoDeployment
    <2>3. NoPods.ciphers \in Seq(Ciphers)
      <3>1. NoPods.ciphers = <<>> /\ <<>> \in Seq(Ciphers)
        BY DEF NoPods
      <3> QED
        BY <3>1
    <2>4. \A c \in ComponentSet : env[c].ciphers \in Seq(Ciphers)
      <3>1. \A c \in ComponentSet : env[c] = NoPods
        BY <2>1, Zenon
      <3> QED
        BY <2>3, <3>1, Zenon
    <2> QED
      BY <2>1, <2>2, <2>4 DEF BuiltOK
  <1>8. phase = "idle" /\ faults = 0 /\ edits = 0
    BY DEF Init
  <1>9. HeldInv
    BY <1>8 DEF HeldInv
  <1> QED
    BY <1>1, <1>2, <1>5, <1>6, <1>7, <1>8, <1>9, BoundsAssumption DEF IInv, TypeOK

LEMMA NextIInv == IInv /\ [Next]_vars => IInv'
  <1> SUFFICES ASSUME IInv, [Next]_vars PROVE IInv'
    OBVIOUS
  <1>1. FlagsOK' /\ SettingsOK' /\ BuiltOK'
    BY NextFlags, NextSettings, NextBuilt DEF IInv, TypeOK
  <1>2. ConfigMapsOK' /\ AbsentInv' /\ HeldInv'
    BY NextConfigMaps
  <1>3. phase' \in Phases
    BY NextPhase DEF IInv, TypeOK, Phases
  <1>4. Bounded'
    BY NextBounded DEF IInv, TypeOK, Bounded
  <1> QED
    BY <1>1, <1>2, <1>3, <1>4 DEF IInv, TypeOK, Phases, Bounded

LEMMA Invariance == Spec => []IInv
  BY InitIInv, NextIInv, PTL DEF Spec

\* The state is well typed: every configuration the reconciler composes is a list of
\* its own lines and of what people wrote, WORK_MEM is one that workMemPattern
\* accepts, and the components get ciphers of the presets.
THEOREM TypeCorrect == Spec => []TypeOK
  <1>1. IInv => TypeOK
    BY DEF IInv
  <1> QED
    BY Invariance, <1>1, PTL

\* Whatever people write into custom-postgresql.conf, a reconcile that nobody
\* overtook leaves it there (createOrUpdateConfigMap, UpdatePostgresConfigmap).
THEOREM CustomAlwaysKept == Spec => CustomKept
  <1>1. IInv /\ [Next]_vars => [CustomStep]_vars
    BY NextConfigMaps
  <1>2. [CustomStep]_vars
          <=> [edits' = edits /\ fresh /\ Stored.custom # <<>>
                 => Stored'.custom = Stored.custom]_vars
    BY DEF CustomStep
  <1> QED
    BY Invariance, <1>1, <1>2, PTL DEF Spec, CustomKept

\* Postgres is restarted for a configuration that is stored, unless somebody else
\* wrote the ConfigMap in between (postgresConfigHash, ApplyPostgres).
THEOREM HashesStored == Spec => HashedIsStored
  <1>1. IInv /\ [Next]_vars
          => [fresh /\ deploy'.hash # deploy.hash => deploy'.hash = Stored.conf]_vars
    BY NextBuilt
  <1> QED
    BY Invariance, <1>1, PTL DEF Spec, HashedIsStored
=============================================================================

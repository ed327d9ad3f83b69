----------------------- MODULE FeatureToggles_proofs -----------------------
(***************************************************************************)
(* Proofs about FeatureToggles for every list of managed clusters and all  *)
(* bounds on failures and edits.                                           *)
(***************************************************************************)
EXTENDS FeatureToggles, Sublists_proofs, TLAPS

\* A cache that has caught up holds what is stored.
LagInv == ~lag => cached = stored

\* Has the worker not yet come to the status condition of f.
InGlobal == \/ pc = "global"
            \/ pc \in {"enable", "disable"} /\ feature = "global"
Early(f) ==
  \/ InGlobal
  \/ f # "global" /\ pc \in {"hubName", "fgrbac", "fgrbacStatus"}
  \/ f = "vm" /\ pc \in {"vm", "enable", "disable"}

\* The flags of f are set, and the search-api is asked to serve it, in memory too.
Up(f) == FlagsOf(f) \subseteq made /\ Env(f) \subseteq stored.env /\ Env(f) \subseteq inst.env

\* A condition in memory may differ from the stored one only after a failed write of
\* it; it is then truthful if it says that the feature is up, and a missing one ends
\* the reconcile.
CondInv ==
  fresh => \A f \in Features : inst.cond[f] # stored.cond[f]
              => /\ ~Early(f)
                 /\ inst.cond[f] = "none" => pc = "error"
                 /\ inst.cond[f] = "true" => Up(f)

\* The loops, as long as no call has failed: what a loop has to do is done, or it is
\* among the calls to come.
EnableInv == pc = "enable" /\ ~errs => FlagsOf(feature) \subseteq made \cup Elements(todo)
DisableInv ==
  pc = "disable" /\ ~errs
    => /\ made \cap FlagsOf(feature) \subseteq Elements(todo)
       /\ \/ ListCall \in Elements(todo)
          \/ made \cap HubObjects(feature, Names) \subseteq Elements(todo)

\* The environment of global search: memory and API server agree until the call that
\* changes it, and after it unless it failed.
Federated(v) == "FEATURE_FEDERATED_SEARCH" \in v.env
EnvInv ==
  /\ fresh /\ InGlobal /\ (pc = "global" \/ EnvCall \in Elements(todo)) => inst = stored
  /\ fresh /\ InGlobal /\ pc # "global" /\ EnvCall \notin Elements(todo) /\ ~errs
       => Federated(inst) = (pc = "enable") /\ Federated(stored) = (pc = "enable")

\* The environment of fine-grained RBAC, likewise.
FineGrained(v) == "FEATURE_FINE_GRAINED_RBAC" \in v.env
RBACInv ==
  /\ pc = "fgrbacStatus" /\ errs => inst.ann["fgrbac"]
  /\ fresh /\ (InGlobal \/ pc \in {"hubName", "fgrbac"}) => FineGrained(inst) = FineGrained(stored)
  /\ fresh /\ pc = "fgrbacStatus" /\ ~errs
       => FineGrained(inst) = inst.ann["fgrbac"] /\ FineGrained(stored) = inst.ann["fgrbac"]

IInv == TypeOK /\ LagInv /\ CondInv /\ EnableInv /\ DisableInv /\ EnvInv /\ RBACInv

-----------------------------------------------------------------------------
(* Facts about the loops.                                                  *)

Looping == {"global", "vm"}

\* Both features keep two objects per cluster.
LEMMA Kinds ==
  ASSUME NEW f \in Looping
  PROVE  /\ DOMAIN KindsOf(f) = {1, 2}
         /\ KindsOf(f)[1] \in {"search-global", "vm-actor"}
         /\ KindsOf(f)[2] \in {"search-global-config", "virtual-machine-actions"}
  <1>1. CASE f = "global"
    BY <1>1 DEF KindsOf
  <1>2. CASE f = "vm"
    BY <1>2 DEF KindsOf
  <1> QED
    BY <1>1, <1>2 DEF Looping

\* An object of a cluster is neither a call on the hub nor a flag.
LEMMA HubObjectsApart ==
  ASSUME NEW f \in Looping, NEW x \in HubObjects(f, Names)
  PROVE  x \notin Flags /\ x # EnvCall /\ x # ListCall
  <1>1. PICK c \in Names, k \in {1, 2} : x = <<c, KindsOf(f)[k]>>
    BY Kinds DEF HubObjects
  <1>2. x[2] \in {"search-global", "vm-actor", "search-global-config", "virtual-machine-actions"}
    BY <1>1, Kinds
  <1>3. \A y \in Flags \cup {EnvCall, ListCall} :
          y[2] \in {"globalSearchFeatureFlag", "VIRTUAL_MACHINE_ACTIONS",
                    "FEATURE_FEDERATED_SEARCH", "list"}
    BY DEF Flags, EnvCall, ListCall
  <1> QED
    BY <1>2, <1>3

\* The calls for the listed clusters are for objects of these clusters.
LEMMA ClusterCallsType ==
  ASSUME NEW f \in Looping, NEW s \in Seq(Names)
  PROVE  ClusterCalls(f, s) \in Seq(HubObjects(f, Names))
  <1>1. ASSUME NEW i \in 1 .. 2 * Len(s)
        PROVE  <<s[(i + 1) \div 2], KindsOf(f)[2 - (i % 2)]>> \in HubObjects(f, Names)
    <2>1. (i + 1) \div 2 \in 1 .. Len(s) /\ 2 - (i % 2) \in {1, 2}
      OBVIOUS
    <2>2. s[(i + 1) \div 2] \in Names
      BY <2>1
    <2> QED
      BY <2>1, <2>2, Kinds DEF HubObjects
  <1>2. 2 * Len(s) \in Nat
    OBVIOUS
  <1> QED
    BY <1>1, <1>2 DEF ClusterCalls

\* They leave out none when all clusters are listed.
LEMMA ClusterCallsAll ==
  ASSUME NEW f \in Looping
  PROVE  HubObjects(f, Names) \subseteq Elements(ClusterCalls(f, Clusters))
  <1>0. Clusters \in Seq(Names) /\ Len(Clusters) \in Nat /\ DOMAIN Clusters = 1 .. Len(Clusters)
    BY ClustersAssumption
  <1> SUFFICES ASSUME NEW x \in HubObjects(f, Names)
               PROVE  x \in Elements(ClusterCalls(f, Clusters))
    OBVIOUS
  <1>1. PICK c \in Names, k \in {1, 2} : x = <<c, KindsOf(f)[k]>>
    BY Kinds DEF HubObjects
  <1>2. PICK j \in 1 .. Len(Clusters) : c = Clusters[j]
    BY <1>0 DEF Names, Elements
  <1> DEFINE i == 2 * j - 2 + k
  <1>3. i \in 1 .. 2 * Len(Clusters) /\ (i + 1) \div 2 = j /\ 2 - (i % 2) = k
    <2>1. CASE k = 1
      BY <1>0, <2>1
    <2>2. CASE k = 2
      BY <1>0, <2>2
    <2> QED
      BY <2>1, <2>2
  <1> HIDE DEF i
  <1>4. ClusterCalls(f, Clusters)[i] = x /\ i \in DOMAIN ClusterCalls(f, Clusters)
    BY <1>1, <1>2, <1>3 DEF ClusterCalls
  <1> QED
    BY <1>4 DEF Elements

\* What is left of a loop: the calls on the hub one after the other, then clusters.
FlagA == <<"console-mce-config", "globalSearchFeatureFlag">>
FlagB == <<"console-config", "globalSearchFeatureFlag">>
FlagC == <<"console-mce-config", "VIRTUAL_MACHINE_ACTIONS">>
LeftOnHub(f) == IF f = "global"
                THEN {<<FlagA, FlagB, EnvCall, ListCall>>, <<FlagB, EnvCall, ListCall>>,
                      <<EnvCall, ListCall>>, <<ListCall>>}
                ELSE {<<FlagC, ListCall>>, <<ListCall>>}

LEMMA HubSuffixes ==
  ASSUME NEW f \in Looping
  PROVE  {SubSeq(HubCalls(f), n, Len(HubCalls(f))) : n \in DOMAIN HubCalls(f)} = LeftOnHub(f)
  <1>1. CASE f = "global"
    <2>1. HubCalls(f) = <<FlagA, FlagB, EnvCall, ListCall>>
      BY <1>1 DEF HubCalls, FlagA, FlagB
    <2>2. DOMAIN HubCalls(f) = {1, 2, 3, 4} /\ Len(HubCalls(f)) = 4
      BY <2>1
    <2>3. /\ SubSeq(HubCalls(f), 1, 4) = <<FlagA, FlagB, EnvCall, ListCall>>
          /\ SubSeq(HubCalls(f), 2, 4) = <<FlagB, EnvCall, ListCall>>
          /\ SubSeq(HubCalls(f), 3, 4) = <<EnvCall, ListCall>>
          /\ SubSeq(HubCalls(f), 4, 4) = <<ListCall>>
      BY <2>1, SuffixesOfFour
    <2> QED
      BY <1>1, <2>2, <2>3 DEF LeftOnHub
  <1>2. CASE f = "vm"
    <2>1. HubCalls(f) = <<FlagC, ListCall>>
      BY <1>2 DEF HubCalls, FlagC
    <2>2. DOMAIN HubCalls(f) = {1, 2} /\ Len(HubCalls(f)) = 2
      BY <2>1
    <2>3. /\ SubSeq(HubCalls(f), 1, 2) = <<FlagC, ListCall>>
          /\ SubSeq(HubCalls(f), 2, 2) = <<ListCall>>
      BY <2>1, SuffixesOfTwo
    <2> QED
      BY <1>2, <2>2, <2>3 DEF LeftOnHub
  <1> QED
    BY <1>1, <1>2 DEF Looping

LEMMA LeftCases ==
  ASSUME NEW f \in Looping
  PROVE  Left(f) = LeftOnHub(f) \cup Seq(HubObjects(f, Names))
  BY HubSuffixes DEF Left

\* The flags of the two features.
LEMMA FlagValues ==
  /\ FlagsOf("global") = {FlagA, FlagB} /\ FlagsOf("vm") = {FlagC} /\ FlagsOf("fgrbac") = {}
  /\ Flags = {FlagA, FlagB, FlagC}
  /\ EnvCall \notin Flags /\ ListCall \notin Flags /\ EnvCall # ListCall
  <1>1. Flags = {FlagA, FlagB, FlagC}
    BY DEF Flags, FlagA, FlagB, FlagC
  <1>2. /\ FlagA[2] # "VIRTUAL_MACHINE_ACTIONS" /\ FlagB[2] # "VIRTUAL_MACHINE_ACTIONS"
        /\ FlagC[2] = "VIRTUAL_MACHINE_ACTIONS"
    BY DEF FlagA, FlagB, FlagC
  <1>3. /\ FlagsOf("global") = {FlagA, FlagB} /\ FlagsOf("vm") = {FlagC}
        /\ FlagsOf("fgrbac") = {}
    BY <1>1, <1>2 DEF FlagsOf
  <1>4. EnvCall \notin Flags /\ ListCall \notin Flags /\ EnvCall # ListCall
    BY DEF Flags, EnvCall, ListCall
  <1> QED
    BY <1>1, <1>3, <1>4

\* What a feature sets up is not a call that changes no object, and fine-grained RBAC
\* sets up nothing outside the Search CR.
LEMMA SetupApart ==
  /\ \A f \in Looping : EnvCall \notin Setup(f) /\ ListCall \notin Setup(f)
  /\ FlagsOf("global") \cap Setup("vm") = {}
  /\ Setup("fgrbac") = {}
  <1>1. \A f \in Features : FlagsOf(f) \subseteq Flags
    BY DEF FlagsOf
  <1>2. ASSUME NEW f \in Looping PROVE EnvCall \notin Setup(f) /\ ListCall \notin Setup(f)
    BY <1>1, FlagValues, HubObjectsApart DEF Setup, Looping, Features
  <1>3. FlagsOf("global") \cap FlagsOf("vm") = {}
    BY DEF FlagsOf
  <1>4. FlagsOf("global") \cap HubObjects("vm", Names) = {}
    BY <1>1, HubObjectsApart DEF Looping, Features
  <1>5. Setup("fgrbac") = {}
    <2>1. KindsOf("fgrbac") = <<>>
      BY DEF KindsOf
    <2>2. HubObjects("fgrbac", Names) = {}
      BY <2>1 DEF HubObjects
    <2> QED
      BY <2>2, FlagValues DEF Setup
  <1> QED
    BY <1>2, <1>3, <1>4, <1>5 DEF Setup

\* The calls on the hub at the start of a loop.
LEMMA LoopStart ==
  ASSUME NEW f \in Looping
  PROVE  /\ HubCalls(f) \in Left(f) /\ FlagsOf(f) \subseteq Elements(HubCalls(f))
         /\ ListCall \in Elements(HubCalls(f))
         /\ f = "global" => EnvCall \in Elements(HubCalls(f))
  <1>1. CASE f = "global"
    <2>1. HubCalls(f) = <<FlagA, FlagB, EnvCall, ListCall>>
      BY <1>1 DEF HubCalls, FlagA, FlagB
    <2>2. Elements(HubCalls(f)) = {FlagA, FlagB, EnvCall, ListCall}
      BY <2>1 DEF Elements
    <2> QED
      BY <1>1, <2>1, <2>2, LeftCases, FlagValues DEF LeftOnHub
  <1>2. CASE f = "vm"
    <2>1. HubCalls(f) = <<FlagC, ListCall>>
      BY <1>2 DEF HubCalls, FlagC
    <2>2. Elements(HubCalls(f)) = {FlagC, ListCall}
      BY <2>1 DEF Elements
    <2> QED
      BY <1>2, <2>1, <2>2, LeftCases, FlagValues DEF LeftOnHub
  <1> QED
    BY <1>1, <1>2 DEF Looping

\* One call of a loop: what is left of it after it, and what each call is.
LEMMA LoopStep ==
  ASSUME NEW f \in Looping, NEW t \in Left(f), t # <<>>
  PROVE  /\ Tail(t) \in Left(f) /\ Elements(t) = {Head(t)} \cup Elements(Tail(t))
         /\ Head(t) \in Setup(f) \cup {EnvCall, ListCall}
         /\ Head(t) = ListCall => Tail(t) = <<>>
         /\ Head(t) = EnvCall => f = "global" /\ EnvCall \notin Elements(Tail(t))
  <1> DEFINE Goal == /\ Tail(t) \in Left(f) /\ Elements(t) = {Head(t)} \cup Elements(Tail(t))
                     /\ Head(t) \in Setup(f) \cup {EnvCall, ListCall}
                     /\ Head(t) = ListCall => Tail(t) = <<>>
                     /\ Head(t) = EnvCall => f = "global" /\ EnvCall \notin Elements(Tail(t))
             C == Setup(f) \cup {EnvCall, ListCall}
  <1>0. FlagsOf(f) \subseteq C /\ HubObjects(f, Names) \subseteq C
    BY DEF Setup
  <1>1. CASE t \in Seq(HubObjects(f, Names))
    <2>1. /\ Head(t) \in HubObjects(f, Names) /\ Tail(t) \in Seq(HubObjects(f, Names))
          /\ Elements(t) = {Head(t)} \cup Elements(Tail(t))
      BY <1>1, ElementsTail
    <2>2. Head(t) # EnvCall /\ Head(t) # ListCall
      BY <2>1, HubObjectsApart
    <2> QED
      BY <1>0, <2>1, <2>2, LeftCases
  <1>2. CASE t \in LeftOnHub(f) /\ f = "global"
    <2>1. FlagA \in C /\ FlagB \in C /\ EnvCall \in C /\ ListCall \in C
      BY <1>0, <1>2, FlagValues
    <2> HIDE DEF C
    <2>2. t \in Seq(C)
      <3>1. /\ <<FlagA, FlagB, EnvCall, ListCall>> \in Seq(C) /\ <<EnvCall, ListCall>> \in Seq(C)
            /\ <<FlagB, EnvCall, ListCall>> \in Seq(C) /\ <<ListCall>> \in Seq(C)
        BY <2>1
      <3> QED
        BY <1>2, <3>1 DEF LeftOnHub
    <2>3. Elements(t) = {Head(t)} \cup Elements(Tail(t)) /\ Head(t) \in C
      BY <2>2, ElementsTail
    <2>4. CASE t = <<FlagA, FlagB, EnvCall, ListCall>>
      <3>1. Head(t) = FlagA /\ Tail(t) = <<FlagB, EnvCall, ListCall>>
        BY <2>4
      <3> QED
        BY <1>2, <2>3, <3>1, FlagValues, LeftCases DEF LeftOnHub, C
    <2>5. CASE t = <<FlagB, EnvCall, ListCall>>
      <3>1. Head(t) = FlagB /\ Tail(t) = <<EnvCall, ListCall>>
        BY <2>5
      <3> QED
        BY <1>2, <2>3, <3>1, FlagValues, LeftCases DEF LeftOnHub, C
    <2>6. CASE t = <<EnvCall, ListCall>>
      <3>1. Head(t) = EnvCall /\ Tail(t) = <<ListCall>>
        BY <2>6
      <3>2. Elements(<<ListCall>>) = {ListCall}
        BY DEF Elements
      <3> QED
        BY <1>2, <2>3, <3>1, <3>2, FlagValues, LeftCases DEF LeftOnHub, C
    <2>7. CASE t = <<ListCall>>
      <3>1. Head(t) = ListCall /\ Tail(t) = <<>>
        BY <2>7
      <3>2. <<>> \in Seq(HubObjects(f, Names))
        OBVIOUS
      <3>3. Tail(t) \in Left(f)
        BY <3>1, <3>2, LeftCases
      <3> QED
        BY <2>3, <3>1, <3>3, FlagValues DEF C
    <2> QED
      BY <1>2, <2>4, <2>5, <2>6, <2>7 DEF LeftOnHub
  <1>3. CASE t \in LeftOnHub(f) /\ f # "global"
    <2>0. f = "vm"
      BY <1>3 DEF Looping
    <2>1. FlagC \in C /\ ListCall \in C
      BY <1>0, <2>0, FlagValues
    <2> HIDE DEF C
    <2>2. t \in Seq(C)
      <3>1. <<FlagC, ListCall>> \in Seq(C) /\ <<ListCall>> \in Seq(C)
        BY <2>1
      <3> QED
        BY <1>3, <3>1 DEF LeftOnHub
    <2>3. Elements(t) = {Head(t)} \cup Elements(Tail(t)) /\ Head(t) \in C
      BY <2>2, ElementsTail
    <2>4. CASE t = <<FlagC, ListCall>>
      <3>1. Head(t) = FlagC /\ Tail(t) = <<ListCall>>
        BY <2>4
      <3> QED
        BY <1>3, <2>3, <3>1, FlagValues, LeftCases DEF LeftOnHub, C
    <2>5. CASE t = <<ListCall>>
      <3>1. Head(t) = ListCall /\ Tail(t) = <<>>
        BY <2>5
      <3>2. <<>> \in Seq(HubObjects(f, Names))
        OBVIOUS
      <3>3. Tail(t) \in Left(f)
        BY <3>1, <3>2, LeftCases
      <3> QED
        BY <2>3, <3>1, <3>3, FlagValues DEF C
    <2> QED
      BY <1>3, <2>4, <2>5 DEF LeftOnHub
  <1> QED
    BY <1>1, <1>2, <1>3, LeftCases

-----------------------------------------------------------------------------
(* The writes of the Search CR.                                            *)

\* Setting or removing an environment variable touches nothing else.
LEMMA EnvVarValue ==
  ASSUME NEW v \in Search, NEW e \in Envs, NEW on
  PROVE  /\ searchAPIEnvVar(v, e, on) \in Search
         /\ searchAPIEnvVar(v, e, on).ann = v.ann /\ searchAPIEnvVar(v, e, on).cond = v.cond
         /\ e \in searchAPIEnvVar(v, e, on).env <=> on
         /\ \A x \in Envs \ {e} : x \in searchAPIEnvVar(v, e, on).env <=> x \in v.env
  <1> DEFINE new == IF on THEN v.env \cup {e} ELSE v.env \ {e}
  <1>1. v.env \in SUBSET Envs
    BY DEF Search
  <1>2. new \in SUBSET Envs /\ (e \in new <=> on)
        /\ \A x \in Envs \ {e} : x \in new <=> x \in v.env
    BY <1>1
  <1>3. searchAPIEnvVar(v, e, on) = [v EXCEPT !.env = new]
    BY DEF searchAPIEnvVar
  <1> HIDE DEF new
  <1> QED
    BY <1>2, <1>3 DEF Search

\* So does setting or removing a condition.
LEMMA ConditionValue ==
  ASSUME NEW v \in Search, NEW g \in Features, NEW c \in Conditions
  PROVE  /\ SetCondition(v, g, c) \in Search
         /\ SetCondition(v, g, c).ann = v.ann /\ SetCondition(v, g, c).env = v.env
         /\ SetCondition(v, g, c).cond[g] = c
         /\ \A f \in Features \ {g} : SetCondition(v, g, c).cond[f] = v.cond[f]
  <1>1. v.cond \in [Features -> Conditions]
    BY DEF Search
  <1>2. SetCondition(v, g, c) = [v EXCEPT !.cond = [v.cond EXCEPT ![g] = c]]
    BY DEF SetCondition, Search
  <1>3. [v.cond EXCEPT ![g] = c] \in [Features -> Conditions]
    BY <1>1
  <1> DEFINE new == [v.cond EXCEPT ![g] = c]
  <1>4. new[g] = c /\ \A f \in Features \ {g} : new[f] = v.cond[f]
    BY <1>1
  <1> HIDE DEF new
  <1> QED
    BY <1>2, <1>3, <1>4 DEF Search, new

\* The ways a write of the environment may go (updateSearchApiDeployment).
LEMMA EnvWrite ==
  ASSUME SearchOK, LagInv, NEW e \in Envs, NEW on, NEW ok \in BOOLEAN,
         updateSearchApiDeployment(e, on, ok)
  PROVE  /\ SearchOK' /\ LagInv' /\ fresh' = fresh
         /\ stored'.cond = stored.cond /\ inst'.ann = inst.ann
         /\ \A f \in Features : inst'.cond[f] \in {inst.cond[f], stored.cond[f]}
         /\ \A x \in Envs \ {e} : x \in inst'.env <=> x \in inst.env
         /\ ok => (e \in inst'.env <=> on)
         /\ stored'.env \in {stored.env, inst'.env}
         /\ ok => UNCHANGED <<inst, stored>> \/ stored'.env = inst'.env
  <1> DEFINE v == searchAPIEnvVar(inst, e, on)
             Goal == /\ SearchOK' /\ LagInv' /\ fresh' = fresh
                     /\ stored'.cond = stored.cond /\ inst'.ann = inst.ann
                     /\ \A f \in Features : inst'.cond[f] \in {inst.cond[f], stored.cond[f]}
                     /\ \A x \in Envs \ {e} : x \in inst'.env <=> x \in inst.env
                     /\ ok => (e \in inst'.env <=> on)
                     /\ stored'.env \in {stored.env, inst'.env}
                     /\ ok => UNCHANGED <<inst, stored>> \/ stored'.env = inst'.env
  <1>1. inst \in Search /\ stored \in Search /\ cached \in Search
    BY DEF SearchOK
  <1>2. /\ v \in Search /\ v.ann = inst.ann /\ v.cond = inst.cond
        /\ e \in v.env <=> on
        /\ \A x \in Envs \ {e} : x \in v.env <=> x \in inst.env
    BY <1>1, EnvVarValue
  <1>3. updateSearchApiDeployment(e, on, ok)
          => \/ v = inst /\ ok /\ KeepCR /\ UNCHANGED held
             \/ ok /\ WriteSpec(v)
             \/ ~ok /\ WriteFails(v)
    BY DEF updateSearchApiDeployment
  <1> HIDE DEF v
  <1>4. CASE v = inst /\ ok /\ KeepCR /\ UNCHANGED held
    BY <1>1, <1>2, <1>4 DEF KeepCR, held, cr, SearchOK, LagInv
  <1>5. CASE ok /\ WriteSpec(v)
    <2>1. PICK c \in {v.cond, stored.cond} : inst' = [v EXCEPT !.cond = c]
      BY <1>5 DEF WriteSpec, Decoded
    <2>2. stored' = [stored EXCEPT !.env = v.env] /\ UNCHANGED <<cached, fresh>> /\ lag'
      BY <1>5 DEF WriteSpec
    <2>3. /\ inst' \in Search /\ inst'.ann = v.ann /\ inst'.env = v.env /\ inst'.cond = c
      BY <1>1, <1>2, <2>1 DEF Search
    <2>4. stored' \in Search /\ stored'.env = v.env /\ stored'.cond = stored.cond
      BY <1>1, <1>2, <2>2 DEF Search
    <2> QED
      BY <1>1, <1>2, <1>5, <2>1, <2>2, <2>3, <2>4 DEF SearchOK, LagInv
  <1>6. CASE ~ok /\ WriteFails(v)
    BY <1>1, <1>2, <1>6 DEF WriteFails, KeepCR, cr, SearchOK, LagInv
  <1> QED
    BY <1>3, <1>4, <1>5, <1>6

\* The ways a write of a condition may go (updateStatusCondition,
\* removeStatusCondition, updateGlobalSearchStatus).
StatusWritten(g, c) ==
  LET v == SetCondition(inst, g, c)
  IN \/ v = inst /\ KeepCR /\ UNCHANGED held
     \/ WriteStatus(v)
     \/ WriteFails(v)
LEMMA StatusWrite ==
  ASSUME SearchOK, LagInv, NEW g \in Features, NEW c \in Conditions, StatusWritten(g, c)
  PROVE  /\ SearchOK' /\ LagInv' /\ fresh' = fresh
         /\ stored'.env = stored.env /\ inst'.ann = inst.ann
         /\ inst'.env \in {inst.env, stored.env}
         /\ inst'.cond[g] = c
         /\ \A f \in Features \ {g} : inst'.cond[f] = inst.cond[f]
         /\ \/ stored'.cond = stored.cond
            \/ fresh /\ stored'.cond = inst'.cond
  <1> DEFINE v == SetCondition(inst, g, c)
  <1>1. inst \in Search /\ stored \in Search /\ cached \in Search
    BY DEF SearchOK
  <1>2. /\ v \in Search /\ v.ann = inst.ann /\ v.env = inst.env /\ v.cond[g] = c
        /\ \A f \in Features \ {g} : v.cond[f] = inst.cond[f]
    BY <1>1, ConditionValue
  <1>3. \/ v = inst /\ KeepCR /\ UNCHANGED held
        \/ WriteStatus(v)
        \/ WriteFails(v)
    BY DEF StatusWritten
  <1> HIDE DEF v
  <1>4. CASE v = inst /\ KeepCR /\ UNCHANGED held
    BY <1>1, <1>2, <1>4 DEF KeepCR, held, cr, SearchOK, LagInv
  <1>5. CASE WriteStatus(v)
    <2>1. PICK e \in {v.env, stored.env} : inst' = [v EXCEPT !.env = e]
      BY <1>5 DEF WriteStatus, Decoded
    <2>2. stored' = [stored EXCEPT !.cond = v.cond] /\ UNCHANGED <<cached, fresh>> /\ lag' /\ fresh
      BY <1>5 DEF WriteStatus
    <2>3. inst' \in Search /\ inst'.ann = v.ann /\ inst'.env = e /\ inst'.cond = v.cond
      BY <1>1, <1>2, <2>1 DEF Search
    <2>4. stored' \in Search /\ stored'.env = stored.env /\ stored'.cond = v.cond
      BY <1>1, <1>2, <2>2 DEF Search
    <2> QED
      BY <1>1, <1>2, <2>1, <2>2, <2>3, <2>4 DEF SearchOK, LagInv
  <1>6. CASE WriteFails(v)
    BY <1>1, <1>2, <1>6 DEF WriteFails, KeepCR, cr, SearchOK, LagInv
  <1> QED
    BY <1>3, <1>4, <1>5, <1>6

-----------------------------------------------------------------------------
(* What the Search CR says, step by step.                                  *)

\* The steps that ReadyIsTrue and ForgetsOnlyWhenClean allow.
Ready == \A f \in Features : stored.cond[f] # "true" /\ stored'.cond[f] = "true"
            => FlagsOf(f) \subseteq made' /\ Env(f) \subseteq stored'.env
Forgets == \A f \in Features : stored.cond[f] # "none" /\ stored'.cond[f] = "none"
            => Clean(f)'

\* What is known of the Search CR and of the loops; Told adds what a step says.
SearchInv == SearchOK /\ LagInv /\ CondInv /\ EnableInv /\ DisableInv /\ EnvInv /\ RBACInv
Told == SearchInv' /\ Ready /\ Forgets

\* Steps after which the worker holds no version that it could write.
LEMMA StaleStep ==
  ASSUME SearchOK', LagInv', fresh' = FALSE, stored'.cond = stored.cond,
         EnableInv', DisableInv', pc' = "fgrbacStatus" /\ errs' => inst'.ann["fgrbac"]
  PROVE  Told
  BY DEF Told, SearchInv, CondInv, EnvInv, RBACInv, Ready, Forgets

\* Steps that leave the Search CR alone and start no new loop.
LEMMA QuietStep ==
  ASSUME IInv, UNCHANGED <<stored, cached, lag, inst, fresh, made>>,
         \A f \in Features : Early(f)' => Early(f), pc # "error", pc' \notin {"enable", "disable"},
         pc' \in {"hubName", "fgrbac"} => InGlobal \/ pc = "hubName",
         pc' \notin {"global", "fgrbacStatus"}
  PROVE  Told
  <1>1. SearchOK' /\ LagInv' /\ EnableInv' /\ DisableInv'
    BY DEF IInv, TypeOK, SearchOK, LagInv, EnableInv, DisableInv
  <1>2. CondInv'
    BY DEF IInv, CondInv, Up
  <1>3. EnvInv' /\ RBACInv'
    BY DEF IInv, EnvInv, RBACInv, InGlobal, FineGrained
  <1> QED
    BY <1>1, <1>2, <1>3 DEF Told, SearchInv, Ready, Forgets

\* Steps of others that do not touch the Search CR.
LEMMA OtherStep ==
  ASSUME IInv, UNCHANGED <<stored, inst, fresh, made, pc, feature, todo, errs>>,
         SearchOK', LagInv'
  PROVE  Told
  <1>1. EnableInv' /\ DisableInv'
    BY DEF IInv, EnableInv, DisableInv
  <1>2. CondInv'
    BY DEF IInv, CondInv, Up, Early, InGlobal
  <1>3. EnvInv' /\ RBACInv'
    BY DEF IInv, EnvInv, RBACInv, InGlobal, FineGrained, Federated
  <1> QED
    BY <1>1, <1>2, <1>3 DEF Told, SearchInv, Ready, Forgets

\* A reconcile begins with what is cached.
LEMMA StartTold == ASSUME IInv, StartReconcile PROVE Told
  <1>1. SearchOK' /\ LagInv' /\ UNCHANGED <<stored, made>> /\ pc' = "global"
        /\ (fresh' => inst' = stored')
    BY DEF IInv, TypeOK, SearchOK, LagInv, StartReconcile, cr, outside
  <1>2. EnableInv' /\ DisableInv'
    BY <1>1 DEF EnableInv, DisableInv
  <1>3. CondInv' /\ EnvInv' /\ RBACInv'
    BY <1>1 DEF CondInv, EnvInv, RBACInv, FineGrained
  <1> QED
    BY <1>1, <1>2, <1>3 DEF Told, SearchInv, Ready, Forgets

\* Up to the loop of a feature.
LEMMA FeatureTold ==
  ASSUME IInv, NEW f \in Looping, reconcileFeature(f)
  PROVE  Told
  <1>0. /\ UNCHANGED <<stored, cached, lag, inst, fresh, made>> /\ pc = f
        /\ f \in {"global", "vm"}
    BY DEF reconcileFeature, cr, held, outside, Looping
  <1>1. ASSUME NEW p \in {"enable", "disable"}, BeginLoop(p, f) PROVE Told
    <2>1. pc' = p /\ feature' = f /\ todo' = HubCalls(f) /\ errs' = FALSE
      BY <1>1 DEF BeginLoop
    <2>2. /\ FlagsOf(f) \subseteq Elements(todo') /\ ListCall \in Elements(todo')
          /\ f = "global" => EnvCall \in Elements(todo')
      BY <2>1, LoopStart
    <2>3. EnableInv' /\ DisableInv'
      BY <2>1, <2>2 DEF EnableInv, DisableInv
    <2>4. InGlobal' <=> f = "global"
      BY <1>0, <2>1 DEF InGlobal
    <2>5. EnvInv' /\ RBACInv'
      BY <1>0, <2>1, <2>2, <2>4 DEF IInv, EnvInv, RBACInv, InGlobal, FineGrained
    <2>6. \A g \in Features : Early(g)' => Early(g)
      BY <1>0, <2>1, <2>4 DEF Early, InGlobal
    <2>7. CondInv'
      BY <1>0, <2>6 DEF IInv, CondInv, Up
    <2>8. SearchOK' /\ LagInv'
      BY <1>0 DEF IInv, TypeOK, SearchOK, LagInv
    <2> QED
      BY <1>0, <2>3, <2>5, <2>7, <2>8 DEF Told, SearchInv, Ready, Forgets
  <1>2. ASSUME NEW p \in {"error", After(f)}, Goto(p) PROVE Told
    <2>1. pc' = p /\ p \in {"error", "return", "hubName"} /\ (p = "hubName" => f = "global")
      BY <1>0, <1>2 DEF Goto, After
    <2>2. \A g \in Features : Early(g)' => Early(g)
      BY <1>0, <2>1 DEF Early, InGlobal
    <2> QED
      BY <1>0, <2>1, <2>2, QuietStep DEF InGlobal
  <1> QED
    BY <1>1, <1>2 DEF reconcileFeature

\* A call of a loop that sets up or removes something outside the Search CR.
LEMMA OutsideTold == ASSUME IInv, CallOutside PROVE Told
  <1> DEFINE x == Head(todo)
  <1>0. /\ UNCHANGED <<stored, cached, lag, inst, fresh, pc, feature>>
        /\ pc \in {"enable", "disable"} /\ feature \in Looping
        /\ todo \in Left(feature) /\ todo # <<>> /\ todo' = Tail(todo)
        /\ x # EnvCall /\ x # ListCall
    BY DEF IInv, TypeOK, LoopOK, Looping, CallOutside, cr, held
  <1>1. x \in Setup(feature) /\ Elements(todo) = {x} \cup Elements(todo')
    BY <1>0, LoopStep
  <1>2. \/ made' = (IF pc = "enable" THEN made \cup {x} ELSE made \ {x}) /\ errs' = errs
        \/ made' = made /\ errs' = TRUE
    BY DEF CallOutside
  <1> HIDE DEF x
  <1>3. EnableInv' /\ DisableInv'
    BY <1>0, <1>1, <1>2 DEF IInv, EnableInv, DisableInv
  <1>4. EnvCall \in Elements(todo') <=> EnvCall \in Elements(todo)
    BY <1>0, <1>1
  <1>5. EnvInv' /\ RBACInv'
    BY <1>0, <1>2, <1>4 DEF IInv, EnvInv, RBACInv, InGlobal, FineGrained, Federated
  <1>6. ASSUME NEW f \in Features, ~Early(f), FlagsOf(f) \subseteq made
        PROVE  FlagsOf(f) \subseteq made'
    <2>1. feature = "vm" /\ f \in {"global", "fgrbac"}
      BY <1>0, <1>6 DEF Early, InGlobal, Looping, Features
    <2>2. x \notin FlagsOf(f)
      BY <1>1, <2>1, SetupApart, FlagValues
    <2> QED
      BY <1>2, <1>6, <2>2
  <1>7. CondInv'
    <2>1. \A f \in Features : Early(f)' <=> Early(f)
      BY <1>0 DEF Early, InGlobal
    <2> QED
      BY <1>0, <1>6, <2>1 DEF IInv, CondInv, Up
  <1>8. SearchOK' /\ LagInv'
    BY <1>0 DEF IInv, TypeOK, SearchOK, LagInv
  <1> QED
    BY <1>0, <1>3, <1>5, <1>7, <1>8 DEF Told, SearchInv, Ready, Forgets

\* The call that changes the environment of global search.
LEMMA EnvTold == ASSUME IInv, CallEnv PROVE Told
  <1>0. /\ UNCHANGED <<made, pc, feature>>
        /\ pc \in {"enable", "disable"} /\ feature \in Looping
        /\ todo \in Left(feature) /\ todo # <<>> /\ todo' = Tail(todo) /\ Head(todo) = EnvCall
        /\ SearchOK /\ LagInv
    BY DEF IInv, TypeOK, LoopOK, Looping, CallEnv, outside
  <1>1. /\ feature = "global" /\ EnvCall \notin Elements(todo')
        /\ Elements(todo) = {EnvCall} \cup Elements(todo')
    BY <1>0, LoopStep
  <1>2. EnvCall[2] = "FEATURE_FEDERATED_SEARCH" /\ "FEATURE_FEDERATED_SEARCH" \in Envs
        /\ "FEATURE_FINE_GRAINED_RBAC" \in Envs \ {"FEATURE_FEDERATED_SEARCH"}
    BY DEF EnvCall, Envs
  <1>3. PICK ok \in BOOLEAN :
          /\ updateSearchApiDeployment("FEATURE_FEDERATED_SEARCH", pc = "enable", ok)
          /\ errs' = (errs \/ ~ok)
    BY <1>0, <1>2 DEF CallEnv
  <1>4. /\ SearchOK' /\ LagInv' /\ fresh' = fresh
        /\ stored'.cond = stored.cond /\ inst'.ann = inst.ann
        /\ \A f \in Features : inst'.cond[f] \in {inst.cond[f], stored.cond[f]}
        /\ \A x \in Envs \ {"FEATURE_FEDERATED_SEARCH"} : x \in inst'.env <=> x \in inst.env
        /\ ok => ("FEATURE_FEDERATED_SEARCH" \in inst'.env <=> pc = "enable")
        /\ stored'.env \in {stored.env, inst'.env}
        /\ ok => UNCHANGED <<inst, stored>> \/ stored'.env = inst'.env
    BY <1>0, <1>2, <1>3, EnvWrite
  <1>5. fresh => inst = stored
    BY <1>0, <1>1 DEF IInv, EnvInv, InGlobal
  <1>6. ~errs' => ok
    BY <1>3
  <1>7. EnvInv'
    <2>1. fresh' /\ ~errs' => /\ Federated(inst') <=> pc = "enable"
                              /\ Federated(stored') <=> pc = "enable"
      BY <1>4, <1>5, <1>6 DEF Federated
    <2>2. Federated(inst)' <=> Federated(inst')
      BY DEF Federated
    <2>3. Federated(stored)' <=> Federated(stored')
      BY DEF Federated
    <2> QED
      BY <1>0, <1>1, <2>1, <2>2, <2>3 DEF EnvInv, Federated
  <1>8. RBACInv'
    <2>1. fresh => ("FEATURE_FINE_GRAINED_RBAC" \in inst'.env
                      <=> "FEATURE_FINE_GRAINED_RBAC" \in stored'.env)
      BY <1>2, <1>4, <1>5
    <2> QED
      BY <1>0, <1>4, <2>1 DEF RBACInv, FineGrained
  <1>9. CondInv'
    BY <1>4, <1>5 DEF CondInv
  <1>10. EnableInv' /\ DisableInv'
    <2>1. EnvCall \notin FlagsOf(feature) /\ EnvCall \notin HubObjects(feature, Names)
      BY <1>0, SetupApart DEF Setup
    <2>2. EnvCall # ListCall /\ (~errs' => ~errs)
      BY <1>3, FlagValues
    <2> QED
      BY <1>0, <1>1, <2>1, <2>2 DEF IInv, EnableInv, DisableInv
  <1> QED
    BY <1>0, <1>4, <1>7, <1>8, <1>9, <1>10 DEF Told, SearchInv, Ready, Forgets

\* The clusters a List returns.
LEMMA ListedType ==
  /\ Listed \in Seq(Names)
  /\ pc = "disable" => Listed = Clusters
  BY ClustersAssumption, KeptType DEF Listed

\* The List: before it the hub is done, after it the clusters are to come.
LEMMA ListTold == ASSUME IInv, CallList PROVE Told
  <1>0. /\ UNCHANGED <<stored, cached, lag, inst, fresh, made, feature>>
        /\ pc \in {"enable", "disable"} /\ feature \in Looping
        /\ todo \in Left(feature) /\ todo # <<>> /\ Head(todo) = ListCall
    BY DEF IInv, TypeOK, LoopOK, Looping, CallList, cr, held, outside, Goto, loop
  <1>1. Elements(todo) = {ListCall}
    <2>1. Tail(todo) = <<>> /\ Elements(todo) = {ListCall} \cup Elements(Tail(todo))
      BY <1>0, LoopStep
    <2>2. Elements(<<>>) = {}
      BY DEF Elements
    <2> QED
      BY <2>1, <2>2
  <1>2. FlagsOf(feature) \cap Elements(todo) = {} /\ EnvCall \notin Elements(todo)
    BY <1>0, <1>1, SetupApart, FlagValues DEF Setup
  <1>3. CASE todo' = ClusterCalls(feature, Listed) /\ UNCHANGED <<pc, errs>>
    <2>1. todo' \in Seq(HubObjects(feature, Names))
      BY <1>0, <1>3, ListedType, ClusterCallsType
    <2>2. Elements(todo') \subseteq HubObjects(feature, Names)
      <3>1. \A i \in DOMAIN todo' : todo'[i] \in HubObjects(feature, Names)
        BY <2>1
      <3> QED
        BY <3>1 DEF Elements
    <2>3. EnvCall \notin Elements(todo')
      BY <1>0, <2>2, HubObjectsApart
    <2>4. EnableInv'
      BY <1>0, <1>2, <1>3 DEF IInv, EnableInv
    <2>5. DisableInv'
      <3>1. pc = "disable" => HubObjects(feature, Names) \subseteq Elements(todo')
        BY <1>0, <1>3, ListedType, ClusterCallsAll
      <3> QED
        BY <1>0, <1>2, <1>3, <3>1 DEF IInv, DisableInv
    <2>6. EnvInv' /\ RBACInv'
      BY <1>0, <1>2, <1>3, <2>3 DEF IInv, EnvInv, RBACInv, InGlobal, FineGrained, Federated
    <2>7. CondInv'
      BY <1>0, <1>3 DEF IInv, CondInv, Up, Early, InGlobal
    <2>8. SearchOK' /\ LagInv'
      BY <1>0 DEF IInv, TypeOK, SearchOK, LagInv
    <2> QED
      BY <1>0, <2>4, <2>5, <2>6, <2>7, <2>8 DEF Told, SearchInv, Ready, Forgets
  <1>4. CASE pc = "enable" /\ todo' = <<>> /\ errs' = TRUE /\ UNCHANGED pc
    <2>1. Elements(todo') = {}
      BY <1>4 DEF Elements
    <2>2. EnableInv' /\ DisableInv'
      BY <1>4 DEF EnableInv, DisableInv
    <2>3. EnvInv' /\ RBACInv'
      BY <1>0, <1>4, <2>1 DEF IInv, EnvInv, RBACInv, InGlobal, FineGrained
    <2>4. CondInv'
      BY <1>0, <1>4 DEF IInv, CondInv, Up, Early, InGlobal
    <2>5. SearchOK' /\ LagInv'
      BY <1>0 DEF IInv, TypeOK, SearchOK, LagInv
    <2> QED
      BY <1>0, <2>2, <2>3, <2>4, <2>5 DEF Told, SearchInv, Ready, Forgets
  <1>5. CASE pc = "disable" /\ Goto("error")
    <2>1. pc' = "error"
      BY <1>5 DEF Goto
    <2>2. \A f \in Features : Early(f)' => Early(f)
      BY <2>1 DEF Early, InGlobal
    <2> QED
      BY <1>0, <2>1, <2>2, QuietStep
  <1> QED
    BY <1>3, <1>4, <1>5 DEF CallList

\* A write of the condition of g, when it tells the truth and the worker goes on.
LEMMA StatusTold ==
  ASSUME IInv, NEW g \in Features, NEW c \in Conditions, StatusWritten(g, c),
         UNCHANGED made, pc # "error",
         c = "true" /\ fresh => Up(g),
         c = "none" /\ fresh => Clean(g),
         c = "none" => \/ pc' = "error"
                       \/ UNCHANGED <<inst, stored>>
                       \/ stored'.cond = inst'.cond,
         ~Early(g)', \A f \in Features : Early(f)' => Early(f),
         pc' \notin {"enable", "disable", "global", "fgrbacStatus"},
         pc' \in {"hubName", "fgrbac"} => InGlobal
  PROVE  Told
  <1>0. SearchOK /\ LagInv /\ CondInv /\ RBACInv
    BY DEF IInv, TypeOK
  <1>1. /\ SearchOK' /\ LagInv' /\ fresh' = fresh
        /\ stored'.env = stored.env /\ inst'.ann = inst.ann
        /\ inst'.env \in {inst.env, stored.env}
        /\ inst'.cond[g] = c
        /\ \A f \in Features \ {g} : inst'.cond[f] = inst.cond[f]
        /\ \/ stored'.cond = stored.cond
           \/ fresh /\ stored'.cond = inst'.cond
    BY <1>0, StatusWrite
  <1>2. EnableInv' /\ DisableInv' /\ EnvInv'
    BY DEF EnableInv, DisableInv, EnvInv, InGlobal
  <1>3. RBACInv'
    BY <1>0, <1>1 DEF RBACInv, InGlobal, FineGrained
  <1>4. \A f \in Features : Up(f) => Up(f)'
    BY <1>1 DEF Up
  <1>5. ASSUME NEW f \in Features, fresh, inst'.cond[f] # stored.cond[f], inst'.cond[f] = "true"
        PROVE  Up(f)
    <2>1. CASE f = g
      BY <1>1, <1>5, <2>1
    <2>2. CASE f # g
      BY <1>0, <1>1, <1>5, <2>2 DEF CondInv
    <2> QED
      BY <2>1, <2>2
  <1>6. CondInv'
    <2> SUFFICES ASSUME fresh', NEW f \in Features, inst'.cond[f] # stored'.cond[f]
                 PROVE  /\ ~Early(f)' /\ (inst'.cond[f] = "none" => pc' = "error")
                        /\ inst'.cond[f] = "true" => Up(f)'
      BY DEF CondInv
    <2>1. stored'.cond = stored.cond /\ fresh
      BY <1>1
    <2>2. CASE f = g
      <3>1. inst'.cond[f] = "none" => pc' = "error"
        BY <1>0, <1>1, <2>1, <2>2 DEF CondInv
      <3> QED
        BY <1>4, <1>5, <2>1, <2>2, <3>1
    <2>3. CASE f # g
      <3>1. inst.cond[f] # stored.cond[f] /\ inst'.cond[f] = inst.cond[f]
        BY <1>1, <2>1, <2>3
      <3>2. ~Early(f) /\ inst.cond[f] # "none"
        BY <1>0, <2>1, <3>1 DEF CondInv
      <3> QED
        BY <1>4, <1>5, <2>1, <3>1, <3>2
    <2> QED
      BY <2>2, <2>3
  <1>7. Ready
    <2> SUFFICES ASSUME NEW f \in Features, stored.cond[f] # "true", stored'.cond[f] = "true"
                 PROVE  FlagsOf(f) \subseteq made' /\ Env(f) \subseteq stored'.env
      BY DEF Ready
    <2>1. fresh /\ inst'.cond[f] = "true" /\ inst'.cond[f] # stored.cond[f]
      BY <1>1
    <2> QED
      BY <1>1, <1>5, <2>1 DEF Up
  <1>8. Forgets
    <2> SUFFICES ASSUME NEW f \in Features, stored.cond[f] # "none", stored'.cond[f] = "none"
                 PROVE  Clean(f)'
      BY DEF Forgets
    <2>1. fresh /\ inst'.cond[f] = "none" /\ inst'.cond[f] # stored.cond[f]
      BY <1>1
    <2>2. f = g
      BY <1>0, <1>1, <2>1 DEF CondInv
    <2>3. Clean(f)
      BY <1>1, <2>1, <2>2
    <2> QED
      BY <1>1, <2>3 DEF Clean
  <1> QED
    BY <1>1, <1>2, <1>3, <1>6, <1>7, <1>8 DEF Told, SearchInv

\* The two functions that write a condition.
LEMMA StatusFunctions ==
  ASSUME NEW g \in Features
  PROVE  /\ \A c \in Conditions : updateStatusCondition(g, c) => StatusWritten(g, c)
         /\ \A ok \in BOOLEAN : removeStatusCondition(g, ok) => StatusWritten(g, "none")
  BY DEF updateStatusCondition, removeStatusCondition, StatusWritten

\* A condition that could be removed is gone, or was not there.
LEMMA Removed ==
  ASSUME SearchOK, NEW g \in Features, removeStatusCondition(g, TRUE)
  PROVE  UNCHANGED <<inst, stored>> \/ stored'.cond = inst'.cond
  <1> DEFINE v == SetCondition(inst, g, "none")
  <1>1. v \in Search
    BY ConditionValue DEF SearchOK, Conditions
  <1>2. \/ KeepCR /\ UNCHANGED held
        \/ WriteStatus(v)
    BY DEF removeStatusCondition
  <1> HIDE DEF v
  <1>3. CASE WriteStatus(v)
    <2>1. PICK e : inst' = [v EXCEPT !.env = e]
      BY <1>3 DEF WriteStatus
    <2>2. stored' = [stored EXCEPT !.cond = v.cond]
      BY <1>3 DEF WriteStatus
    <2> QED
      BY <1>1, <2>1, <2>2 DEF SearchOK, Search
  <1>4. CASE KeepCR /\ UNCHANGED held
    BY <1>4 DEF KeepCR, held, cr
  <1> QED
    BY <1>2, <1>3, <1>4

\* The end of the loop that enables a feature.
LEMMA EndEnableTold == ASSUME IInv, EndEnable PROVE Told
  <1>0. /\ pc = "enable" /\ todo = <<>> /\ feature \in Looping /\ feature \in Features
        /\ UNCHANGED <<made, feature>>
    BY DEF IInv, TypeOK, LoopOK, Looping, Features, EndEnable, outside, Goto, loop
  <1> DEFINE c == IF errs THEN "false" ELSE "true"
  <1>1. c \in Conditions /\ StatusWritten(feature, c)
    BY <1>0, StatusFunctions DEF EndEnable, Conditions
  <1>2. pc' \in {"error", "return", "hubName"} /\ (pc' = "hubName" <=> feature = "global")
    BY <1>0 DEF EndEnable, Goto, After, Looping
  <1>3. Elements(todo) = {}
    BY <1>0 DEF Elements
  <1>4. ~errs /\ fresh => Up(feature)
    <2>1. ~errs => FlagsOf(feature) \subseteq made
      BY <1>0, <1>3 DEF IInv, EnableInv
    <2>2. ~errs /\ fresh /\ feature = "global" => Federated(inst) /\ Federated(stored)
      BY <1>0, <1>3 DEF IInv, EnvInv, InGlobal
    <2> QED
      BY <1>0, <2>1, <2>2 DEF Up, Env, Federated, Looping
  <1>5. ~Early(feature)' /\ (\A f \in Features : Early(f)' => Early(f))
        /\ (pc' = "hubName" => InGlobal)
    BY <1>0, <1>2 DEF Early, InGlobal
  <1>6. CASE errs
    <2>1. "false" \in Conditions /\ StatusWritten(feature, "false")
      BY <1>1, <1>6
    <2> QED
      BY <1>0, <1>2, <1>5, <2>1, StatusTold
  <1>7. CASE ~errs
    <2>1. "true" \in Conditions /\ StatusWritten(feature, "true")
      BY <1>1, <1>7
    <2> QED
      BY <1>0, <1>2, <1>4, <1>5, <1>7, <2>1, StatusTold
  <1> QED
    BY <1>6, <1>7

\* The end of the loop that disables a feature.
LEMMA EndDisableTold == ASSUME IInv, EndDisable PROVE Told
  <1>0. /\ pc = "disable" /\ todo = <<>> /\ feature \in Looping /\ feature \in Features
        /\ UNCHANGED <<made, feature>> /\ SearchOK
    BY DEF IInv, TypeOK, LoopOK, Looping, Features, EndDisable, outside, Goto, loop
  <1>1. pc' \in {"error", "return", "hubName"} /\ (pc' = "hubName" => feature = "global")
    BY <1>0 DEF EndDisable, Goto, After
  <1>2. ~Early(feature)' /\ (\A f \in Features : Early(f)' => Early(f))
        /\ (pc' = "hubName" => InGlobal)
    BY <1>0, <1>1 DEF Early, InGlobal, Looping
  <1>3. CASE errs /\ updateStatusCondition(feature, "false")
    <2>1. "false" \in Conditions /\ StatusWritten(feature, "false")
      BY <1>0, <1>3, StatusFunctions DEF Conditions
    <2> QED
      BY <1>0, <1>1, <1>2, <2>1, StatusTold
  <1>4. ASSUME ~errs, NEW ok \in BOOLEAN, removeStatusCondition(feature, ok),
               Goto(IF ok THEN After(feature) ELSE "error")
        PROVE  Told
    <2>1. "none" \in Conditions /\ StatusWritten(feature, "none")
      BY <1>0, <1>4, StatusFunctions DEF Conditions
    <2>2. Elements(todo) = {}
      BY <1>0 DEF Elements
    <2>3. fresh => Clean(feature)
      <3>1. made \cap FlagsOf(feature) = {} /\ made \cap HubObjects(feature, Names) = {}
        BY <1>0, <1>4, <2>2 DEF IInv, DisableInv
      <3>2. fresh /\ feature = "global" => ~Federated(stored)
        BY <1>0, <1>4, <2>2 DEF IInv, EnvInv, InGlobal
      <3> QED
        BY <1>0, <3>1, <3>2 DEF Clean, Setup, Env, Federated, Looping
    <2>4. \/ pc' = "error"
          \/ UNCHANGED <<inst, stored>>
          \/ stored'.cond = inst'.cond
      <3>1. CASE ok
        BY <1>0, <1>4, <3>1, Removed
      <3>2. CASE ~ok
        BY <1>4, <3>2 DEF Goto
      <3> QED
        BY <3>1, <3>2
    <2> QED
      BY <1>0, <1>1, <1>2, <2>1, <2>3, <2>4, StatusTold
  <1> QED
    BY <1>3, <1>4 DEF EndDisable

\* A write of the environment outside the loops keeps what the conditions say of the
\* features that have been dealt with.
LEMMA EnvCond ==
  ASSUME IInv, NEW e \in Envs, NEW on, NEW ok \in BOOLEAN, updateSearchApiDeployment(e, on, ok),
         UNCHANGED made, pc # "error", \A f \in Features : Early(f)' => Early(f),
         \A f \in Features : e \in Env(f) => Early(f)
  PROVE  CondInv' /\ Ready /\ Forgets
  <1>1. /\ SearchOK' /\ LagInv' /\ fresh' = fresh
        /\ stored'.cond = stored.cond /\ inst'.ann = inst.ann
        /\ \A f \in Features : inst'.cond[f] \in {inst.cond[f], stored.cond[f]}
        /\ \A x \in Envs \ {e} : x \in inst'.env <=> x \in inst.env
        /\ ok => (e \in inst'.env <=> on)
        /\ stored'.env \in {stored.env, inst'.env}
        /\ ok => UNCHANGED <<inst, stored>> \/ stored'.env = inst'.env
    BY EnvWrite DEF IInv, TypeOK
  <1>2. ASSUME NEW f \in Features, Up(f), ~Early(f) PROVE Up(f)'
    <2>1. Env(f) \subseteq Envs \ {e}
      BY <1>2 DEF Env, Envs, Features
    <2>2. Env(f) \subseteq inst'.env
      BY <1>1, <1>2, <2>1 DEF Up
    <2> QED
      BY <1>1, <1>2, <2>2 DEF Up
  <1>3. CondInv'
    <2> SUFFICES ASSUME fresh', NEW f \in Features, inst'.cond[f] # stored'.cond[f]
                 PROVE  /\ ~Early(f)' /\ (inst'.cond[f] = "none" => pc' = "error")
                        /\ inst'.cond[f] = "true" => Up(f)'
      BY DEF CondInv
    <2>1. fresh /\ inst.cond[f] # stored.cond[f] /\ inst'.cond[f] = inst.cond[f]
      BY <1>1
    <2>2. ~Early(f) /\ inst.cond[f] # "none" /\ (inst.cond[f] = "true" => Up(f))
      BY <2>1 DEF IInv, CondInv
    <2> QED
      BY <1>2, <2>1, <2>2
  <1>4. Ready /\ Forgets
    BY <1>1 DEF Ready, Forgets
  <1> QED
    BY <1>3, <1>4

\* HUB_NAME.
LEMMA HubNameTold == ASSUME IInv, addEnvToSearchAPI PROVE Told
  <1>0. pc = "hubName" /\ UNCHANGED made /\ SearchOK /\ LagInv
        /\ pc' \in {"fgrbac", "error"}
    BY DEF IInv, TypeOK, addEnvToSearchAPI, outside, Goto
  <1>1. \A f \in Features : Early(f)' => Early(f)
    BY <1>0 DEF Early, InGlobal
  <1>2. CASE KeepCR /\ UNCHANGED held
    BY <1>0, <1>1, <1>2, QuietStep DEF KeepCR, held, cr
  <1>3. ASSUME NEW ok \in BOOLEAN, updateSearchApiDeployment("HUB_NAME", TRUE, ok),
               Goto(IF ok THEN "fgrbac" ELSE "error")
        PROVE  Told
    <2>0. /\ "HUB_NAME" \in Envs /\ "FEATURE_FINE_GRAINED_RBAC" \in Envs \ {"HUB_NAME"}
          /\ \A f \in Features : "HUB_NAME" \notin Env(f)
      BY DEF Envs, Env
    <2>1. /\ SearchOK' /\ LagInv' /\ fresh' = fresh
          /\ stored'.cond = stored.cond /\ inst'.ann = inst.ann
          /\ \A f \in Features : inst'.cond[f] \in {inst.cond[f], stored.cond[f]}
          /\ \A x \in Envs \ {"HUB_NAME"} : x \in inst'.env <=> x \in inst.env
          /\ ok => ("HUB_NAME" \in inst'.env <=> TRUE)
          /\ stored'.env \in {stored.env, inst'.env}
          /\ ok => UNCHANGED <<inst, stored>> \/ stored'.env = inst'.env
      BY <1>0, <1>3, <2>0, EnvWrite
    <2>2. CondInv' /\ Ready /\ Forgets
      BY <1>0, <1>1, <1>3, <2>0, EnvCond
    <2>3. RBACInv'
      <3>1. fresh => (FineGrained(inst) <=> FineGrained(stored))
        BY <1>0 DEF IInv, RBACInv
      <3>2. fresh' => ("FEATURE_FINE_GRAINED_RBAC" \in inst'.env
                         <=> "FEATURE_FINE_GRAINED_RBAC" \in stored'.env)
        BY <2>0, <2>1, <3>1 DEF FineGrained
      <3> QED
        BY <1>0, <3>2 DEF RBACInv, FineGrained
    <2>4. EnableInv' /\ DisableInv' /\ EnvInv'
      BY <1>0 DEF EnableInv, DisableInv, EnvInv, InGlobal
    <2> QED
      BY <2>1, <2>2, <2>3, <2>4 DEF Told, SearchInv
  <1> QED
    BY <1>2, <1>3 DEF addEnvToSearchAPI

\* The environment of fine-grained RBAC.
LEMMA RBACTold == ASSUME IInv, reconcileFineGrainedRBACConfiguration PROVE Told
  <1>0. pc = "fgrbac" /\ UNCHANGED made /\ SearchOK /\ LagInv
    BY DEF IInv, TypeOK, reconcileFineGrainedRBACConfiguration, outside
  <1>1. PICK ok \in BOOLEAN :
          /\ updateSearchApiDeployment("FEATURE_FINE_GRAINED_RBAC", inst.ann["fgrbac"], ok)
          /\ pc' = IF ok \/ inst.ann["fgrbac"] THEN "fgrbacStatus" ELSE "error"
          /\ errs' = ~ok
    BY DEF reconcileFineGrainedRBACConfiguration
  <1>2. \A f \in Features : Early(f)' => Early(f)
    BY <1>0, <1>1 DEF Early, InGlobal
  <1>3. /\ "FEATURE_FINE_GRAINED_RBAC" \in Envs
        /\ \A f \in Features : "FEATURE_FINE_GRAINED_RBAC" \in Env(f) => f = "fgrbac"
    BY DEF Envs, Env
  <1>4. /\ SearchOK' /\ LagInv' /\ fresh' = fresh
        /\ stored'.cond = stored.cond /\ inst'.ann = inst.ann
        /\ \A f \in Features : inst'.cond[f] \in {inst.cond[f], stored.cond[f]}
        /\ \A x \in Envs \ {"FEATURE_FINE_GRAINED_RBAC"} : x \in inst'.env <=> x \in inst.env
        /\ ok => ("FEATURE_FINE_GRAINED_RBAC" \in inst'.env <=> inst.ann["fgrbac"])
        /\ stored'.env \in {stored.env, inst'.env}
        /\ ok => UNCHANGED <<inst, stored>> \/ stored'.env = inst'.env
    BY <1>0, <1>1, <1>3, EnvWrite
  <1>5. CondInv' /\ Ready /\ Forgets
    <2>1. Early("fgrbac")
      BY <1>0 DEF Early
    <2> QED
      BY <1>0, <1>1, <1>2, <1>3, <2>1, EnvCond
  <1>6. RBACInv'
    <2>1. fresh => (FineGrained(inst) <=> FineGrained(stored))
      BY <1>0 DEF IInv, RBACInv
    <2>2. inst.ann["fgrbac"] \in BOOLEAN
      BY <1>0 DEF SearchOK, Search, Features
    <2>3. fresh' /\ ok => /\ "FEATURE_FINE_GRAINED_RBAC" \in inst'.env <=> inst.ann["fgrbac"]
                          /\ "FEATURE_FINE_GRAINED_RBAC" \in stored'.env <=> inst.ann["fgrbac"]
      BY <1>4, <2>1 DEF FineGrained
    <2>4. pc' \in {"fgrbacStatus", "error"} /\ (pc' = "fgrbacStatus" /\ errs' => inst.ann["fgrbac"])
          /\ (~errs' => ok)
      BY <1>1
    <2> QED
      BY <1>4, <2>2, <2>3, <2>4 DEF RBACInv, FineGrained, InGlobal
  <1>7. EnableInv' /\ DisableInv' /\ EnvInv'
    BY <1>1 DEF EnableInv, DisableInv, EnvInv, InGlobal
  <1> QED
    BY <1>4, <1>5, <1>6, <1>7 DEF Told, SearchInv

\* Its condition.
LEMMA RBACStatusTold == ASSUME IInv, FineGrainedRBACStatus PROVE Told
  <1>0. /\ pc = "fgrbacStatus" /\ UNCHANGED made /\ SearchOK /\ pc' \in {"vm", "error"}
        /\ "fgrbac" \in Features /\ Conditions = {"none", "false", "true"}
    BY DEF IInv, TypeOK, FineGrainedRBACStatus, outside, Goto, Features, Conditions
  <1>1. ~Early("fgrbac")' /\ \A f \in Features : Early(f)' => Early(f)
    BY <1>0 DEF Early, InGlobal
  <1>2. fresh /\ ~errs => (FineGrained(inst) <=> inst.ann["fgrbac"])
                          /\ (FineGrained(stored) <=> inst.ann["fgrbac"])
    BY <1>0 DEF IInv, RBACInv
  <1>3. CASE updateStatusCondition("fgrbac", "false")
    BY <1>0, <1>1, <1>3, StatusFunctions, StatusTold
  <1>4. CASE inst.ann["fgrbac"] /\ ~errs /\ updateStatusCondition("fgrbac", "true")
    <2>1. fresh => Up("fgrbac")
      BY <1>2, <1>4, FlagValues DEF Up, Env, FineGrained
    <2> QED
      BY <1>0, <1>1, <1>4, <2>1, StatusFunctions, StatusTold
  <1>5. ASSUME ~inst.ann["fgrbac"], NEW ok \in BOOLEAN, removeStatusCondition("fgrbac", ok),
               Goto(IF ok THEN "vm" ELSE "error")
        PROVE  Told
    <2>1. ~errs
      BY <1>0, <1>5 DEF IInv, RBACInv
    <2>2. fresh => Clean("fgrbac")
      BY <1>2, <1>5, <2>1, SetupApart DEF Clean, Env, FineGrained
    <2>3. \/ pc' = "error"
          \/ UNCHANGED <<inst, stored>>
          \/ stored'.cond = inst'.cond
      <3>1. CASE ok
        BY <1>0, <1>5, <3>1, Removed
      <3>2. CASE ~ok
        BY <1>5, <3>2 DEF Goto
      <3> QED
        BY <3>1, <3>2
    <2>4. StatusWritten("fgrbac", "none")
      BY <1>0, <1>5, StatusFunctions
    <2> QED
      BY <1>0, <1>1, <2>2, <2>3, <2>4, StatusTold
  <1> QED
    BY <1>3, <1>4, <1>5 DEF FineGrainedRBACStatus

\* What others write into the Search CR.
LEMMA EditTold ==
  ASSUME IInv, NEW v \in Search, v.cond = stored.cond, EditSearch(v)
  PROVE  Told
  <1>1. /\ stored' = v /\ lag' = TRUE /\ fresh' = FALSE
        /\ UNCHANGED <<cached, inst, made, pc, feature, todo, errs>>
    BY DEF EditSearch, outside, loop
  <1>2. SearchOK' /\ LagInv' /\ stored'.cond = stored.cond
    BY <1>1 DEF IInv, TypeOK, SearchOK, LagInv
  <1>3. EnableInv' /\ DisableInv' /\ (pc' = "fgrbacStatus" /\ errs' => inst'.ann["fgrbac"])
    BY <1>1 DEF IInv, EnableInv, DisableInv, RBACInv
  <1> QED
    BY <1>1, <1>2, <1>3, StaleStep

\* The operator starts again, or ends a reconcile.
LEMMA RestTold ==
  ASSUME IInv, Rest, UNCHANGED stored, SearchOK', LagInv'
  PROVE  Told
  <1>1. fresh' = FALSE /\ pc' = "idle" /\ stored'.cond = stored.cond
    BY DEF Rest
  <1>2. EnableInv' /\ DisableInv'
    BY <1>1 DEF EnableInv, DisableInv
  <1> QED
    BY <1>1, <1>2, StaleStep

\* The values at rest.
LEMMA PlainType == Plain \in Search
  <1>1. [f \in Features |-> FALSE] \in [Features -> BOOLEAN]
    OBVIOUS
  <1>2. [f \in Features |-> "none"] \in [Features -> Conditions]
    BY DEF Conditions
  <1> QED
    BY <1>1, <1>2 DEF Plain, Search

\* Every step of the worker, of the informer and of others.
LEMMA NextTold == IInv /\ [Next]_vars => Told
  <1> SUFFICES ASSUME IInv, [Next]_vars PROVE Told
    OBVIOUS
  <1>0. SearchOK /\ LagInv
    BY DEF IInv, TypeOK
  <1>1. CASE StartReconcile
    BY <1>1, StartTold
  <1>2. CASE EndReconcile
    <2>1. Rest /\ UNCHANGED <<stored, cached, lag>> /\ inst' = Plain
      BY <1>2 DEF EndReconcile, Rest, cr
    <2>2. SearchOK' /\ LagInv'
      BY <1>0, <2>1, PlainType DEF SearchOK, LagInv
    <2> QED
      BY <2>1, <2>2, RestTold
  <1>3. CASE \E f \in {"global", "vm"} : reconcileFeature(f)
    BY <1>3, FeatureTold DEF Looping
  <1>4. CASE CallOutside \/ CallEnv \/ CallList
    BY <1>4, OutsideTold, EnvTold, ListTold
  <1>5. CASE EndEnable \/ EndDisable
    BY <1>5, EndEnableTold, EndDisableTold
  <1>6. CASE addEnvToSearchAPI \/ reconcileFineGrainedRBACConfiguration \/ FineGrainedRBACStatus
    BY <1>6, HubNameTold, RBACTold, RBACStatusTold
  <1>7. CASE Deliver
    <2>1. /\ UNCHANGED <<stored, inst, fresh, made, pc, feature, todo, errs>>
          /\ cached' = stored
      BY <1>7 DEF Deliver, outside, worker, held, loop
    <2>2. SearchOK' /\ LagInv'
      BY <1>0, <2>1 DEF SearchOK, LagInv
    <2> QED
      BY <2>1, <2>2, OtherStep
  <1>8. CASE Crash
    <2>1. Rest /\ UNCHANGED stored /\ inst' = Plain /\ cached' = stored
      BY <1>8 DEF Crash, Rest
    <2>2. SearchOK' /\ LagInv'
      BY <1>0, <2>1, PlainType DEF SearchOK, LagInv
    <2> QED
      BY <2>1, <2>2, RestTold
  <1>9. ASSUME UNCHANGED <<cr, worker, made>> PROVE Told
    <2>1. UNCHANGED <<stored, cached, lag, inst, fresh, made, pc, feature, todo, errs>>
      BY <1>9 DEF cr, worker, held, loop
    <2>2. SearchOK' /\ LagInv'
      BY <1>0, <2>1 DEF SearchOK, LagInv
    <2> QED
      BY <2>1, <2>2, OtherStep
  <1>10. CASE Resync
    BY <1>9, <1>10 DEF Resync, outside
  <1>11. ASSUME NEW c \in Names, ChangeHub(c) PROVE Told
    BY <1>9, <1>11 DEF ChangeHub
  <1>12. CASE ChangeDependencies \/ ChangeHubName
    BY <1>9, <1>12 DEF ChangeDependencies, ChangeHubName
  <1>13. ASSUME NEW f \in Features, Annotate(f) PROVE Told
    <2> DEFINE v == [stored EXCEPT !.ann[f] = ~@]
    <2>1. stored \in Search
      BY <1>0 DEF SearchOK
    <2>2. [stored.ann EXCEPT ![f] = ~@] \in [Features -> BOOLEAN]
      BY <2>1 DEF Search
    <2>3. v = [stored EXCEPT !.ann = [stored.ann EXCEPT ![f] = ~@]]
      BY <2>1 DEF Search
    <2>4. v \in Search /\ v.cond = stored.cond
      BY <2>1, <2>2, <2>3 DEF Search
    <2> HIDE DEF v
    <2> QED
      BY <1>13, <2>4, EditTold DEF Annotate, v
  <1>14. CASE Touch
    BY <1>0, <1>14, EditTold DEF Touch, SearchOK
  <1>15. CASE UNCHANGED vars
    BY <1>9, <1>15 DEF vars, cr, worker, held, loop
  <1> QED
    BY <1>1, <1>2, <1>3, <1>4, <1>5, <1>6, <1>7, <1>8, <1>10, <1>11, <1>12, <1>13, <1>14, <1>15
    DEF Next, Worker, Environment

-----------------------------------------------------------------------------
(* The rest of the state.                                                  *)

LEMMA NextFlags == FlagsOK /\ [Next]_vars => FlagsOK'
  <1> SUFFICES ASSUME FlagsOK, [Next]_vars PROVE FlagsOK'
    OBVIOUS
  <1> USE DEF FlagsOK
  <1>1. ASSUME NEW e, NEW on, NEW ok, updateSearchApiDeployment(e, on, ok)
        PROVE  fresh' \in BOOLEAN /\ lag' \in BOOLEAN
    BY <1>1, Zenon DEF updateSearchApiDeployment, WriteSpec, WriteFails, KeepCR, cr, held
  <1>2. ASSUME NEW f, NEW c, StatusWritten(f, c)
        PROVE  fresh' \in BOOLEAN /\ lag' \in BOOLEAN
    BY <1>2, Zenon DEF StatusWritten, WriteStatus, WriteFails, KeepCR, cr, held
  <1>3. ASSUME NEW f, NEW c, updateStatusCondition(f, c) PROVE StatusWritten(f, c)
    BY <1>3, Zenon DEF updateStatusCondition, StatusWritten
  <1>4. ASSUME NEW f, NEW ok, removeStatusCondition(f, ok) PROVE StatusWritten(f, "none")
    BY <1>4, Zenon DEF removeStatusCondition, StatusWritten
  <1>5. CASE StartReconcile
    BY <1>5, Zenon DEF StartReconcile, cr, outside, loop
  <1>6. CASE EndReconcile
    BY <1>6, Zenon DEF EndReconcile, Rest, cr, outside
  <1>7. ASSUME NEW f, reconcileFeature(f) PROVE FlagsOK'
    BY <1>7, Zenon DEF reconcileFeature, BeginLoop, Goto, cr, held, outside, loop
  <1>8. CASE CallOutside
    BY <1>8, Zenon DEF CallOutside, cr, held
  <1>9. CASE CallEnv
    BY <1>1, <1>9, Zenon DEF CallEnv, outside
  <1>10. CASE CallList
    BY <1>10, Zenon DEF CallList, Goto, cr, held, outside, loop
  <1>11. CASE EndEnable
    BY <1>2, <1>3, <1>11, Zenon DEF EndEnable, Goto, outside, loop
  <1>12. CASE EndDisable
    BY <1>2, <1>3, <1>4, <1>12, Zenon DEF EndDisable, Goto, outside, loop
  <1>13. CASE addEnvToSearchAPI
    BY <1>1, <1>13, Zenon DEF addEnvToSearchAPI, Goto, KeepCR, cr, held, outside, loop
  <1>14. CASE reconcileFineGrainedRBACConfiguration
    BY <1>1, <1>14, Zenon DEF reconcileFineGrainedRBACConfiguration, outside
  <1>15. CASE FineGrainedRBACStatus
    BY <1>2, <1>3, <1>4, <1>15, Zenon DEF FineGrainedRBACStatus, Goto, outside, loop
  <1>16. CASE Deliver
    BY <1>16, Zenon DEF Deliver, outside, worker, held, loop
  <1>17. CASE Resync
    BY <1>17, Zenon DEF Resync, cr, outside, worker, held, loop
  <1>18. CASE Crash
    BY <1>18, Zenon DEF Crash, Rest, outside
  <1>19. ASSUME NEW v, EditSearch(v) PROVE FlagsOK'
    BY <1>19, Zenon DEF EditSearch, outside, loop
  <1>20. ASSUME NEW c, ChangeHub(c) PROVE FlagsOK'
    BY <1>20, Zenon DEF ChangeHub, cr, worker, held, loop
  <1>21. CASE ChangeDependencies
    BY <1>21, Zenon DEF ChangeDependencies, cr, worker, held, loop
  <1>22. CASE ChangeHubName
    BY <1>22, Zenon DEF ChangeHubName, cr, worker, held, loop
  <1>23. CASE UNCHANGED vars
    BY <1>23, Zenon DEF vars
  <1> QED
    BY <1>5, <1>6, <1>7, <1>8, <1>9, <1>10, <1>11, <1>12, <1>13, <1>14, <1>15, <1>16, <1>17,
       <1>18, <1>19, <1>20, <1>21, <1>22, <1>23
    DEF Next, Worker, Environment, Annotate, Touch

\* The worker is somewhere in its steps, with calls of the feature's loop to come, and
\* sets up nothing but what belongs to a feature.
LEMMA NextLoop == LoopOK /\ OutsideOK /\ [Next]_vars => LoopOK' /\ OutsideOK'
  <1> SUFFICES ASSUME LoopOK, OutsideOK, [Next]_vars PROVE LoopOK' /\ OutsideOK'
    OBVIOUS
  <1>0. feature \in Looping /\ todo \in Left(feature) /\ Looping = {"global", "vm"}
    BY DEF LoopOK, Looping
  <1>1. ASSUME pc' \in Steps, UNCHANGED <<loop, made, hubs>> PROVE LoopOK' /\ OutsideOK'
    BY <1>0, <1>1 DEF LoopOK, OutsideOK, loop
  <1>2. ASSUME pc' \in Steps, UNCHANGED <<feature, todo, made, hubs>> PROVE LoopOK' /\ OutsideOK'
    BY <1>0, <1>2 DEF LoopOK, OutsideOK
  <1>3. ASSUME Rest, UNCHANGED <<made, hubs>> PROVE LoopOK' /\ OutsideOK'
    <2>1. pc' = "idle" /\ feature' = "global" /\ todo' = <<>>
      BY <1>3 DEF Rest
    <2>2. <<>> \in Left("global")
      <3>1. <<>> \in Seq(HubObjects("global", Names))
        OBVIOUS
      <3> QED
        BY <3>1 DEF Left
    <2>3. LoopOK'
      BY <2>1, <2>2 DEF LoopOK, Steps
    <2> QED
      BY <1>3, <2>3 DEF OutsideOK
  <1>4. CASE StartReconcile
    BY <1>1, <1>4 DEF StartReconcile, outside, Steps
  <1>5. CASE EndReconcile
    BY <1>3, <1>5 DEF EndReconcile, outside
  <1>6. ASSUME NEW f \in Looping, reconcileFeature(f) PROVE LoopOK' /\ OutsideOK'
    <2>1. UNCHANGED <<made, hubs>>
      BY <1>6 DEF reconcileFeature, outside
    <2>2. ASSUME NEW p \in {"enable", "disable"}, BeginLoop(p, f) PROVE LoopOK' /\ OutsideOK'
      <3>1. pc' \in Steps /\ feature' = f /\ todo' = HubCalls(f)
        BY <2>2 DEF BeginLoop, Steps
      <3>2. todo' \in Left(f)
        BY <3>1, LoopStart
      <3>3. LoopOK'
        BY <1>0, <3>1, <3>2 DEF LoopOK
      <3> QED
        BY <2>1, <3>3 DEF OutsideOK
    <2>3. ASSUME NEW p \in {"error", After(f)}, Goto(p) PROVE LoopOK' /\ OutsideOK'
      BY <1>1, <2>1, <2>3 DEF Goto, After, Steps
    <2> QED
      BY <1>6, <2>2, <2>3 DEF reconcileFeature
  <1>7. CASE CallOutside
    <2>1. /\ UNCHANGED <<pc, feature, hubs>> /\ todo # <<>> /\ todo' = Tail(todo)
          /\ Head(todo) # EnvCall /\ Head(todo) # ListCall
          /\ \/ made' = made \cup {Head(todo)}
             \/ made' = made \ {Head(todo)}
             \/ made' = made
      BY <1>7 DEF CallOutside
    <2>2. Head(todo) \in Setup(feature) /\ todo' \in Left(feature)
      BY <1>0, <2>1, LoopStep
    <2>3. Setup(feature) \subseteq Setup("global") \cup Setup("vm")
      BY <1>0
    <2>4. LoopOK'
      BY <1>0, <2>1, <2>2 DEF LoopOK
    <2> QED
      BY <2>1, <2>2, <2>3, <2>4 DEF OutsideOK
  <1>8. CASE CallEnv
    <2>1. UNCHANGED <<pc, feature, made, hubs>> /\ todo # <<>> /\ todo' = Tail(todo)
      BY <1>8 DEF CallEnv, outside
    <2>2. todo' \in Left(feature)
      BY <1>0, <2>1, LoopStep
    <2> QED
      BY <1>0, <2>1, <2>2 DEF LoopOK, OutsideOK
  <1>9. CASE CallList
    <2>1. UNCHANGED <<feature, made, hubs>> /\ pc' \in Steps
      BY <1>9 DEF CallList, outside, Goto, loop, LoopOK, Steps
    <2>2. ClusterCalls(feature, Listed) \in Left(feature) /\ <<>> \in Left(feature)
      <3>1. <<>> \in Seq(HubObjects(feature, Names))
        OBVIOUS
      <3> QED
        BY <1>0, <3>1, ListedType, ClusterCallsType DEF Left
    <2>3. todo' \in {ClusterCalls(feature, Listed), <<>>, todo}
      BY <1>9 DEF CallList, Goto, loop
    <2>4. todo' \in Left(feature)
      BY <1>0, <2>2, <2>3
    <2> QED
      BY <1>0, <2>1, <2>4 DEF LoopOK, OutsideOK
  <1>10. CASE EndEnable \/ EndDisable
    BY <1>1, <1>10 DEF EndEnable, EndDisable, outside, Goto, After, Steps
  <1>11. CASE addEnvToSearchAPI \/ FineGrainedRBACStatus
    BY <1>1, <1>11 DEF addEnvToSearchAPI, FineGrainedRBACStatus, outside, Goto, Steps
  <1>12. CASE reconcileFineGrainedRBACConfiguration
    BY <1>2, <1>12 DEF reconcileFineGrainedRBACConfiguration, outside, Steps
  <1>13. CASE Deliver \/ Resync
    BY <1>1, <1>13 DEF Deliver, Resync, outside, worker, LoopOK
  <1>14. CASE Crash
    BY <1>3, <1>14 DEF Crash, outside
  <1>15. ASSUME NEW v, EditSearch(v) PROVE LoopOK' /\ OutsideOK'
    BY <1>1, <1>15 DEF EditSearch, outside, LoopOK
  <1>16. ASSUME NEW c \in Names, ChangeHub(c) PROVE LoopOK' /\ OutsideOK'
    <2>1. UNCHANGED <<pc, feature, todo, made>> /\ hubs' \subseteq Names
      BY <1>16 DEF ChangeHub, worker, loop, OutsideOK
    <2> QED
      BY <1>0, <2>1 DEF LoopOK, OutsideOK
  <1>17. CASE ChangeDependencies \/ ChangeHubName
    BY <1>1, <1>17 DEF ChangeDependencies, ChangeHubName, worker, LoopOK
  <1>18. CASE UNCHANGED vars
    BY <1>1, <1>18 DEF vars, loop, LoopOK
  <1> QED
    BY <1>0, <1>4, <1>5, <1>6, <1>7, <1>8, <1>9, <1>10, <1>11, <1>12, <1>13, <1>14, <1>15,
       <1>16, <1>17, <1>18
    DEF Next, Worker, Environment, Annotate, Touch

\* Failures and edits stay within their bounds.
LEMMA NextCounters == CountersOK /\ [Next]_vars => CountersOK'
  <1> SUFFICES ASSUME CountersOK, [Next]_vars PROVE CountersOK'
    OBVIOUS
  <1> USE BoundsAssumption
  <1>1. ASSUME UNCHANGED edits, Fault \/ NoFault PROVE CountersOK'
    BY <1>1 DEF CountersOK, Fault, NoFault
  <1>2. ASSUME UNCHANGED faults, Edit PROVE CountersOK'
    BY <1>2 DEF CountersOK, Edit
  <1>3. ASSUME NEW e, NEW on, NEW ok, updateSearchApiDeployment(e, on, ok)
        PROVE  Fault \/ NoFault
    BY <1>3 DEF updateSearchApiDeployment, WriteFails
  <1>4. ASSUME NEW f, NEW c, updateStatusCondition(f, c) PROVE Fault \/ NoFault
    BY <1>4 DEF updateStatusCondition, WriteFails
  <1>5. ASSUME NEW f, NEW ok, removeStatusCondition(f, ok) PROVE Fault \/ NoFault
    BY <1>5 DEF removeStatusCondition, WriteFails
  <1>6. CASE StartReconcile \/ EndReconcile
    BY <1>1, <1>6 DEF StartReconcile, EndReconcile, NoFault
  <1>7. ASSUME NEW f, reconcileFeature(f) PROVE CountersOK'
    BY <1>1, <1>7 DEF reconcileFeature
  <1>8. CASE CallOutside \/ CallList
    BY <1>1, <1>8 DEF CallOutside, CallList
  <1>9. CASE CallEnv
    BY <1>1, <1>3, <1>9 DEF CallEnv
  <1>10. CASE EndEnable
    BY <1>1, <1>4, <1>10 DEF EndEnable
  <1>11. CASE EndDisable
    BY <1>1, <1>4, <1>5, <1>11 DEF EndDisable
  <1>12. CASE addEnvToSearchAPI
    BY <1>1, <1>3, <1>12 DEF addEnvToSearchAPI
  <1>13. CASE reconcileFineGrainedRBACConfiguration
    BY <1>1, <1>3, <1>13 DEF reconcileFineGrainedRBACConfiguration
  <1>14. CASE FineGrainedRBACStatus
    BY <1>1, <1>4, <1>5, <1>14 DEF FineGrainedRBACStatus
  <1>15. CASE Deliver \/ Resync
    BY <1>1, <1>15 DEF Deliver, Resync, NoFault
  <1>16. CASE Crash
    BY <1>1, <1>16 DEF Crash
  <1>17. ASSUME NEW v, EditSearch(v) PROVE CountersOK'
    BY <1>2, <1>17 DEF EditSearch
  <1>18. ASSUME NEW c, ChangeHub(c) PROVE CountersOK'
    BY <1>2, <1>18 DEF ChangeHub
  <1>19. CASE ChangeDependencies \/ ChangeHubName
    BY <1>2, <1>19 DEF ChangeDependencies, ChangeHubName
  <1>20. CASE UNCHANGED vars
    BY <1>1, <1>20 DEF vars, NoFault
  <1> QED
    BY <1>6, <1>7, <1>8, <1>9, <1>10, <1>11, <1>12, <1>13, <1>14, <1>15, <1>16, <1>17, <1>18,
       <1>19, <1>20
    DEF Next, Worker, Environment, Annotate, Touch

-----------------------------------------------------------------------------
(* The inductive invariant and what follows from it.                       *)

LEMMA InitIInv == Init => IInv
  <1> SUFFICES ASSUME Init PROVE IInv
    OBVIOUS
  <1>1. FlagsOK
    <2>1. /\ lag = FALSE /\ fresh = FALSE /\ errs = FALSE /\ deps = TRUE /\ queued = TRUE
          /\ hubName \in BOOLEAN
      BY DEF Init
    <2> QED
      BY <2>1, Zenon DEF FlagsOK
  <1>2. SearchOK /\ LagInv
    <2>1. stored = Plain /\ cached = Plain /\ inst = Plain
      BY DEF Init
    <2> QED
      BY <2>1, PlainType DEF SearchOK, LagInv
  <1>3. pc = "idle" /\ feature = "global" /\ todo = <<>> /\ fresh = FALSE
    BY DEF Init
  <1>4. LoopOK
    <2>1. <<>> \in Seq(HubObjects("global", Names))
      OBVIOUS
    <2>2. todo \in Left(feature)
      BY <1>3, <2>1 DEF Left
    <2> QED
      BY <1>3, <2>2 DEF LoopOK, Steps
  <1>5. OutsideOK
    <2>1. made = {} /\ hubs \in {{}, {Clusters[1]}}
      BY DEF Init
    <2>2. Clusters[1] \in Names
      BY ClustersAssumption
    <2> QED
      BY <2>1, <2>2 DEF OutsideOK
  <1>6. CountersOK
    BY BoundsAssumption DEF Init, CountersOK
  <1>7. CondInv /\ EnableInv /\ DisableInv /\ EnvInv /\ RBACInv
    BY <1>3 DEF CondInv, EnableInv, DisableInv, EnvInv, RBACInv
  <1> QED
    BY <1>1, <1>2, <1>4, <1>5, <1>6, <1>7 DEF IInv, TypeOK

LEMMA NextIInv == IInv /\ [Next]_vars => IInv'
  <1> SUFFICES ASSUME IInv, [Next]_vars PROVE IInv'
    OBVIOUS
  <1>1. FlagsOK' /\ LoopOK' /\ OutsideOK' /\ CountersOK'
    BY NextFlags, NextLoop, NextCounters DEF IInv, TypeOK
  <1>2. SearchInv'
    BY NextTold DEF Told
  <1> QED
    BY <1>1, <1>2 DEF IInv, TypeOK, SearchInv

LEMMA Invariance == Spec => []IInv
  BY InitIInv, NextIInv, PTL DEF Spec

\* The state is well typed: the loops of a feature call for its own flags and objects
\* only, so nothing else is ever set up or removed.
THEOREM TypeCorrect == Spec => []TypeOK
  <1>1. IInv => TypeOK
    BY DEF IInv
  <1> QED
    BY Invariance, <1>1, PTL

\* A condition that turns true tells the truth, whichever writes failed or were lost to
\* a conflict on the way, for any number of clusters, failures and edits.
THEOREM ConditionsTrue == Spec => ReadyIsTrue
  <1>1. IInv /\ [Next]_vars
          => [\A f \in Features :
                stored.cond[f] # "true" /\ stored'.cond[f] = "true"
                  => FlagsOf(f) \subseteq made' /\ Env(f) \subseteq stored'.env]_vars
    BY NextTold DEF Told, Ready
  <1> QED
    BY Invariance, <1>1, PTL DEF Spec, ReadyIsTrue

\* A condition goes only when nothing of its feature is left.
THEOREM ForgottenAreClean == Spec => ForgetsOnlyWhenClean
  <1>1. IInv /\ [Next]_vars
          => [\A f \in Features :
                stored.cond[f] # "none" /\ stored'.cond[f] = "none" => Clean(f)']_vars
    BY NextTold DEF Told, Forgets
  <1> QED
    BY Invariance, <1>1, PTL DEF Spec, ForgetsOnlyWhenClean
=============================================================================

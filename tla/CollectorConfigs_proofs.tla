---------------------- MODULE CollectorConfigs_proofs ----------------------
(***************************************************************************)
(* Proofs about CollectorConfigs for all rules, configs and bounds.        *)
(***************************************************************************)
EXTENDS CollectorConfigs, TLAPS

\* While nobody changes a config between its read and the patch of its label, the
\* answer to the patch is what was read: mergedSpec, the listed configs and what
\* is stored agree about it.
TeamsAgree ==
  /\ \A n \in Teams \ moved : teamRules[n] = items[n]
  /\ \A n \in todo \ moved : cfgs[n].rules = items[n]
UserAgrees ==
  pc = "userLabel" /\ User \notin moved => cfgs[User].rules = userRules \cup dropped

\* The worker holds no rule of the user before it reads the user's config, and
\* from then on no exclude rule that overlaps an include of the listed configs.
UserDropped ==
  /\ pc \in {"idle", "labels"} => userRules = {}
  /\ User \notin moved => Droppable(userRules, items) = {}

IInv == TypeOK /\ TeamsAgree /\ UserAgrees /\ UserDropped

-----------------------------------------------------------------------------
(* Facts about the model's values.                                         *)

\* The rules the worker holds are kept with the name of a config.
LEMMA MergedRulesType ==
  ASSUME TypeOK
  PROVE  MergedRules \subseteq Names \X Rule
  BY DEF TypeOK, WorkerOK, MergedRules, WithNames, Names

\* A team's rule among the merged ones is one that mergedSpec took from its config.
LEMMA MergedOfTeam ==
  ASSUME NEW t \in MergedRules, t[1] # User
  PROVE  t[1] \in Teams /\ t[2] \in teamRules[t[1]]
  BY DEF MergedRules, WithNames

\* A rule of the user among the merged ones is one that was not set aside.
LEMMA MergedOfUser ==
  ASSUME NEW u \in MergedRules, u[1] = User
  PROVE  u[2] \in userRules
  BY NamesAssumption DEF MergedRules, WithNames

\* What is decoded over rules that were held are rules; nothing is written over
\* them by the answer that was read already.
LEMMA DecodedType ==
  ASSUME NEW rs \in SUBSET Rule, NEW read \in SUBSET Rule, NEW new \in SUBSET Rule,
         NEW d \in Decoded(rs, read, new)
  PROVE  d \in SUBSET Rule /\ (new = read => d = rs)
  <1>1. CASE new = read
    BY <1>1 DEF Decoded
  <1>2. CASE new # read
    <2>1. PICK f \in [rs -> UNION {Overwritten(r, new) : r \in rs}] : d = {f[r] : r \in rs}
      BY <1>2 DEF Decoded
    <2>2. ASSUME NEW r \in rs, NEW x \in Overwritten(r, new) PROVE x \in Rule
      <3>1. PICK g \in {r} \cup new, k \in {r} \cup new :
              x = [r EXCEPT !.sel = [apiGroups |-> g.sel.apiGroups, kinds |-> k.sel.kinds]]
        BY <2>2 DEF Overwritten
      <3>2. r \in Rule /\ g \in Rule /\ k \in Rule
        BY <3>1
      <3>3. [apiGroups |-> g.sel.apiGroups, kinds |-> k.sel.kinds] \in Selector
        BY <3>2 DEF Rule, Selector
      <3> QED
        BY <3>1, <3>2, <3>3 DEF Rule
    <2>3. \A x \in d : \E r \in rs : x \in Overwritten(r, new)
      BY <2>1
    <2> QED
      BY <1>2, <2>2, <2>3
  <1> QED
    BY <1>1, <1>2

\* The answer to a patch has rules, and those that were read if they are stored.
LEMMA AnswerType ==
  ASSUME NEW read \in SUBSET Rule, NEW new \in SUBSET Rule, NEW a \in Answer(read, new)
  PROVE  a \in SUBSET Rule /\ (new = read => a = read)
  BY DEF Answer

\* The configs the model builds are configs.
LEMMA ConfigTypes ==
  ASSUME NEW c \in Config
  PROVE  /\ NoConfig \in Config
         /\ [c EXCEPT !.backup = TRUE] \in Config
         /\ [c EXCEPT !.backup = FALSE] \in Config
         /\ \A s \in SUBSET Rule : [c EXCEPT !.there = TRUE, !.rules = s] \in Config
         /\ \A s \in SUBSET Rule, o \in BOOLEAN :
              [c EXCEPT !.there = TRUE, !.team = TRUE, !.override = o, !.rules = s]
                \in Config
         /\ \A s \in SUBSET Rule, u \in Nat :
              [c EXCEPT !.there = TRUE, !.owner = u, !.team = TRUE, !.backup = TRUE,
                        !.rules = s] \in Config
  BY DEF Config, NoConfig

\* A config is replaced by a config.
LEMMA CfgsType ==
  ASSUME cfgs \in [Names -> Config], NEW n \in Names, NEW c \in Config,
         cfgs' = [cfgs EXCEPT ![n] = c]
  PROVE  cfgs' \in [Names -> Config]
  OBVIOUS

\* The rules a List of the teams returns are rules of teams.
LEMMA ListedType ==
  ASSUME ObjectsOK
  PROVE  TeamRulesNow \in [Teams -> SUBSET Rule]
  <1>1. \A n \in Teams : cfgs[n].rules \in SUBSET Rule
    BY DEF ObjectsOK, Names, Config
  <1> QED
    BY <1>1 DEF TeamRulesNow

\* A change of a config is recorded, if at all, under its name.
LEMMA ChangedType ==
  ASSUME NEW n \in Names, NEW c, Changed(n, c), moved \subseteq Names
  PROVE  moved' \subseteq Names /\ moved \subseteq moved'
  BY DEF Changed

-----------------------------------------------------------------------------
(* Type correctness.  The flags, the objects, what the worker holds and    *)
(* what the seeder holds are each kept by every step.                      *)

LEMMA InitType == Init => TypeOK
  <1> SUFFICES ASSUME Init PROVE TypeOK
    OBVIOUS
  <1>1. FlagsOK
    BY DEF Init, FlagsOK
  <1>2. cfgs \in [Names -> Config]
    <2>1. PICK c \in {NoConfig} \cup {[NoConfig EXCEPT !.there = TRUE, !.rules = s] :
                                       s \in Contents} :
            cfgs = [n \in Names |-> IF n = User THEN c ELSE NoConfig]
      BY DEF Init
    <2>2. NoConfig \in Config
      BY DEF NoConfig, Config
    <2>3. c \in Config
      BY <2>1, <2>2, ConfigTypes, ContentsAssumption
    <2> QED
      BY <2>1, <2>2, <2>3
  <1>3. /\ NotMerged \in [there : BOOLEAN, owner : Nat, rules : SUBSET (Names \X Rule)]
        /\ NotMerged.owner = 0
    BY DEF NotMerged
  <1>4. /\ uid = 1 /\ applied = "none" /\ merged = NotMerged
        /\ pc = "idle" /\ inst = 0 /\ todo = {} /\ userRules = {} /\ dropped = {}
        /\ items = NoRules /\ teamRules = NoRules /\ moved = {}
        /\ seeding = "waiting" /\ owner = 0 /\ left = {}
    BY DEF Init
  <1>5. ObjectsOK
    BY <1>2, <1>3, <1>4 DEF ObjectsOK
  <1>6. WorkerOK /\ SeederOK /\ uid \in Nat
    BY <1>4 DEF WorkerOK, SeederOK, NoRules
  <1> QED
    BY <1>1, <1>5, <1>6 DEF TypeOK

\* Every step keeps the flags Boolean.
LEMMA NextFlags == TypeOK /\ [Next]_vars => FlagsOK'
  <1> SUFFICES ASSUME TypeOK, [Next]_vars PROVE FlagsOK'
    OBVIOUS
  <1>0. FlagsOK
    BY DEF TypeOK
  <1>1. CASE ListTeams
    BY <1>0, <1>1 DEF FlagsOK, ListTeams, Fail, Rest, search, seeder
  <1>2. ASSUME NEW n \in Teams, LabelTeam(n) PROVE FlagsOK'
    BY <1>0, <1>2 DEF FlagsOK, LabelTeam, addBackupLabel, LabelRefused, Fail, Rest, search, seeder
  <1>3. CASE ReadUser
    BY <1>0, <1>3 DEF FlagsOK, ReadUser, Goto, Fail, Rest, search, seeder
  <1>4. CASE LabelUser
    BY <1>0, <1>4 DEF FlagsOK, LabelUser, addBackupLabel, LabelRefused, Fail, Rest, search, seeder
  <1>5. CASE updateUserCCStatus
    BY <1>0, <1>5 DEF FlagsOK, updateUserCCStatus, search, seeder
  <1>6. CASE WriteMerged
    BY <1>0, <1>6 DEF FlagsOK, WriteMerged, Return, Fail, Rest, search, seeder
  <1>7. CASE StartSeeding
    BY <1>0, <1>7 DEF FlagsOK, StartSeeding, search, reconcile, held
  <1>8. CASE EndSeeding
    BY <1>0, <1>8 DEF FlagsOK, EndSeeding, search, reconcile, held
  <1>9. ASSUME NEW n \in Shipped, applyOneIntegrationCollectorConfig(n) PROVE FlagsOK'
    BY <1>0, <1>9 DEF FlagsOK, applyOneIntegrationCollectorConfig, search, held
  <1>10. CASE Resync
    BY <1>0, <1>10 DEF FlagsOK, Resync, search, reconcile, held, seeder
  <1>11. CASE Crash
    BY <1>0, <1>11 DEF FlagsOK, Crash, Fail, Rest, search
  <1>12. CASE CollectMerged
    BY <1>0, <1>12 DEF FlagsOK, CollectMerged, search, reconcile, held, seeder
  <1>13. ASSUME NEW n \in Names, CollectConfig(n) PROVE FlagsOK'
    BY <1>0, <1>13 DEF FlagsOK, CollectConfig, search, held, seeder
  <1>14. ASSUME NEW who, NEW n \in Names, NEW c, Write(who, n, c) PROVE FlagsOK'
    BY <1>0, <1>14 DEF FlagsOK, Write, search, seeder
  <1>15. ASSUME NEW n \in Names, DeleteConfig(n) PROVE FlagsOK'
    BY <1>0, <1>15 DEF FlagsOK, DeleteConfig, search, held, seeder
  <1>16. CASE PauseSearch
    BY <1>0, <1>16 DEF FlagsOK, PauseSearch, reconcile, held, seeder
  <1>17. CASE ReplaceSearch
    BY <1>0, <1>17 DEF FlagsOK, ReplaceSearch, reconcile, held, seeder
  <1>18. CASE People
    BY <1>14, <1>15, <1>16, <1>17, <1>18
    DEF People, WriteUser, WriteTeam, RemoveBackupLabel, Names
  <1>19. CASE UNCHANGED vars
    BY <1>0, <1>19 DEF FlagsOK, vars
  <1> QED
    BY <1>1, <1>2, <1>3, <1>4, <1>5, <1>6, <1>7, <1>8, <1>9, <1>10, <1>11, <1>12,
       <1>13, <1>18, <1>19
    DEF Next, Worker, Seeder, GarbageCollector

\* Every step keeps the configs, the condition of the user's and the merged config
\* well typed, and the merged config is never owned by a Search still to come.
LEMMA NextObjects == TypeOK /\ [Next]_vars => uid' \in Nat /\ ObjectsOK'
  <1> SUFFICES ASSUME TypeOK, [Next]_vars PROVE uid' \in Nat /\ ObjectsOK'
    OBVIOUS
  <1> DEFINE M == [there : BOOLEAN, owner : Nat, rules : SUBSET (Names \X Rule)]
  <1>0. /\ uid \in Nat /\ cfgs \in [Names -> Config] /\ merged \in M /\ merged.owner <= uid
        /\ applied \in {"none", "true", "false"} /\ inst \in 0 .. uid /\ owner \in 0 .. uid
    BY DEF TypeOK, ObjectsOK, WorkerOK, SeederOK
  <1>0a. ASSUME UNCHANGED <<uid, cfgs, applied, merged>> PROVE uid' \in Nat /\ ObjectsOK'
    BY <1>0, <1>0a DEF ObjectsOK
  <1>0b. ASSUME NEW n \in Names, NEW c \in Config, UNCHANGED <<uid, merged>>,
                cfgs' = cfgs \/ cfgs' = [cfgs EXCEPT ![n] = c],
                applied' \in {"none", "true", "false"}
         PROVE  uid' \in Nat /\ ObjectsOK'
    BY <1>0, <1>0b DEF ObjectsOK
  <1>1. CASE ListTeams
    BY <1>0a, <1>1 DEF ListTeams, search, objects
  <1>2. ASSUME NEW n \in Names, addBackupLabel(n) \/ LabelRefused(n), UNCHANGED <<search, applied, merged>>
        PROVE  uid' \in Nat /\ ObjectsOK'
    <2>1. Labelled(n) \in Config
      BY <1>0, ConfigTypes DEF Labelled
    <2>2. cfgs' = cfgs \/ cfgs' = [cfgs EXCEPT ![n] = Labelled(n)]
      BY <1>2 DEF addBackupLabel, LabelRefused
    <2> QED
      BY <1>0, <1>0b, <1>2, <2>1, <2>2 DEF search
  <1>3. CASE ReadUser
    BY <1>0a, <1>3 DEF ReadUser, search, objects
  <1>4. CASE updateUserCCStatus
    <2>1. applied' \in {"none", "true", "false"}
      BY <1>0, <1>4 DEF updateUserCCStatus, Applied
    <2> QED
      BY <1>0, <1>4, <2>1 DEF updateUserCCStatus, search, ObjectsOK
  <1>5. CASE WriteMerged
    <2>1. merged' \in M /\ merged'.owner <= uid
      <3>1. MergedRules \in SUBSET (Names \X Rule)
        BY MergedRulesType
      <3>2. CASE UNCHANGED merged
        BY <1>0, <3>2
      <3>3. CASE merged' = [there |-> TRUE, owner |-> inst, rules |-> MergedRules]
        BY <1>0, <3>1, <3>3
      <3>4. CASE merged' = [merged EXCEPT !.rules = MergedRules]
        BY <1>0, <3>1, <3>4
      <3> QED
        BY <1>5, <3>2, <3>3, <3>4 DEF WriteMerged
    <2> QED
      BY <1>0, <1>5, <2>1 DEF WriteMerged, search, ObjectsOK
  <1>6. CASE StartSeeding \/ EndSeeding \/ Resync \/ Crash
    BY <1>0a, <1>6 DEF StartSeeding, EndSeeding, Resync, Crash, search, objects
  <1>7. ASSUME NEW n \in Shipped, applyOneIntegrationCollectorConfig(n)
        PROVE  uid' \in Nat /\ ObjectsOK'
    <2>1. n \in Names /\ owner \in Nat
      BY <1>0 DEF Names, Teams
    <2>2. Seeded(n) \in Config
      BY <1>0, <2>1, ConfigTypes, ContentsAssumption DEF Seeded
    <2>3. cfgs' = cfgs \/ cfgs' = [cfgs EXCEPT ![n] = Seeded(n)]
      BY <1>7 DEF applyOneIntegrationCollectorConfig
    <2>4. UNCHANGED <<uid, merged, applied>>
      BY <1>7 DEF applyOneIntegrationCollectorConfig, search
    <2> QED
      BY <1>0, <1>0b, <2>1, <2>2, <2>3, <2>4
  <1>8. CASE CollectMerged
    BY <1>0, <1>8 DEF CollectMerged, NotMerged, search, ObjectsOK
  <1>9. ASSUME NEW n \in Names, CollectConfig(n) \/ DeleteConfig(n) PROVE uid' \in Nat /\ ObjectsOK'
    <2>1. NoConfig \in Config
      BY DEF NoConfig, Config
    <2>2. cfgs' = [cfgs EXCEPT ![n] = NoConfig] /\ UNCHANGED <<uid, merged, applied>>
      BY <1>9 DEF CollectConfig, DeleteConfig, search
    <2> QED
      BY <1>0, <1>0b, <2>1, <2>2
  <1>10. ASSUME NEW who, NEW n \in Names, NEW c \in Config, Write(who, n, c)
         PROVE  uid' \in Nat /\ ObjectsOK'
    <2>1. /\ cfgs' = [cfgs EXCEPT ![n] = c] /\ UNCHANGED <<uid, merged>>
          /\ applied' \in {"none", "true", "false"}
      BY <1>0, <1>10 DEF Write, search
    <2> QED
      BY <1>0b, <2>1
  <1>11. ASSUME NEW n \in Names, RemoveBackupLabel(n) PROVE uid' \in Nat /\ ObjectsOK'
    <2>1. [cfgs[n] EXCEPT !.backup = FALSE] \in Config
      BY <1>0, ConfigTypes
    <2> QED
      BY <1>10, <1>11, <2>1 DEF RemoveBackupLabel
  <1>12. ASSUME NEW s \in Contents, WriteUser(s) PROVE uid' \in Nat /\ ObjectsOK'
    <2>1. [cfgs[User] EXCEPT !.there = TRUE, !.rules = s] \in Config /\ User \in Names
      BY <1>0, ConfigTypes, ContentsAssumption DEF Names
    <2> QED
      BY <1>10, <1>12, <2>1 DEF WriteUser
  <1>13. ASSUME NEW who, NEW n \in Teams, NEW s \in Contents, NEW o \in BOOLEAN,
                WriteTeam(who, n, s, o)
         PROVE  uid' \in Nat /\ ObjectsOK'
    <2>1. n \in Names /\ s \in SUBSET Rule /\ cfgs[n] \in Config
      BY <1>0, ContentsAssumption DEF Names
    <2>2. [cfgs[n] EXCEPT !.there = TRUE, !.team = TRUE, !.override = o, !.rules = s]
            \in Config
      BY <2>1, ConfigTypes
    <2> QED
      BY <1>10, <1>13, <2>1, <2>2 DEF WriteTeam
  <1>14. CASE PauseSearch
    BY <1>0a, <1>14 DEF PauseSearch, objects
  <1>15. CASE ReplaceSearch
    <2>1. uid' \in Nat /\ uid <= uid' /\ UNCHANGED <<cfgs, applied, merged>>
      BY <1>0, <1>15 DEF ReplaceSearch, objects
    <2> QED
      BY <1>0, <2>1 DEF ObjectsOK
  <1>16. CASE UNCHANGED vars
    BY <1>0a, <1>16 DEF vars
  <1>17. CASE Worker
    <2>1. ASSUME NEW n \in Teams, LabelTeam(n) PROVE uid' \in Nat /\ ObjectsOK'
      BY <1>2, <2>1 DEF LabelTeam, Names
    <2>2. CASE LabelUser
      BY <1>2, <2>2 DEF LabelUser, Names
    <2> QED
      BY <1>1, <1>3, <1>4, <1>5, <1>17, <2>1, <2>2 DEF Worker
  <1>18. CASE People
    BY <1>9, <1>11, <1>12, <1>13, <1>14, <1>15, <1>18 DEF People
  <1> QED
    BY <1>6, <1>7, <1>8, <1>9, <1>16, <1>17, <1>18 DEF Next, Seeder, GarbageCollector

\* Every step keeps what the worker and the seeder hold well typed.
LEMMA NextWorker == TypeOK /\ [Next]_vars => WorkerOK' /\ SeederOK'
  <1> SUFFICES ASSUME TypeOK, [Next]_vars PROVE WorkerOK' /\ SeederOK'
    OBVIOUS
  <1>0. uid \in Nat /\ uid' \in Nat /\ WorkerOK /\ SeederOK /\ ObjectsOK
    BY NextObjects DEF TypeOK
  <1>0a. ASSUME UNCHANGED <<uid, seeding, owner, left>> PROVE SeederOK'
    BY <1>0, <1>0a DEF SeederOK
  <1>0b. ASSUME UNCHANGED <<uid, pc, inst, todo, items, teamRules, userRules, dropped>>,
                moved' \subseteq Names
         PROVE  WorkerOK'
    BY <1>0, <1>0b DEF WorkerOK
  <1>0c. ASSUME Rest PROVE WorkerOK'
    BY <1>0, <1>0c DEF WorkerOK, Rest, NoRules
  <1>0d. moved \subseteq Names
    BY <1>0 DEF WorkerOK
  <1>1. CASE ListTeams
    <2>1. SeederOK'
      BY <1>0a, <1>1 DEF ListTeams, search, seeder
    <2>2. CASE Rest
      BY <1>0c, <2>1, <2>2
    <2>3. CASE ~Rest
      <3>1. /\ items' = TeamRulesNow /\ teamRules' = TeamRulesNow
            /\ todo' \subseteq Teams /\ pc' = "labels" /\ inst' = uid
            /\ UNCHANGED <<uid, userRules, dropped, moved>>
        BY <1>1, <2>3 DEF ListTeams, Listed, Fail, search
      <3> QED
        BY <1>0, <2>1, <3>1, ListedType DEF WorkerOK
    <2> QED
      BY <2>2, <2>3
  <1>2. ASSUME NEW n \in Teams, LabelTeam(n) PROVE WorkerOK' /\ SeederOK'
    <2>1. SeederOK'
      BY <1>0a, <1>2 DEF LabelTeam, search, seeder
    <2>2. CASE Rest
      BY <1>0c, <2>1, <2>2
    <2>3. CASE ~Rest
      <3>1. /\ todo' = todo \ {n}
            /\ UNCHANGED <<uid, pc, inst, userRules, dropped, moved>>
        BY <1>2, <2>3 DEF LabelTeam, LabelRefused, Fail, search
      <3>2. PICK a \in Answer(items[n], cfgs[n].rules) : items' = [items EXCEPT ![n] = a]
        BY <1>2, <2>3 DEF LabelTeam, LabelRefused, Fail
      <3>3. PICK d \in Decoded(teamRules[n], items[n], cfgs[n].rules) :
              teamRules' = [teamRules EXCEPT ![n] = d]
        BY <1>2, <2>3 DEF LabelTeam, LabelRefused, Fail
      <3>4. /\ items[n] \in SUBSET Rule /\ teamRules[n] \in SUBSET Rule
            /\ cfgs[n].rules \in SUBSET Rule
        BY <1>0 DEF WorkerOK, ObjectsOK, Names, Config
      <3>5. a \in SUBSET Rule /\ d \in SUBSET Rule
        BY <3>2, <3>3, <3>4, AnswerType, DecodedType
      <3>6. items' \in [Teams -> SUBSET Rule] /\ teamRules' \in [Teams -> SUBSET Rule]
        BY <1>0, <3>2, <3>3, <3>5 DEF WorkerOK
      <3> QED
        BY <1>0, <2>1, <3>1, <3>6 DEF WorkerOK
    <2> QED
      BY <2>2, <2>3
  <1>3. CASE ReadUser
    <2>1. SeederOK'
      BY <1>0a, <1>3 DEF ReadUser, search, seeder
    <2>2. CASE Rest
      BY <1>0c, <2>1, <2>2
    <2>3. CASE ~Rest
      <3>1. /\ pc' \in {"userStatus", "userLabel", "write"}
            /\ \/ /\ userRules' \in SUBSET cfgs[User].rules
                  /\ dropped' \in SUBSET cfgs[User].rules
               \/ UNCHANGED <<userRules, dropped>>
            /\ UNCHANGED <<uid, inst, todo, items, teamRules, moved>>
        BY <1>3, <2>3 DEF ReadUser, Droppable, Goto, Fail, search
      <3>2. cfgs[User].rules \subseteq Rule
        BY <1>0 DEF ObjectsOK, Names, Config
      <3> QED
        BY <1>0, <2>1, <3>1, <3>2 DEF WorkerOK
    <2> QED
      BY <2>2, <2>3
  <1>4. CASE LabelUser
    <2>1. SeederOK'
      BY <1>0a, <1>4 DEF LabelUser, search, seeder
    <2>2. CASE Rest
      BY <1>0c, <2>1, <2>2
    <2>3. CASE ~Rest
      <3>1. /\ pc' = "userStatus"
            /\ userRules' \in Decoded(userRules, userRules \cup dropped, cfgs[User].rules)
            /\ UNCHANGED <<uid, inst, todo, items, teamRules, dropped, moved>>
        BY <1>4, <2>3 DEF LabelUser, LabelRefused, Fail, search
      <3>2. /\ userRules \in SUBSET Rule /\ userRules \cup dropped \in SUBSET Rule
            /\ cfgs[User].rules \in SUBSET Rule
        BY <1>0 DEF WorkerOK, ObjectsOK, Names, Config
      <3>3. userRules' \in SUBSET Rule
        BY <3>1, <3>2, DecodedType
      <3> QED
        BY <1>0, <2>1, <3>1, <3>3 DEF WorkerOK
    <2> QED
      BY <2>2, <2>3
  <1>5. CASE updateUserCCStatus
    <2>1. /\ pc' = "write"
          /\ UNCHANGED <<uid, inst, todo, items, teamRules, userRules, dropped, moved,
                         seeding, owner, left>>
      BY <1>5 DEF updateUserCCStatus, search, seeder
    <2> QED
      BY <1>0, <1>0a, <2>1 DEF WorkerOK
  <1>6. CASE WriteMerged
    <2>1. Rest /\ UNCHANGED <<uid, seeding, owner, left>>
      BY <1>6 DEF WriteMerged, Return, Fail, search, seeder
    <2> QED
      BY <1>0a, <1>0c, <2>1
  <1>7. CASE StartSeeding
    <2>1. WorkerOK'
      BY <1>0b, <1>0d, <1>7 DEF StartSeeding, reconcile, held, search
    <2>2. seeding' = "applying" /\ owner' = uid /\ left' = Shipped /\ uid' = uid
      BY <1>7 DEF StartSeeding, search
    <2> QED
      BY <1>0, <2>1, <2>2 DEF SeederOK
  <1>8. CASE EndSeeding
    <2>1. WorkerOK'
      BY <1>0b, <1>0d, <1>8 DEF EndSeeding, reconcile, held, search
    <2>2. seeding' \in {"waiting", "done"} /\ owner' = 0 /\ left' = left /\ uid' = uid
      BY <1>8 DEF EndSeeding, search
    <2> QED
      BY <1>0, <2>1, <2>2 DEF SeederOK
  <1>9. ASSUME NEW n \in Shipped, applyOneIntegrationCollectorConfig(n)
        PROVE  WorkerOK' /\ SeederOK'
    <2>1. WorkerOK'
      <3>1. moved' \subseteq Names
        BY <1>0d, <1>9, ChangedType DEF applyOneIntegrationCollectorConfig, Names, Teams
      <3> QED
        BY <1>0b, <1>9, <3>1 DEF applyOneIntegrationCollectorConfig, held, search
    <2>2. left' = left \ {n} /\ UNCHANGED <<seeding, owner, uid>>
      BY <1>9 DEF applyOneIntegrationCollectorConfig, search
    <2> QED
      BY <1>0, <2>1, <2>2 DEF SeederOK
  <1>10. CASE Resync \/ CollectMerged \/ PauseSearch
    BY <1>0a, <1>0b, <1>0d, <1>10
    DEF Resync, CollectMerged, PauseSearch, search, reconcile, held, seeder
  <1>11. CASE Crash
    <2>1. Rest /\ seeding' = "waiting" /\ owner' = 0 /\ left' = {} /\ uid' = uid
      BY <1>11 DEF Crash, Fail, search
    <2> QED
      BY <1>0, <1>0c, <2>1 DEF SeederOK
  <1>12. ASSUME NEW n \in Names, CollectConfig(n) \/ DeleteConfig(n)
         PROVE  WorkerOK' /\ SeederOK'
    <2>1. moved' \subseteq Names
      BY <1>0d, <1>12, ChangedType DEF CollectConfig, DeleteConfig
    <2> QED
      BY <1>0a, <1>0b, <1>12, <2>1 DEF CollectConfig, DeleteConfig, search, held, seeder
  <1>13. ASSUME NEW who, NEW n \in Names, NEW c, Write(who, n, c)
         PROVE  WorkerOK' /\ SeederOK'
    <2>1. moved' \subseteq Names
      BY <1>0d, <1>13, ChangedType DEF Write
    <2> QED
      BY <1>0a, <1>0b, <1>13, <2>1 DEF Write, search, seeder
  <1>14. CASE ReplaceSearch
    <2>1. uid <= uid' /\ UNCHANGED <<reconcile, seeder>>
      BY <1>0, <1>14 DEF ReplaceSearch
    <2> QED
      BY <1>0, <2>1 DEF WorkerOK, SeederOK, reconcile, held, seeder
  <1>15. CASE UNCHANGED vars
    BY <1>0a, <1>0b, <1>0d, <1>15 DEF vars
  <1>16. CASE People
    BY <1>10, <1>12, <1>13, <1>14, <1>16
    DEF People, WriteUser, WriteTeam, RemoveBackupLabel, Names
  <1> QED
    BY <1>1, <1>2, <1>3, <1>4, <1>5, <1>6, <1>7, <1>8, <1>9, <1>10, <1>11, <1>12, <1>15, <1>16
    DEF Next, Worker, Seeder, GarbageCollector

\* Every step keeps the state well typed.
LEMMA NextType == TypeOK /\ [Next]_vars => TypeOK'
  BY NextFlags, NextObjects, NextWorker DEF TypeOK

\* Whatever the configs, the edits and the failures, the state of the merge and of
\* the seeder stays well typed, and nobody acts for a Search that is still to come.
THEOREM TypeCorrect == Spec => []TypeOK
  BY InitType, NextType, PTL DEF Spec

-----------------------------------------------------------------------------
(* The include rules of the teams win.                                     *)

LEMMA InitAgrees == Init => IInv
  <1> SUFFICES ASSUME Init PROVE IInv
    OBVIOUS
  <1>1. /\ items = NoRules /\ teamRules = NoRules /\ todo = {} /\ userRules = {}
        /\ pc = "idle"
    BY DEF Init
  <1> QED
    BY <1>1, InitType DEF IInv, TeamsAgree, UserAgrees, UserDropped, Droppable

\* Whoever else writes a config, what the worker holds still agrees with it, or
\* the change is recorded.
LEMMA OthersAgree ==
  ASSUME IInv, UNCHANGED <<pc, todo, items, teamRules, userRules, dropped>>,
         \/ UNCHANGED <<cfgs, moved>>
         \/ \E n \in Names, c \in Config : cfgs' = [cfgs EXCEPT ![n] = c] /\ Changed(n, c)
  PROVE  TeamsAgree' /\ UserAgrees' /\ UserDropped'
  <1>0. /\ cfgs \in [Names -> Config] /\ todo \subseteq Teams
        /\ TeamsAgree /\ UserAgrees /\ UserDropped
    BY DEF IInv, TypeOK, ObjectsOK, WorkerOK
  <1>1. moved \subseteq moved'
    BY DEF Changed
  <1>2. ASSUME NEW m \in Names, m \in Pending, m \notin moved'
        PROVE  cfgs'[m].rules = cfgs[m].rules
    <2>1. ASSUME NEW n \in Names, NEW c \in Config,
                 cfgs' = [cfgs EXCEPT ![n] = c], Changed(n, c)
          PROVE  cfgs'[m].rules = cfgs[m].rules
      <3>1. CASE n = m
        BY <1>0, <1>2, <2>1, <3>1 DEF Changed
      <3>2. CASE n # m
        BY <1>0, <2>1, <3>2
      <3> QED
        BY <3>1, <3>2
    <2> QED
      BY <2>1
  <1>3. TeamsAgree'
    <2>1. \A n \in todo \ moved' : cfgs'[n].rules = items[n]
      BY <1>0, <1>1, <1>2 DEF Pending, Names, TeamsAgree
    <2> QED
      BY <1>0, <1>1, <2>1 DEF TeamsAgree
  <1>4. UserAgrees'
    BY <1>0, <1>1, <1>2 DEF Pending, Names, UserAgrees
  <1>5. UserDropped'
    BY <1>0, <1>1 DEF UserDropped, Droppable, excludeOverlapsIntegrationIncludes
  <1> QED
    BY <1>3, <1>4, <1>5

\* A reconcile that ends holds nothing.
LEMMA RestAgrees ==
  ASSUME Rest
  PROVE  TeamsAgree' /\ UserAgrees' /\ UserDropped'
  BY DEF Rest, TeamsAgree, UserAgrees, UserDropped, Droppable

\* The List reads all teams' configs at once.
LEMMA ListAgrees ==
  ASSUME IInv, ListTeams
  PROVE  TeamsAgree' /\ UserAgrees' /\ UserDropped'
  <1>1. CASE Rest
    BY <1>1, RestAgrees
  <1>2. CASE ~Rest
    <2>1. /\ items' = TeamRulesNow /\ teamRules' = TeamRulesNow /\ pc' = "labels"
          /\ todo' \subseteq Listed /\ userRules' = {} /\ cfgs' = cfgs
      BY <1>2 DEF ListTeams, Fail, IInv, UserDropped, objects
    <2>2. \A n \in todo' : cfgs[n].rules = TeamRulesNow[n]
      BY <2>1 DEF TeamRulesNow, Listed
    <2> QED
      BY <2>1, <2>2 DEF TeamsAgree, UserAgrees, UserDropped, Droppable
  <1> QED
    BY <1>1, <1>2

\* The answer to the patch of a team's config that nobody changed is what was
\* listed, and writes nothing over mergedSpec.
LEMMA LabelTeamAgrees ==
  ASSUME IInv, NEW n \in Teams, LabelTeam(n)
  PROVE  TeamsAgree' /\ UserAgrees' /\ UserDropped'
  <1>1. CASE Rest
    BY <1>1, RestAgrees
  <1>2. CASE ~Rest
    <2>1. /\ n \in todo /\ todo' = todo \ {n} /\ pc = "labels"
          /\ cfgs' = [cfgs EXCEPT ![n] = Labelled(n)]
          /\ UNCHANGED <<pc, userRules, moved>>
      BY <1>2 DEF LabelTeam, addBackupLabel, LabelRefused, Fail
    <2>2. PICK a \in Answer(items[n], cfgs[n].rules) : items' = [items EXCEPT ![n] = a]
      BY <1>2 DEF LabelTeam, LabelRefused, Fail
    <2>3. PICK d \in Decoded(teamRules[n], items[n], cfgs[n].rules) :
            teamRules' = [teamRules EXCEPT ![n] = d]
      BY <1>2 DEF LabelTeam, LabelRefused, Fail
    <2>4. /\ items \in [Teams -> SUBSET Rule] /\ teamRules \in [Teams -> SUBSET Rule]
          /\ cfgs \in [Names -> Config] /\ n \in Names /\ todo \subseteq Teams
          /\ TeamsAgree /\ UserDropped
      BY DEF IInv, TypeOK, WorkerOK, ObjectsOK, Names
    <2>5. n \notin moved => d = a
      <3>1. cfgs[n].rules \in SUBSET Rule
        BY <2>4 DEF Config
      <3>2. ASSUME n \notin moved PROVE cfgs[n].rules = items[n] /\ teamRules[n] = items[n]
        BY <2>1, <2>4, <3>2 DEF TeamsAgree
      <3>3. cfgs[n].rules = items[n] => a = items[n] /\ d = teamRules[n]
        BY <2>2, <2>3, <2>4, <3>1, AnswerType, DecodedType
      <3> QED
        BY <3>2, <3>3
    <2>6. \A m \in Teams \ moved : teamRules'[m] = items'[m]
      BY <2>2, <2>3, <2>4, <2>5 DEF TeamsAgree
    <2>7. \A m \in todo' \ moved : cfgs'[m].rules = items'[m]
      <3> SUFFICES ASSUME NEW m \in todo' \ moved PROVE cfgs'[m].rules = items'[m]
        OBVIOUS
      <3>1. m \in Teams /\ m \in Names /\ m # n /\ m \in todo \ moved
        BY <2>1, <2>4 DEF Names
      <3>2. cfgs'[m] = cfgs[m] /\ items'[m] = items[m]
        BY <2>1, <2>2, <2>4, <3>1
      <3> QED
        BY <2>4, <3>1, <3>2 DEF TeamsAgree
    <2> QED
      BY <2>1, <2>4, <2>6, <2>7 DEF TeamsAgree, UserAgrees, UserDropped, Droppable
  <1> QED
    BY <1>1, <1>2

\* The rules of the user that are kept overlap no include of the listed configs.
LEMMA ReadUserAgrees ==
  ASSUME IInv, ReadUser
  PROVE  TeamsAgree' /\ UserAgrees' /\ UserDropped'
  <1> DEFINE rs == cfgs[User].rules
  <1>0. TeamsAgree /\ UserAgrees /\ UserDropped /\ cfgs' = cfgs
    BY DEF IInv, ReadUser, objects
  <1>1. CASE Rest
    BY <1>1, RestAgrees
  <1>2. CASE /\ userRules' = rs \ Droppable(rs, items) /\ dropped' = Droppable(rs, items)
             /\ pc' \notin {"idle", "labels"}
             /\ UNCHANGED <<todo, items, teamRules, moved>>
    <2>1. rs = userRules' \cup dropped'
      BY <1>2 DEF Droppable
    <2>2. Droppable(rs \ Droppable(rs, items), items) = {}
      BY DEF Droppable
    <2>3. Droppable(userRules', items') = {}
      BY <1>2, <2>2
    <2>4. Droppable(userRules, items)' = Droppable(userRules', items')
      BY DEF Droppable, excludeOverlapsIntegrationIncludes
    <2> QED
      BY <1>0, <1>2, <2>1, <2>3, <2>4 DEF TeamsAgree, UserAgrees, UserDropped
  <1>3. CASE pc' = "write" /\ UNCHANGED <<todo, items, teamRules, userRules, dropped, moved>>
    BY <1>0, <1>3
    DEF TeamsAgree, UserAgrees, UserDropped, Droppable, excludeOverlapsIntegrationIncludes
  <1> QED
    BY <1>1, <1>2, <1>3 DEF ReadUser, Goto, Fail

\* The answer to the patch of a user's config that nobody changed writes nothing
\* over the user's rules in mergedSpec.
LEMMA LabelUserAgrees ==
  ASSUME IInv, LabelUser
  PROVE  TeamsAgree' /\ UserAgrees' /\ UserDropped'
  <1>1. CASE Rest
    BY <1>1, RestAgrees
  <1>2. CASE ~Rest
    <2>1. /\ pc = "userLabel" /\ pc' = "userStatus"
          /\ cfgs' = [cfgs EXCEPT ![User] = Labelled(User)]
          /\ userRules' \in Decoded(userRules, userRules \cup dropped, cfgs[User].rules)
          /\ UNCHANGED <<todo, items, teamRules, moved>>
      BY <1>2 DEF LabelUser, addBackupLabel, LabelRefused, Fail
    <2>2. /\ cfgs \in [Names -> Config] /\ User \in Names /\ todo \subseteq Teams
          /\ userRules \in SUBSET Rule /\ dropped \in SUBSET Rule
          /\ TeamsAgree /\ UserAgrees /\ UserDropped
      BY DEF IInv, TypeOK, WorkerOK, ObjectsOK, Names
    <2>3. User \notin moved => userRules' = userRules
      <3>1. cfgs[User].rules \in SUBSET Rule /\ userRules \cup dropped \in SUBSET Rule
        BY <2>2 DEF Config
      <3>2. User \notin moved => cfgs[User].rules = userRules \cup dropped
        BY <2>1, <2>2 DEF UserAgrees
      <3> QED
        BY <2>1, <2>2, <3>1, <3>2, DecodedType
    <2>4. \A n \in todo : cfgs'[n] = cfgs[n]
      BY <2>1, <2>2, NamesAssumption DEF Names
    <2>5. User \notin moved' => Droppable(userRules', items') = {}
      BY <2>1, <2>2, <2>3 DEF UserDropped
    <2>6. Droppable(userRules, items)' = Droppable(userRules', items')
      BY DEF Droppable, excludeOverlapsIntegrationIncludes
    <2> QED
      BY <2>1, <2>2, <2>4, <2>5, <2>6 DEF TeamsAgree, UserAgrees, UserDropped
  <1> QED
    BY <1>1, <1>2

\* Every step keeps the worker in agreement with the configs nobody changed under
\* its patch.
LEMMA NextAgrees == IInv /\ [Next]_vars => IInv'
  <1> SUFFICES ASSUME IInv, [Next]_vars PROVE IInv'
    OBVIOUS
  <1> DEFINE Agree == TeamsAgree /\ UserAgrees /\ UserDropped
  <1> SUFFICES Agree'
    BY NextType DEF IInv
  <1>0. TypeOK /\ cfgs \in [Names -> Config] /\ owner \in Nat
    BY DEF IInv, TypeOK, ObjectsOK, SeederOK
  <1>1. CASE ListTeams
    BY <1>1, ListAgrees
  <1>2. ASSUME NEW n \in Teams, LabelTeam(n) PROVE Agree'
    BY <1>2, LabelTeamAgrees
  <1>3. CASE ReadUser
    BY <1>3, ReadUserAgrees
  <1>4. CASE LabelUser
    BY <1>4, LabelUserAgrees
  <1>5. CASE updateUserCCStatus
    <2>1. IInv /\ pc = "userStatus" /\ pc' = "write"
          /\ UNCHANGED <<cfgs, todo, items, teamRules, userRules, dropped, moved>>
      BY <1>5 DEF updateUserCCStatus
    <2> QED
      BY <2>1
      DEF IInv, TeamsAgree, UserAgrees, UserDropped, Droppable, excludeOverlapsIntegrationIncludes
  <1>6. CASE WriteMerged \/ Crash
    BY <1>6, RestAgrees DEF WriteMerged, Crash, Return, Fail
  <1>7. CASE StartSeeding \/ EndSeeding \/ Resync \/ CollectMerged \/ PauseSearch \/ ReplaceSearch
    BY <1>7, OthersAgree
    DEF StartSeeding, EndSeeding, Resync, CollectMerged, PauseSearch, ReplaceSearch, reconcile,
        held, objects
  <1>8. ASSUME NEW n \in Shipped, applyOneIntegrationCollectorConfig(n) PROVE Agree'
    <2>1. n \in Names
      BY DEF Names, Teams
    <2>2. Seeded(n) \in Config
      BY <1>0, <2>1, ConfigTypes, ContentsAssumption DEF Seeded
    <2>3. /\ UNCHANGED held
          /\ \/ UNCHANGED <<cfgs, moved>>
             \/ cfgs' = [cfgs EXCEPT ![n] = Seeded(n)] /\ Changed(n, Seeded(n))
      BY <1>8 DEF applyOneIntegrationCollectorConfig
    <2> QED
      BY <2>1, <2>2, <2>3, OthersAgree DEF held
  <1>9. ASSUME NEW n \in Names, CollectConfig(n) \/ DeleteConfig(n) PROVE Agree'
    <2>1. NoConfig \in Config
      BY DEF NoConfig, Config
    <2>2. UNCHANGED held /\ cfgs' = [cfgs EXCEPT ![n] = NoConfig] /\ Changed(n, NoConfig)
      BY <1>9 DEF CollectConfig, DeleteConfig
    <2> QED
      BY <2>1, <2>2, OthersAgree DEF held
  <1>10. ASSUME NEW who, NEW n \in Names, NEW c \in Config, Write(who, n, c) PROVE Agree'
    BY <1>10, OthersAgree DEF Write
  <1>11. ASSUME NEW n \in Names, RemoveBackupLabel(n) PROVE Agree'
    <2>1. [cfgs[n] EXCEPT !.backup = FALSE] \in Config
      BY <1>0, ConfigTypes
    <2> QED
      BY <1>10, <1>11, <2>1 DEF RemoveBackupLabel
  <1>12. ASSUME NEW s \in Contents, WriteUser(s) PROVE Agree'
    <2>1. [cfgs[User] EXCEPT !.there = TRUE, !.rules = s] \in Config /\ User \in Names
      BY <1>0, ConfigTypes, ContentsAssumption DEF Names
    <2> QED
      BY <1>10, <1>12, <2>1 DEF WriteUser
  <1>13. ASSUME NEW who, NEW n \in Teams, NEW s \in Contents, NEW o \in BOOLEAN,
                WriteTeam(who, n, s, o)
         PROVE  Agree'
    <2>1. n \in Names /\ s \in SUBSET Rule /\ cfgs[n] \in Config
      BY <1>0, ContentsAssumption DEF Names
    <2>2. [cfgs[n] EXCEPT !.there = TRUE, !.team = TRUE, !.override = o, !.rules = s]
            \in Config
      BY <2>1, ConfigTypes
    <2> QED
      BY <1>10, <1>13, <2>1, <2>2 DEF WriteTeam
  <1>14. CASE People
    BY <1>7, <1>9, <1>11, <1>12, <1>13, <1>14 DEF People
  <1>15. CASE UNCHANGED vars
    BY <1>15, OthersAgree DEF vars
  <1> QED
    BY <1>1, <1>2, <1>3, <1>4, <1>5, <1>6, <1>7, <1>8, <1>9, <1>14, <1>15
    DEF Next, Worker, Seeder, GarbageCollector

\* Of the configs nobody changed under a patch, the worker holds compatible rules.
LEMMA HeldCompatible ==
  ASSUME IInv
  PROVE  Compatible({t \in MergedRules : t[1] \notin moved})
  <1> SUFFICES ASSUME NEW u \in MergedRules, NEW t \in MergedRules,
                      u[1] \notin moved, t[1] \notin moved,
                      u[1] = User, u[2].action = "exclude",
                      t[1] # User, t[2].action = "include",
                      rulesOverlap(u[2].sel, t[2].sel)
               PROVE  FALSE
    BY DEF Compatible
  <1>1. u[2] \in userRules
    BY MergedOfUser
  <1>2. t[1] \in Teams /\ t[2] \in teamRules[t[1]]
    BY MergedOfTeam
  <1>3. t[2] \in items[t[1]]
    BY <1>2 DEF IInv, TeamsAgree
  <1>4. excludeOverlapsIntegrationIncludes(u[2], items)
    BY <1>2, <1>3 DEF excludeOverlapsIntegrationIncludes
  <1>5. Droppable(userRules, items) = {}
    BY DEF IInv, UserDropped
  <1> QED
    BY <1>1, <1>4, <1>5 DEF Droppable

\* Only WriteMerged gives the merged config rules, and those it holds.
LEMMA StepTeamsWin ==
  ASSUME IInv, [Next]_vars, merged'.rules # merged.rules
  PROVE  Compatible({t \in merged'.rules : t[1] \notin moved})
  <1>1. CASE WriteMerged
    <2>1. merged \in [there : BOOLEAN, owner : Nat, rules : SUBSET (Names \X Rule)]
      BY DEF IInv, TypeOK, ObjectsOK
    <2>2. merged'.rules = MergedRules
      BY <1>1, <2>1 DEF WriteMerged
    <2> QED
      BY <2>2, HeldCompatible
  <1>2. CASE CollectMerged
    BY <1>2 DEF CollectMerged, NotMerged, Compatible
  <1>3. CASE Worker /\ ~WriteMerged
    BY <1>3 DEF Worker, ListTeams, LabelTeam, ReadUser, LabelUser, updateUserCCStatus, objects
  <1>4. CASE Seeder \/ Resync \/ Crash
    BY <1>4
    DEF Seeder, StartSeeding, EndSeeding, applyOneIntegrationCollectorConfig, Resync, Crash, objects
  <1>5. CASE People
    BY <1>5
    DEF People, WriteUser, WriteTeam, RemoveBackupLabel, Write, DeleteConfig, PauseSearch,
        ReplaceSearch, objects
  <1>6. ASSUME NEW n, CollectConfig(n) PROVE FALSE
    BY <1>6 DEF CollectConfig
  <1>7. CASE UNCHANGED vars
    BY <1>7 DEF vars
  <1> QED
    BY <1>1, <1>2, <1>3, <1>4, <1>5, <1>6, <1>7 DEF Next, GarbageCollector

\* The include rules of the teams take precedence in what the merge writes: for
\* any rules, any configs and any order of the writes of users, teams, the seeder
\* and the merge, no exclude rule of the user overlaps one of them, unless one of
\* the two configs was changed between its read and the patch of its label.
THEOREM TeamsWinWhenUndisturbed == Spec => TeamsWinUndisturbed
  <1>1. IInv /\ [Next]_vars
          => [merged'.rules # merged.rules
                => Compatible({t \in merged'.rules : t[1] \notin moved})]_vars
    BY StepTeamsWin
  <1> QED
    BY InitAgrees, NextAgrees, <1>1, PTL DEF Spec, TeamsWinUndisturbed
=============================================================================

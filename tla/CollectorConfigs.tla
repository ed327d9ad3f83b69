-------------------------- MODULE CollectorConfigs --------------------------
(***************************************************************************)
(* The CollectorConfig resources and everyone who writes them:             *)
(*  - IntegrationCollectorConfigSeeder, once per operator process;         *)
(*  - createOrUpdateMergedCollectorConfig, in every reconcile;             *)
(*  - integration teams and users, through the admission webhook, which    *)
(*    also sees the operator's own writes;                                 *)
(*  - the garbage collector, when the Search CR that owns one is gone.     *)
(*                                                                         *)
(* A config's content is its set of rules; collectNamespaces, which the    *)
(* merge copies from the user's config, is left out.                       *)
(***************************************************************************)
EXTENDS CollectionRules, Integers

CONSTANTS Shipped,    \* names of the embedded integration configs
          Custom,     \* other names integration teams use
          Default,    \* the rules each shipped config is seeded with
          Contents,   \* the sets of rules people write
          MaxFaults,  \* bound on failing API calls and crashes
          MaxEdits    \* bound on what others do

Teams == Shipped \cup Custom
User == "user-collector-config"
Names == Teams \cup {User}
ASSUME NamesAssumption == User \notin Teams
ASSUME ContentsAssumption == Default \subseteq Rule /\ Contents \subseteq SUBSET Rule

\* owner is the uid of the owning Search, 0 for none; team and backup are
\* labels, override the manual-override annotation.
Config == [there : BOOLEAN, owner : Nat, team : BOOLEAN, backup : BOOLEAN,
           override : BOOLEAN, rules : SUBSET Rule]
NoConfig == [there |-> FALSE, owner |-> 0, team |-> FALSE, backup |-> FALSE,
             override |-> FALSE, rules |-> {}]

VARIABLES uid, exists, paused,  \* the Search CR
          cfgs,                 \* the source configs
          applied,              \* the Applied condition of the user's config
          merged,               \* merged-collector-config
          pc, inst, todo, current, \* reconcile, and what it holds in memory:
          items, teamRules,     \* the listed configs, and mergedSpec so far
          userRules, dropped,   \* the user's rules: in mergedSpec, set aside
          moved,                \* history: configs changed under a pending patch
          seeding, owner, left, failed, \* the seeder
          queued, faults, edits

search == <<uid, exists, paused>>
objects == <<cfgs, applied, merged>>
held == <<pc, inst, todo, current, items, teamRules, userRules, dropped>>
reconcile == <<held, moved>>
seeder == <<seeding, owner, left, failed>>
vars == <<uid, exists, paused, cfgs, applied, merged, pc, inst, todo, current,
          items, teamRules, userRules, dropped, moved, seeding, owner, left,
          failed, queued, faults, edits>>

Active == exists /\ ~paused

FlagsOK ==
  /\ exists \in BOOLEAN /\ paused \in BOOLEAN /\ queued \in BOOLEAN
  /\ current \in BOOLEAN /\ failed \in BOOLEAN

WorkerOK ==
  /\ pc \in {"idle", "labels", "userLabel", "userStatus", "write"}
  /\ inst \in 0 .. uid
  /\ items \in [Teams -> SUBSET Rule] /\ teamRules \in [Teams -> SUBSET Rule]
  /\ userRules \subseteq Rule /\ dropped \subseteq Rule
  /\ todo \subseteq Teams /\ moved \subseteq Names

ObjectsOK ==
  /\ cfgs \in [Names -> Config] /\ applied \in {"none", "true", "false"}
  /\ merged \in [there : BOOLEAN, owner : Nat, rules : SUBSET (Names \X Rule)]
  /\ merged.owner <= uid

SeederOK ==
  /\ seeding \in {"waiting", "applying", "done"}
  /\ owner \in 0 .. uid /\ left \subseteq Shipped

TypeOK == uid \in Nat /\ FlagsOK /\ ObjectsOK /\ WorkerOK /\ SeederOK

NoRules == [n \in Teams |-> {}]
NotMerged == [there |-> FALSE, owner |-> 0, rules |-> {}]

\* A fresh install, or an upgrade of one whose user already has a config.
Init ==
  /\ uid = 1 /\ exists = TRUE /\ paused = FALSE
  /\ \E c \in {NoConfig} \cup {[NoConfig EXCEPT !.there = TRUE, !.rules = s] :
                                s \in Contents} :
        cfgs = [n \in Names |-> IF n = User THEN c ELSE NoConfig]
  /\ applied = "none" /\ merged = NotMerged
  /\ pc = "idle" /\ inst = 0 /\ todo = {} /\ current = FALSE
  /\ items = NoRules /\ teamRules = NoRules
  /\ userRules = {} /\ dropped = {} /\ moved = {}
  /\ seeding = "waiting" /\ owner = 0 /\ left = {} /\ failed = FALSE
  /\ queued = TRUE /\ faults = 0 /\ edits = 0

Fault == faults < MaxFaults /\ faults' = faults + 1
NoFault == UNCHANGED faults

-----------------------------------------------------------------------------
(* Admission.                                                              *)

\* Who asks: "human", "sa" (a service account of the namespace, the operator's
\* among them) or "gc".  An owned config may be changed by the second only, and
\* deleted by the third.
rejectIfProtected(who, c, op) ==
  c.owner # 0 /\ who # "sa" /\ ~(who = "gc" /\ op = "DELETE")

Includes(cs) == {r \in UNION {cs[n].rules : n \in {m \in DOMAIN cs :
                                cs[m].there /\ cs[m].team}} : r.action = "include"}

\* An exclude rule of a config without the team label must not overlap an
\* include rule of one with it.
validateExcludeAgainstIntegrationConfigs(rules, isTeam) ==
  \/ isTeam
  \/ \A r \in rules : r.action = "exclude" =>
        \A i \in Includes(cfgs) : ~rulesOverlap(r.sel, i.sel)

\* Everything but the overlap check, which is skipped when its List fails.
Checked(who, old, new, op) ==
  /\ ~rejectIfProtected(who, new, op) /\ ~rejectIfProtected(who, old, op)
  /\ \A r \in new.rules : validateRule(r)
Admissible(who, old, new, op) ==
  /\ Checked(who, old, new, op)
  /\ validateExcludeAgainstIntegrationConfigs(new.rules, new.team)
Admit(who, old, new, op) ==
  \/ Admissible(who, old, new, op) /\ NoFault
  \/ Checked(who, old, new, op) /\ Fault

-----------------------------------------------------------------------------
(* createOrUpdateMergedCollectorConfig.                                    *)

Rest == /\ pc' = "idle" /\ inst' = 0 /\ todo' = {} /\ current' = FALSE
        /\ items' = NoRules /\ teamRules' = NoRules
        /\ userRules' = {} /\ dropped' = {} /\ moved' = {}
Fail == Rest /\ queued' = TRUE
Return == Rest /\ UNCHANGED queued
Goto(p) == pc' = p /\ UNCHANGED queued

\* What a List of the integration configs finds.
Listed == {n \in Teams : cfgs[n].there /\ cfgs[n].team}
TeamRulesNow == [n \in Teams |-> IF n \in Listed THEN cfgs[n].rules ELSE {}]

\* A reconcile gets as far as the List; mergedSpec takes every rule listed.
ListTeams ==
  /\ pc = "idle" /\ queued
  /\ IF Active
     THEN \/ /\ items' = TeamRulesNow /\ teamRules' = TeamRulesNow
             /\ todo' = {n \in Listed : ~cfgs[n].backup}
             /\ pc' = "labels" /\ inst' = uid /\ queued' = FALSE /\ NoFault
             /\ UNCHANGED <<userRules, dropped, current, moved>>
          \/ Fault /\ Fail
     ELSE Rest /\ queued' = FALSE /\ NoFault
  /\ UNCHANGED <<search, objects, seeder, edits>>

\* Configs whose label is still to be patched, and a change under that patch.
Pending == todo \cup (IF pc = "userLabel" THEN {User} ELSE {})
Changed(n, c) ==
  moved' = IF n \in Pending /\ cfgs[n].rules # c.rules THEN moved \cup {n} ELSE moved

\* The response to a patch is decoded into the config that was read: new rules
\* take the place of the old ones, no rules at all may be left out of the
\* response and leave the old ones.
Answer(read, new) == IF new = {} THEN {read, {}} ELSE {new}

\* The rules that mergedSpec holds were copied before, but share the lists of
\* their selectors with the config, and the decoder writes into these when the
\* new ones fit: a rule keeps its action and may get the groups or the kinds of
\* another.  (Left out: lists that fit in part, rules that only changed places.)
Overwritten(r, new) ==
  {[r EXCEPT !.sel = [apiGroups |-> g.sel.apiGroups, kinds |-> k.sel.kinds]] :
     g \in {r} \cup new, k \in {r} \cup new}
Decoded(rules, read, new) ==
  IF new = read THEN {rules}
  ELSE {{f[r] : r \in rules} :
          f \in {g \in [rules -> UNION {Overwritten(r, new) : r \in rules}] :
                   \A r \in rules : g[r] \in Overwritten(r, new)}}

\* addBackupLabel: a patch, which the webhook validates like any update.
Labelled(n) == [cfgs[n] EXCEPT !.backup = TRUE]
addBackupLabel(n) ==
  /\ cfgs[n].there /\ Admit("sa", cfgs[n], Labelled(n), "UPDATE")
  /\ cfgs' = [cfgs EXCEPT ![n] = Labelled(n)]
  /\ queued' = TRUE
LabelRefused(n) ==
  /\ \/ Fault
     \/ /\ ~(cfgs[n].there /\ Admissible("sa", cfgs[n], Labelled(n), "UPDATE"))
        /\ NoFault
  /\ Fail /\ UNCHANGED cfgs

LabelTeam(n) ==
  /\ pc = "labels" /\ n \in todo
  /\ \/ /\ addBackupLabel(n) /\ todo' = todo \ {n}
        /\ \E a \in Answer(items[n], cfgs[n].rules) : items' = [items EXCEPT ![n] = a]
        /\ \E d \in Decoded(teamRules[n], items[n], cfgs[n].rules) :
              teamRules' = [teamRules EXCEPT ![n] = d]
        /\ UNCHANGED <<pc, inst, userRules, dropped, current, moved>>
     \/ LabelRefused(n)
  /\ UNCHANGED <<search, applied, merged, seeder, edits>>

\* excludeOverlapsIntegrationIncludes: the team wins.
OverlapsExactRule(r, ts) ==     \* mutant: equal selectors only
  \E n \in Teams : \E i \in ts[n] : i.action = "include" /\ r.sel = i.sel
excludeOverlapsIntegrationIncludes(r, ts) ==
  \E n \in Teams : \E i \in ts[n] : i.action = "include" /\ rulesOverlap(r.sel, i.sel)
Droppable(rules, ts) ==
  {r \in rules : r.action = "exclude" /\ excludeOverlapsIntegrationIncludes(r, ts)}

\* Get the user's config and set aside the rules that are dropped: those that
\* overlap the listed configs as they are in memory now.
ReadUser ==
  /\ pc = "labels" /\ todo = {}
  /\ LET d == Droppable(cfgs[User].rules, items)
     IN \/ /\ cfgs[User].there /\ NoFault
           /\ userRules' = cfgs[User].rules \ d /\ dropped' = d
           /\ current' = TRUE
           /\ Goto(IF cfgs[User].backup THEN "userStatus" ELSE "userLabel")
           /\ UNCHANGED <<inst, todo, items, teamRules, moved>>
        \/ /\ ~cfgs[User].there /\ NoFault /\ Goto("write")
           /\ UNCHANGED <<inst, todo, current, items, teamRules, userRules,
                          dropped, moved>>
        \/ Fault /\ Fail
  /\ UNCHANGED <<search, objects, seeder, edits>>

\* The response to the patch also brings the resourceVersion up to date.
LabelUser ==
  /\ pc = "userLabel"
  /\ \/ /\ addBackupLabel(User) /\ current' = TRUE /\ pc' = "userStatus"
        /\ userRules' \in Decoded(userRules, userRules \cup dropped, cfgs[User].rules)
        /\ UNCHANGED <<inst, todo, items, teamRules, dropped, moved>>
     \/ LabelRefused(User)
  /\ UNCHANGED <<search, applied, merged, seeder, edits>>

\* updateUserCCStatus: a write lost to a conflict or an error is only logged.
AppliedUnset(lost) == "unknown"                                      \* mutant
Applied(lost) == IF lost THEN "false" ELSE "true"
updateUserCCStatus ==
  /\ pc = "userStatus" /\ pc' = "write"
  /\ \/ /\ current /\ cfgs[User].there /\ NoFault
        /\ applied' = Applied(dropped # {})
        /\ queued' = (queued \/ applied' # applied)
     \/ /\ ~(current /\ cfgs[User].there) /\ NoFault /\ UNCHANGED <<applied, queued>>
     \/ Fault /\ UNCHANGED <<applied, queued>>
  /\ UNCHANGED <<search, cfgs, merged, inst, todo, current, items, teamRules,
                 userRules, dropped, moved, seeder, edits>>

\* Create merged-collector-config, or update its rules; the webhook sees a
\* config without the team label.
WithNames(ts) == UNION {{n} \X ts[n] : n \in Teams}
MergedRules == WithNames(teamRules) \cup ({User} \X userRules)
AsConfig == [NoConfig EXCEPT !.owner = inst, !.rules = {t[2] : t \in MergedRules}]
DiffersByAddition == MergedRules \ merged.rules # {}                \* mutant
Differs == merged.rules # MergedRules
WriteMerged ==
  /\ pc = "write"
  /\ \/ /\ ~merged.there /\ Admit("sa", NoConfig, AsConfig, "CREATE") /\ Return
        /\ merged' = [there |-> TRUE, owner |-> inst, rules |-> MergedRules]
     \/ /\ merged.there /\ Differs
        /\ Admit("sa", NoConfig, AsConfig, "UPDATE") /\ Return
        /\ merged' = [merged EXCEPT !.rules = MergedRules]
     \/ /\ merged.there /\ ~Differs
        /\ NoFault /\ Return /\ UNCHANGED merged
     \/ /\ ~merged.there \/ Differs
        /\ ~Admissible("sa", NoConfig, AsConfig, "UPDATE")
        /\ NoFault /\ Fail /\ UNCHANGED merged
     \/ Fault /\ Fail /\ UNCHANGED merged
  /\ UNCHANGED <<search, cfgs, applied, seeder, edits>>

Worker == \/ ListTeams \/ (\E n \in Teams : LabelTeam(n)) \/ ReadUser
          \/ LabelUser \/ updateUserCCStatus \/ WriteMerged

-----------------------------------------------------------------------------
(* IntegrationCollectorConfigSeeder.                                       *)

\* One poll of Start: resolveSearch finds the Search CR and it is not paused.
StartSeeding ==
  /\ seeding = "waiting" /\ Active
  /\ seeding' = "applying" /\ owner' = uid /\ left' = Shipped /\ failed' = FALSE
  /\ UNCHANGED <<search, objects, reconcile, queued, faults, edits>>

\* applyOneIntegrationCollectorConfig; an error does not stop the others.
Seeded(n) == [cfgs[n] EXCEPT !.there = TRUE, !.owner = owner, !.team = TRUE,
                             !.backup = TRUE, !.rules = Default]
applyOneIntegrationCollectorConfig(n) ==
  /\ seeding = "applying" /\ n \in left /\ left' = left \ {n}
  /\ \/ /\ ~(cfgs[n].there /\ cfgs[n].override) /\ cfgs[n] # Seeded(n)
        /\ Admit("sa", cfgs[n], Seeded(n), "UPDATE")
        /\ cfgs' = [cfgs EXCEPT ![n] = Seeded(n)] /\ queued' = TRUE
        /\ Changed(n, Seeded(n)) /\ UNCHANGED failed
     \/ /\ cfgs[n].there /\ (cfgs[n].override \/ cfgs[n] = Seeded(n))
        /\ NoFault /\ UNCHANGED <<cfgs, queued, failed, moved>>
     \/ Fault /\ failed' = TRUE /\ UNCHANGED <<cfgs, queued, moved>>
  /\ UNCHANGED <<search, applied, merged, held, seeding, owner, edits>>

\* Start polls again until one pass has had no error.
EndSeedingLikeOnce ==                                             \* mutant
  /\ seeding = "applying" /\ left = {} /\ seeding' = "done"
  /\ owner' = 0 /\ failed' = FALSE /\ UNCHANGED left
  /\ UNCHANGED <<search, objects, reconcile, queued, faults, edits>>
EndSeeding ==
  /\ seeding = "applying" /\ left = {}
  /\ seeding' = IF failed THEN "waiting" ELSE "done"
  /\ owner' = 0 /\ failed' = FALSE /\ UNCHANGED left
  /\ UNCHANGED <<search, objects, reconcile, queued, faults, edits>>

Seeder == \/ StartSeeding \/ EndSeeding
          \/ \E n \in Shipped : applyOneIntegrationCollectorConfig(n)

-----------------------------------------------------------------------------
(* Everyone else.                                                          *)

Resync == /\ exists /\ ~queued /\ queued' = TRUE
          /\ UNCHANGED <<search, objects, reconcile, seeder, faults, edits>>

Crash == /\ Fault /\ Fail
         /\ seeding' = "waiting" /\ owner' = 0 /\ left' = {} /\ failed' = FALSE
         /\ UNCHANGED <<search, objects, edits>>

\* The garbage collector; the deletion of the merged config is not watched.
Orphan(o) == o # 0 /\ ~(exists /\ o = uid)
CollectConfig(n) ==
  /\ cfgs[n].there /\ Orphan(cfgs[n].owner)
  /\ ~rejectIfProtected("gc", cfgs[n], "DELETE")
  /\ cfgs' = [cfgs EXCEPT ![n] = NoConfig] /\ Changed(n, NoConfig) /\ queued' = TRUE
  /\ UNCHANGED <<search, applied, merged, held, seeder, faults, edits>>
CollectMerged ==
  /\ merged.there /\ Orphan(merged.owner) /\ merged' = NotMerged
  /\ UNCHANGED <<search, cfgs, applied, reconcile, seeder, queued, faults, edits>>

Edit == edits < MaxEdits /\ edits' = edits + 1

\* A config is written through the webhook; a reconcile that has read the
\* user's config is no longer up to date.
Write(who, n, c) ==
  /\ Edit /\ Admit(who, cfgs[n], c, "UPDATE")
  /\ cfgs' = [cfgs EXCEPT ![n] = c] /\ Changed(n, c) /\ queued' = TRUE
  /\ current' = (current /\ n # User)
  /\ applied' = IF n = User /\ ~cfgs[n].there THEN "none" ELSE applied
  /\ UNCHANGED <<search, merged, pc, inst, todo, items, teamRules, userRules,
                 dropped, seeder>>

WriteUser(s) == Write("human", User, [cfgs[User] EXCEPT !.there = TRUE, !.rules = s])
WriteTeam(who, n, s, o) ==
  Write(who, n, [cfgs[n] EXCEPT !.there = TRUE, !.team = TRUE, !.override = o,
                                !.rules = s])
RemoveBackupLabel(n) ==
  /\ cfgs[n].there /\ cfgs[n].backup
  /\ Write("human", n, [cfgs[n] EXCEPT !.backup = FALSE])
DeleteConfig(n) ==
  /\ Edit /\ cfgs[n].there /\ ~rejectIfProtected("human", cfgs[n], "DELETE")
  /\ cfgs' = [cfgs EXCEPT ![n] = NoConfig] /\ Changed(n, NoConfig) /\ queued' = TRUE
  /\ UNCHANGED <<search, applied, merged, held, seeder, faults>>

PauseSearch == /\ Edit /\ exists /\ paused' = ~paused /\ queued' = TRUE
               /\ UNCHANGED <<uid, exists, objects, reconcile, seeder, faults>>
ReplaceSearch ==
  /\ Edit /\ exists' = ~exists /\ uid' = IF exists THEN uid ELSE uid + 1
  /\ paused' = FALSE /\ queued' = TRUE
  /\ UNCHANGED <<objects, reconcile, seeder, faults>>

People == \/ (\E s \in Contents : WriteUser(s))
          \/ (\E who \in {"human", "sa"}, n \in Teams, s \in Contents,
                 o \in BOOLEAN : WriteTeam(who, n, s, o))
          \/ (\E n \in Names : RemoveBackupLabel(n) \/ DeleteConfig(n))
          \/ PauseSearch \/ ReplaceSearch

GarbageCollector == CollectMerged \/ \E n \in Names : CollectConfig(n)

Next == Worker \/ Seeder \/ Resync \/ Crash \/ GarbageCollector \/ People
Spec == Init /\ [][Next]_vars

\* The worker, the seeder's poll, the resync and the garbage collector run.
Fairness == /\ WF_vars(Worker) /\ WF_vars(Seeder) /\ WF_vars(Resync)
            /\ WF_vars(GarbageCollector)
FairSpec == Spec /\ Fairness

-----------------------------------------------------------------------------
(* Properties.                                                             *)

UserRulesNow == IF cfgs[User].there THEN cfgs[User].rules ELSE {}
DroppedNow == Droppable(UserRulesNow, TeamRulesNow)
Desired == WithNames(TeamRulesNow) \cup ({User} \X (UserRulesNow \ DroppedNow))

\* No exclude rule of the user overlaps an include rule of a team.
Compatible(ms) ==
  \A u, t \in ms :
     u[1] = User /\ u[2].action = "exclude" /\ t[1] # User /\ t[2].action = "include"
       => ~rulesOverlap(u[2].sel, t[2].sel)

\* "Integration team wins": in what the merge writes, no exclude rule of the user
\* overlaps an include rule of a team, whatever slipped past the webhook or was
\* written between the List, the Get and the write; only a config that somebody
\* changed between its read and the patch of its backup label is excepted
\* (createOrUpdateMergedCollectorConfig).
TeamsWinUndisturbed ==
  [][merged'.rules # merged.rules
       => Compatible({t \in merged'.rules : t[1] \notin moved})]_vars

\* "Integration team wins: drop user exclude rules that overlap with any
\* integration team include".  Refuted, with such a config: the rule is judged by
\* the answer to the patch, while mergedSpec holds the include that was listed.
TeamsWin == Compatible(merged.rules)

\* Two states in which the webhook refuses the operator's own writes: the label
\* of a user's config whose exclude rule a team has since covered, and a merged
\* config with an exclude rule of a team against an include rule of a team.
UserLabelRefused == cfgs[User].there /\ ~cfgs[User].backup /\ DroppedNow # {}
TeamExcludeRefused ==
  \E t, i \in WithNames(TeamRulesNow) :
     /\ t[2].action = "exclude" /\ i[2].action = "include"
     /\ rulesOverlap(t[2].sel, i[2].sel)

\* Outside those two states, once edits and failures stop, the merged config of
\* an active Search holds exactly the rules of the teams and what they leave of
\* the user's, it belongs to this Search, and the user's config reports whether
\* rules were dropped (createOrUpdateMergedCollectorConfig, updateUserCCStatus).
Merged == /\ merged.there /\ merged.owner = uid /\ merged.rules = Desired
          /\ cfgs[User].there => applied = (IF DroppedNow # {} THEN "false"
                                            ELSE "true")
MergeConverges ==
  <>[](Active /\ ~UserLabelRefused /\ ~TeamExcludeRefused => Merged)

\* While a Search lives, a failed seeding is retried: every shipped config is in
\* the end there for good and owned by it, unless somebody took the config over
\* with the manual-override annotation (Start: "without the risk of permanently
\* giving up on a transient early failure").
SeedingCompletes ==
  \A n \in Shipped : \/ <>(cfgs[n].override)
                     \/ <>[](Active /\ uid = 1 =>
                              cfgs[n].there /\ cfgs[n].owner = uid)

\* "When overlap is detected, the integration team include takes precedence and
\* the user exclude is dropped from the merged spec."  Refuted: the webhook
\* refuses the backup label, and the merge stops before it writes.
UserExcludeGivesWay == <>[](Active /\ ~TeamExcludeRefused => Merged)

\* "Integration team configs are allowed to exclude - they own their own rules."
\* Refuted: they are admitted, but the merged config that holds them is not.
TeamExcludeHonoured == <>[](Active /\ ~UserLabelRefused => Merged)
=============================================================================

-------------------------- MODULE CollectionRules --------------------------
(***************************************************************************)
(* Collection rules of a CollectorConfig and what is decided about them:   *)
(* when two rules overlap (rulesOverlap, controllers/                      *)
(* create_collectorconfig.go, and its twin in the admission webhook,       *)
(* api/v1alpha1/collectorconfig_webhook.go), and which rules the webhook   *)
(* admits.  Lists are sets; the one decision that counts repetitions, that *)
(* fields go with one kind and one group, leaves them to a flag of Rule.   *)
(***************************************************************************)
EXTENDS FiniteSets

CONSTANTS Groups,  \* concrete apiGroups
          Kinds    \* concrete kinds
Any == "*"

ASSUME GroupsAssumption == Groups # {} /\ Any \notin Groups
ASSUME KindsAssumption == Kinds # {} /\ Any \notin Kinds

Selector == [apiGroups : SUBSET (Groups \cup {Any}), kinds : SUBSET (Kinds \cup {Any})]

\* fields and fieldSuffix may be absent, well formed or malformed; fields next to
\* a list that names its only kind or group twice count as malformed.  priority
\* is collectAdditionalPrinterColumnsPriority, unset, allowed or below -1; extras
\* says whether collectConditions or collectAnnotations is set.
Rule == [action : {"include", "exclude"}, sel : Selector,
         fields : {"none", "ok", "bad"}, suffix : {"none", "ok", "bad"},
         priority : {"none", "ok", "bad"}, extras : BOOLEAN]
PlainRule(a, s) == [action |-> a, sel |-> s, fields |-> "none",
                    suffix |-> "none", priority |-> "none", extras |-> FALSE]

\* Mutant: only the first list may hold a wildcard.
setsIntersectOneSided(a, b) == \E x \in a, y \in b : x = Any \/ x = y
setsIntersect(a, b) == \E x \in a, y \in b : x = Any \/ y = Any \/ x = y

rulesOverlap(a, b) == /\ setsIntersect(a.apiGroups, b.apiGroups)
                      /\ setsIntersect(a.kinds, b.kinds)

-----------------------------------------------------------------------------
(* Admission: validateCollectorConfig, rule by rule.                       *)

\* The group a kind is protected in, and the groups protected as a whole.
protectedKinds == {<<"ManagedCluster", "cluster.open-cluster-management.io">>,
                   <<"Namespace", "">>}
protectedAPIGroups == {"", "config.openshift.io", "template.openshift.io",
                       "admissionregistration.k8s.io",
                       "operator.open-cluster-management.io",
                       "search.open-cluster-management.io"}

validateResourceSelector(s) == s.apiGroups # {} /\ s.kinds # {}

\* Neither a protected kind by name nor all kinds of its group.
validateProtectedKindsByName(s) ==                                \* mutant
  \A p \in protectedKinds :
     p[1] \in s.kinds => s.apiGroups \cap {p[2], Any} = {}
validateProtectedKinds(s) ==
  \A p \in protectedKinds :
     s.kinds \cap {p[1], Any} # {} => s.apiGroups \cap {p[2], Any} = {}

validateExcludeRule(r) ==
  /\ r.fields = "none" /\ ~r.extras /\ r.suffix = "none" /\ r.priority = "none"
  /\ validateProtectedKinds(r.sel)
  /\ r.sel.apiGroups \cap (protectedAPIGroups \cup {Any}) = {}

validateIncludeRule(r) ==
  /\ r.fields # "none" => /\ Any \notin r.sel.kinds
                          /\ Cardinality(r.sel.kinds) = 1
                          /\ Cardinality(r.sel.apiGroups) = 1
                          /\ r.fields = "ok"
  /\ r.suffix # "bad"

validateRule(r) ==
  /\ validateResourceSelector(r.sel)
  /\ r.priority # "bad"
  /\ r.action = "include" => validateIncludeRule(r)
  /\ r.action = "exclude" => validateExcludeRule(r)

-----------------------------------------------------------------------------
(* What the rules mean: the resources, by group and kind, they select.     *)

Matches(s, g, k) == s.apiGroups \cap {g, Any} # {} /\ s.kinds \cap {k, Any} # {}

\* Two selectors overlap exactly when some resource is selected by both, so
\* neither the merge nor the webhook drops a rule it should keep or keeps one it
\* should drop (rulesOverlap).
OverlapExact(a, b) ==
  rulesOverlap(a, b)
    <=> \E g \in Groups, k \in Kinds : Matches(a, g, k) /\ Matches(b, g, k)

Protected(g, k) == <<k, g>> \in protectedKinds \/ g \in protectedAPIGroups

\* No exclude rule that is admitted selects a resource search depends on, by
\* name or by a wildcard (validateExcludeRule).
AdmittedSparesProtected(r) ==
  r.action = "exclude" /\ validateRule(r)
    => \A g \in Groups, k \in Kinds : Protected(g, k) => ~Matches(r.sel, g, k)

=============================================================================

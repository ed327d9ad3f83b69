------------------------- MODULE MCCollectionRules -------------------------
(* Every pair of rules over a few groups and kinds, for TLC.               *)
EXTENDS CollectionRules, Naturals

SomeGroups == {"", "apps", "cluster.open-cluster-management.io"}
SomeKinds == {"Namespace", "ManagedCluster", "Pod"}

VARIABLES first, second
rulePair == <<first, second>>

\* Selectors name up to two groups and two kinds, or none.
Small(S) == {x \in SUBSET S : Cardinality(x) <= 2}
Selectors == [apiGroups : Small(Groups \cup {Any}), kinds : Small(Kinds \cup {Any})]

Init == /\ first \in {PlainRule("exclude", s) : s \in Selectors}
        /\ second = first
\* Another rule is written next to the first.
WriteRule == /\ second = first
             /\ \E a \in {"include", "exclude"}, s \in Selectors :
                  second' = PlainRule(a, s)
             /\ UNCHANGED first
Spec == Init /\ [][WriteRule]_rulePair

\* Overlap is decided by what the two rules select (rulesOverlap).
OverlapIsExact == OverlapExact(first.sel, second.sel)
\* No admitted exclude rule selects a protected resource (validateExcludeRule).
ExcludesSpareProtected == AdmittedSparesProtected(second)
=============================================================================

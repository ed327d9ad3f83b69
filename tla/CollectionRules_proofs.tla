----------------------- MODULE CollectionRules_proofs -----------------------
(***************************************************************************)
(* What the decisions about collection rules mean, for all groups and      *)
(* kinds and all rules over them.                                          *)
(***************************************************************************)
EXTENDS MCCollectionRules, TLAPS

\* Two lists intersect, wildcards included, exactly when some concrete name is
\* selected by both.
LEMMA IntersectExact ==
  ASSUME NEW N, N # {}, Any \notin N,
         NEW a \in SUBSET (N \cup {Any}), NEW b \in SUBSET (N \cup {Any})
  PROVE  setsIntersect(a, b)
           <=> \E n \in N : a \cap {n, Any} # {} /\ b \cap {n, Any} # {}
  <1>1. ASSUME setsIntersect(a, b)
        PROVE \E n \in N : a \cap {n, Any} # {} /\ b \cap {n, Any} # {}
    <2>1. PICK x \in a, y \in b : x = Any \/ y = Any \/ x = y
      BY <1>1 DEF setsIntersect
    <2>2. CASE x \in N
      <3>1. x \in a \cap {x, Any} /\ (y \in b \cap {x, Any})
        BY <2>1, <2>2
      <3> QED
        BY <2>2, <3>1
    <2>3. CASE y \in N
      <3>1. y \in b \cap {y, Any} /\ (x \in a \cap {y, Any})
        BY <2>1, <2>3
      <3> QED
        BY <2>3, <3>1
    <2>4. CASE x = Any /\ y = Any
      <3>1. PICK n \in N : TRUE
        OBVIOUS
      <3>2. x \in a \cap {n, Any} /\ y \in b \cap {n, Any}
        BY <2>4
      <3> QED
        BY <3>1, <3>2
    <2> QED
      BY <2>1, <2>2, <2>3, <2>4
  <1>2. ASSUME NEW n \in N, a \cap {n, Any} # {}, b \cap {n, Any} # {}
        PROVE setsIntersect(a, b)
    BY <1>2 DEF setsIntersect
  <1> QED
    BY <1>1, <1>2

\* rulesOverlap holds of two selectors exactly when they share a resource.
THEOREM OverlapSound ==
  \A a, b \in Selector : OverlapExact(a, b)
  <1> SUFFICES ASSUME NEW a \in Selector, NEW b \in Selector
               PROVE OverlapExact(a, b)
    OBVIOUS
  <1>1. setsIntersect(a.apiGroups, b.apiGroups)
          <=> \E g \in Groups : /\ a.apiGroups \cap {g, Any} # {}
                                /\ b.apiGroups \cap {g, Any} # {}
    <2>1. a.apiGroups \in SUBSET (Groups \cup {Any})
          /\ b.apiGroups \in SUBSET (Groups \cup {Any})
      BY DEF Selector
    <2> QED
      BY <2>1, GroupsAssumption, IntersectExact
  <1>2. setsIntersect(a.kinds, b.kinds)
          <=> \E k \in Kinds : /\ a.kinds \cap {k, Any} # {}
                               /\ b.kinds \cap {k, Any} # {}
    <2>1. a.kinds \in SUBSET (Kinds \cup {Any})
          /\ b.kinds \in SUBSET (Kinds \cup {Any})
      BY DEF Selector
    <2> QED
      BY <2>1, KindsAssumption, IntersectExact
  <1> QED
    BY <1>1, <1>2 DEF OverlapExact, rulesOverlap, Matches

\* An exclude rule the webhook admits selects no protected resource.
THEOREM ExcludeSound ==
  \A r \in Rule : AdmittedSparesProtected(r)
  <1> SUFFICES ASSUME NEW r \in Rule, r.action = "exclude", validateRule(r),
                      NEW g \in Groups, NEW k \in Kinds, Protected(g, k),
                      Matches(r.sel, g, k)
               PROVE FALSE
    BY DEF AdmittedSparesProtected
  <1>1. /\ validateProtectedKinds(r.sel)
        /\ r.sel.apiGroups \cap (protectedAPIGroups \cup {Any}) = {}
    BY DEF validateRule, validateExcludeRule
  <1>2. g \in r.sel.apiGroups
    BY <1>1 DEF Matches
  <1>3. g \notin protectedAPIGroups
    BY <1>1, <1>2
  <1>4. <<k, g>> \in protectedKinds
    BY <1>3 DEF Protected
  <1>5. r.sel.kinds \cap {k, Any} # {}
    BY DEF Matches
  <1>6. r.sel.apiGroups \cap {g, Any} = {}
    BY <1>1, <1>4, <1>5 DEF validateProtectedKinds
  <1> QED
    BY <1>2, <1>6

\* Both rules are rules as the API has them.
PairInv == first \in Rule /\ second \in Rule

\* Whichever two are written side by side, PairInv holds of them.
LEMMA PairsAreRules == Spec => []PairInv
  <1>1. \A s \in Selectors, a \in {"include", "exclude"} : PlainRule(a, s) \in Rule
    BY DEF Selectors, Small, Selector, Rule, PlainRule
  <1>2. Init => PairInv
    BY <1>1 DEF Init, PairInv
  <1>3. PairInv /\ [WriteRule]_rulePair => PairInv'
    BY <1>1 DEF WriteRule, rulePair, PairInv
  <1> QED
    BY <1>2, <1>3, PTL DEF Spec

\* The overlap of two rules side by side is decided by what they select: what the
\* model checker finds for all pairs over a few names holds over any names
\* (rulesOverlap).
THEOREM OverlapAlwaysExact == Spec => []OverlapIsExact
  <1>1. PairInv => OverlapIsExact
    BY OverlapSound DEF PairInv, Rule, OverlapIsExact
  <1> QED
    BY PairsAreRules, <1>1, PTL

\* No admitted exclude rule among them selects a protected resource
\* (validateExcludeRule), over any names.
THEOREM ExcludesAlwaysSpare == Spec => []ExcludesSpareProtected
  <1>1. PairInv => ExcludesSpareProtected
    BY ExcludeSound DEF PairInv, ExcludesSpareProtected
  <1> QED
    BY PairsAreRules, <1>1, PTL
=============================================================================

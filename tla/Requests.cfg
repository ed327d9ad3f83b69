SPECIFICATION FairSpec
CONSTANTS
  PodsOf <- TwoReplicas
  Clusters = {"c1"}
  TrustedImages = {"trusted"}
  AnnotationValues <- SomeAnnotations
  Overrides = {"trusted", "untrusted"}
  MaxEvents = 2
INVARIANTS TypeOK ImagesTrusted
PROPERTIES WritesOwnCondition StatusSettles AddonServes

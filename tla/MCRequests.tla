----------------------------- MODULE MCRequests -----------------------------
(* Instances of Requests for TLC.                                          *)
EXTENDS Requests

\* A Deployment with two replicas.
TwoReplicas == [api |-> {"search-api-1", "search-api-2"}]

\* An image in the values annotation, and annotations of which one is no number.
SomeAnnotations ==
  { [values |-> [image |-> "untrusted"], limitMemory |-> "", heartBeat |-> ""],
    [values |-> NoValues, limitMemory |-> "1Gi", heartBeat |-> "soon"] }
=============================================================================

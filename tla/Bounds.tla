------------------------------- MODULE Bounds -------------------------------
(* What happens to the operator, counted: the modules that extend this one *)
(* share one bound on failures, crashes and edits together.                *)
EXTENDS Naturals

CONSTANT MaxEvents
ASSUME BoundsAssumption == MaxEvents \in Nat

VARIABLES faults,  \* API calls failed and crashes so far
          edits    \* what others have done so far

Fault == faults + edits < MaxEvents /\ faults' = faults + 1
NoFault == UNCHANGED faults
Edit == faults + edits < MaxEvents /\ edits' = edits + 1
=============================================================================

---------------------------- MODULE ProductLife ----------------------------
(***************************************************************************)
(* What installing and removing Search promises to the cluster, whatever   *)
(* the reconciler does to keep it: cluster-wide privileges are granted only*)
(* while the Search is guarded by its finalizer, and a removal completes   *)
(* only when none is left.  SearchLifecycle implements it.                 *)
(***************************************************************************)
CONSTANT Privileges  \* the ClusterRoles and bindings a removal takes down

VARIABLES product,  \* the Search: none, plain, guarded or terminating
          granted   \* the privileges that exist

life == <<product, granted>>

\* A hub without Search, or with the guarded Search of an earlier release.
Init == product \in {"none", "guarded"} /\ granted = {}

Install == product = "none" /\ product' = "plain" /\ UNCHANGED granted
Guard == product = "plain" /\ product' = "guarded" /\ UNCHANGED granted

\* A reconcile that has not seen the removal yet may still grant.
Grant(p) == /\ product \in {"guarded", "terminating"}
            /\ granted' = granted \cup {p} /\ UNCHANGED product
Revoke(p) == granted' = granted \ {p} /\ UNCHANGED product

Remove == /\ \/ product = "plain" /\ product' = "none"
             \/ product = "guarded" /\ product' = "terminating"
          /\ UNCHANGED granted
Complete == /\ product = "terminating" /\ granted = {}
            /\ product' = "none" /\ UNCHANGED granted

Next == \/ Install \/ Guard \/ Remove \/ Complete
        \/ \E p \in Privileges : Grant(p) \/ Revoke(p)

Spec == Init /\ [][Next]_life
=============================================================================

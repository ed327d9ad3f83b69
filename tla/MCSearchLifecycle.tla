------------------------- MODULE MCSearchLifecycle -------------------------
(* Instances of SearchLifecycle for TLC.                                   *)
EXTENDS SearchLifecycle

\* A role and a binding that finalizeSearch takes down, and one object for each
\* way of creating, correcting, owning and watching one, in the order of
\* ReconcilePlan: the garbage collector may take the owned ones in
\* any order, which rules out the whole plan once Search can be deleted.
OwnedPlan == << Step("api-sa", "createSearchServiceAccount"),
                Step("indexer-cr", "createUpdateRoles"),
                Step("indexer-crb", "createRoleBinding"),
                Step("postgres-cm", "createOrUpdateConfigMap"),
                Step("postgres-deploy", "createOrUpdateDeployment"),
                Step("collector-svc", "createCollectorService"),
                Step("indexer-monitor", "createServiceMonitor"),
                Step("search-cr", "features"),
                Step("legacy-monitors", "cleanOnce"),
                Step("legacy-cr", "deleteLegacy") >>

\* The whole plan, for a Search that nobody deletes.
KeptSpec == Init /\ [][Next /\ ~DeleteSearch]_vars /\ Fairness
=============================================================================

-------------------------- MODULE MCFeatureToggles --------------------------
(* Instances of FeatureToggles for TLC.                                    *)
EXTENDS FeatureToggles

\* A cluster that starts as a managed hub, or not, and one that does not.
TwoClusters == <<"c1", "c2">>
OneCluster == <<"c1">>
=============================================================================

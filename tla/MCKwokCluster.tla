---------------------------- MODULE MCKwokCluster ----------------------------
(* KwokCluster on small instances: one KwokCluster that holds the worker and  *)
(* is changed, and another that stays what it is and holds the worker too, or *)
(* cannot be reconciled.                                                      *)
EXTENDS KwokCluster

CONSTANTS c1, c2, Others, Endpoints, Changes

MCClusters == {c1, c2}
MCSpecsOf == [c \in MCClusters |-> IF c = c1 THEN {"slow"} ELSE Others]
MCMaxEndpoint == [c \in MCClusters |-> IF c = c1 THEN Endpoints ELSE 0]
MCMaxChanges == [c \in MCClusters |-> IF c = c1 THEN Changes ELSE 0]
=============================================================================

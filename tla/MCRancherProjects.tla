-------------------------- MODULE MCRancherProjects --------------------------
(* RancherProjects on a small cluster: 1 is cattle-monitoring-system, 2 is   *)
(* cattle-project-p-a, 3 cattle-project-p-a-monitoring, 4 default and 5      *)
(* kube-system; Prometheus 1 is Rancher's, Prometheus 2 project a's.         *)
EXTENDS RancherProjects

CONSTANTS a, b

MCHelmProject == [n \in Operated |-> a]
MCPromNs == [p \in Proms |-> IF p = 1 THEN 1 ELSE 3]
MCSelects == [p \in Proms |-> IF p = 1 THEN None ELSE a]
=============================================================================

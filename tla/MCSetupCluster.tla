--------------------------- MODULE MCSetupCluster ---------------------------
(* SetupCluster with two Prometheuses, which live in one namespace or in two. *)
(* Prometheuses are interchangeable, and so are namespaces.                   *)
EXTENDS SetupCluster, TLC

CONSTANTS p1, p2, mon, app

Symmetry == Permutations({p1, p2}) \cup Permutations({mon, app})
=============================================================================

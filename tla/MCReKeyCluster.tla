--------------------------- MODULE MCReKeyCluster ---------------------------
(***************************************************************************)
(* Model-checking side of ReKeyCluster: symmetry of the workers.            *)
(***************************************************************************)
EXTENDS ReKeyClusterInv, TLC

\* Workers are only ever compared with each other.
WorkerSymmetry == Permutations(Workers)

=============================================================================

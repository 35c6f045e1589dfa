------------------------------ MODULE MCNetEnv ------------------------------
(* Instances of NetEnv for TLC: the names, processes and namespaces are    *)
(* interchangeable.                                                        *)
EXTENDS NetEnv, TLC

Symmetry == Permutations(Env) \cup Permutations(Proc) \cup Permutations(NsId)

=============================================================================

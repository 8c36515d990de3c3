-------------------------- MODULE MCNetworkChange --------------------------
(* Instances of NetworkChange for TLC. *)
EXTENDS NetworkChange, TLC

CONSTANTS n1, n2, t1, t2, w1, w2

\* Tokens are compared for equality only, and workers differ in nothing.
\* (Left out of the runs that check liveness.)
Symmetry == Permutations({t1, t2}) \union Permutations({w1, w2})
=============================================================================

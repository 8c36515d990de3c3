----------------------------- MODULE MCAuthConfig -----------------------------
(* Small instances of AuthConfig for TLC.                                    *)
EXTENDS AuthConfig, TLC

CONSTANTS w1, w2, k1, k2, r1, r2

\* Servers and workers differ in nothing; keys do, by the CHOOSE of NoJob.
Symmetry == Permutations(Worker) \cup Permutations(Server)
=============================================================================

-------------------------- MODULE MCReleaseUpdate --------------------------
(* Instances of ReleaseUpdate for TLC. *)
EXTENDS ReleaseUpdate, TLC

CONSTANTS p1, p2, p3

\* Two releases, and a second upload of the first.
Releases == [p \in Package |-> IF p = p2 THEN 3 ELSE 2]

Symmetry == Permutations({p1, p3}) \union Permutations(Browser) \union Permutations(Job)
=============================================================================

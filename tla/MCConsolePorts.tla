--------------------------- MODULE MCConsolePorts ---------------------------
(* Instances of ConsolePorts for TLC. *)
EXTENDS ConsolePorts, TLC

CONSTANTS p1, p2, c1, c2, s1, s2, e1, e2

\* Ports, cables, sessions and editors differ in nothing but their names.
\* (Inodes do: EditOpen chooses the first that is free.)
Symmetry ==
    Permutations({p1, p2}) \union Permutations({c1, c2}) \union Permutations({s1, s2})
        \union Permutations({e1, e2})
=============================================================================

----------------------------- MODULE MCFirstBoot -----------------------------
(* Small instances of FirstBoot for TLC.                                     *)
EXTENDS FirstBoot, TLC

CONSTANTS a1, a2

Admins == Permutations(Admin)
=============================================================================

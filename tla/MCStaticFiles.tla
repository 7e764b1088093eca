--------------------------- MODULE MCStaticFiles ---------------------------
(* StaticFiles for TLC: the workers are interchangeable.                   *)
EXTENDS StaticFiles, TLC

Symmetry == Permutations(Host)
=============================================================================

--------------------------- MODULE MCAtomicOutput ---------------------------
(* Two directories deep, with a spare directory for each position.           *)
EXTENDS AtomicOutput, TLC

CONSTANTS r1, r2, p1, p2

MCLevel == (r1 :> 1) @@ (r2 :> 1) @@ (p1 :> 2) @@ (p2 :> 2)

\* Directories of one level and random names are interchangeable.
Symmetry ==
  Permutations(Tokens) \cup Permutations({r1, r2}) \cup Permutations({p1, p2})
=============================================================================

----------------------------- MODULE MCJobQueue -----------------------------
(***************************************************************************)
(* Two workers, of which one stands by, and two jobs: one well-formed, one *)
(* that no handler understands.                                            *)
(***************************************************************************)
EXTENDS JobQueue

CONSTANTS j1, j2, bad

Symmetry == Permutations(Workers)
=============================================================================

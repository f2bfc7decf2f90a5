----------------------------- MODULE MCListings -----------------------------
(***************************************************************************)
(* One found publication of an owner, one moderator, one invited employee. *)
(***************************************************************************)
EXTENDS Listings, TLC

CONSTANTS owner, moderator, l1

MCOwnerOf == [l \in Listings |-> owner]

\* Request slots and photographs are interchangeable.
Symmetry == Permutations(Requests) \cup Permutations(Photos)
=============================================================================

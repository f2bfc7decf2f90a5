------------------------------ MODULE MCReturns ------------------------------
(***************************************************************************)
(* Claims and handovers over one found publication.  The configurations    *)
(* choose what overlaps: scans and resolutions (MCReturns.cfg), or edits   *)
(* of the publication and several claimants (MCReturnsEdits.cfg).          *)
(***************************************************************************)
EXTENDS Returns, TLC

CONSTANTS owner, moderator, ann, bob, l1

MCOwnerOf == [l \in Listings |-> owner]

Symmetry == Permutations(Calls)
SymmetryClaimants == Permutations(Claimants)
=============================================================================

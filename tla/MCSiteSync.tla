------------------------------ MODULE MCSiteSync ------------------------------
(* SiteSync for model checking. *)
EXTENDS SiteSync, TLC

\* The peers, and the shapes, are interchangeable.
Symmetry == Permutations(Peers) \cup Permutations(Shape)
=============================================================================

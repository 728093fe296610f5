----------------------------- MODULE MCSiteClaims -----------------------------
(* SiteClaims for model checking. *)
EXTENDS SiteClaims, TLC

\* The peers, and the shapes, are interchangeable.
Symmetry == Permutations(Peers) \cup Permutations(Shape)
=============================================================================

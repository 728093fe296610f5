------------------------------ MODULE MCConnectors ------------------------------
(* Connectors for model checking: the CONSTANTS are given in the .cfg files. *)
EXTENDS Connectors, TLC

\* Processes can be exchanged for one another, and so can tokens of the same kind.
Symmetry ==
    Permutations(Cli) \cup Permutations(EdgeToken)
                      \cup Permutations(Token \ (OwnToken \cup EdgeToken))
=============================================================================

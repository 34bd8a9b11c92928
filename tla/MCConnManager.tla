----------------------------- MODULE MCConnManager -----------------------------
(* Instances of ConnManager for TLC.                                       *)
EXTENDS ConnManager, TLC

\* The elements of these sets are interchangeable (safety runs only).
Symmetry == Permutations(Clients) \cup Permutations(ConnIDs) \cup Permutations(Watchers)
            \cup Permutations(Targets)

=============================================================================

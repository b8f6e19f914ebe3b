--------------------------- MODULE MCLinuxOneshot ---------------------------
(* Small instances of LinuxOneshot for TLC. *)
EXTENDS LinuxOneshot, TLC

\* Handlers, runs, distributions and archives are interchangeable.
Symmetry ==
  Permutations(Handlers) \cup Permutations(Runs) \cup Permutations(Dists)
    \cup Permutations(Archives)

=============================================================================

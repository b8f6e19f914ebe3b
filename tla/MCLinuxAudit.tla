---------------------------- MODULE MCLinuxAudit ----------------------------
(* Small instances of LinuxAudit for TLC. *)
EXTENDS LinuxAudit, TLC

\* Runs, and the server threads of each kind, are interchangeable.
Symmetry == Permutations(Runs) \cup Permutations(Starters) \cup Permutations(Cancellers)

=============================================================================

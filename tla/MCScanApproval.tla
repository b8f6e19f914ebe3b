--------------------------- MODULE MCScanApproval ---------------------------
(* Small instances of ScanApproval for TLC. *)
EXTENDS ScanApproval, TLC

\* Requests, codes and decisions are interchangeable.
Symmetry == Permutations(Requests) \cup Permutations(Codes) \cup Permutations(Deciders)

=============================================================================

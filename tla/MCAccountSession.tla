-------------------------- MODULE MCAccountSession --------------------------
(* Small instances of AccountSession for TLC. *)
EXTENDS AccountSession, TLC

\* Requests and session slots are interchangeable.
Symmetry == Permutations(Requests) \cup Permutations(Sessions)
=============================================================================

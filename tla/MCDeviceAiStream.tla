-------------------------- MODULE MCDeviceAiStream --------------------------
(* Small instances of DeviceAiStream for TLC. *)
EXTENDS DeviceAiStream, TLC

\* Streams, and the threads that cancel, are interchangeable.
Symmetry == Permutations(Streams) \cup Permutations(Cancellers)

=============================================================================

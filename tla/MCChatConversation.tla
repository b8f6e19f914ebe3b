------------------------- MODULE MCChatConversation -------------------------
(***************************************************************************)
(* Small instances of ChatConversation for TLC. The functions an answer is *)
(* made with (GroundedAnswer) are evaluated with it, in BoundedInputs.     *)
(***************************************************************************)
EXTENDS ChatConversation, BoundedInputs, TLC

\* The server threads are interchangeable.
Symmetry == Permutations(Runners)

=============================================================================

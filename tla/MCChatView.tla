------------------------------ MODULE MCChatView ------------------------------
(* Two conversations for TLC, interchangeable. *)
EXTENDS ChatView, TLC

CONSTANTS tom, jo

MCPeers == {tom, jo}
Symmetry == Permutations(MCPeers)
=============================================================================

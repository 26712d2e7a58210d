----------------------------- MODULE MCRelations -----------------------------
(* Two members, tom whose wave is waiting at start and jo who is offline.  *)
EXTENDS Relations

CONSTANTS tom, jo

MCPeers == {tom, jo}
MCOnline == {tom}
=============================================================================

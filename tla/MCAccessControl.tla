--------------------------- MODULE MCAccessControl ---------------------------
(* Instances of AccessControl for TLC. *)
EXTENDS AccessControl

CONSTANT e1

OneEditor == {e1}
AllTools == MCP_TOOLS \cup ResourceMethods
=============================================================================

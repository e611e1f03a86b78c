------------------------------- MODULE MCHub -------------------------------
(* Two connections: one broadcasts into the other at every stage of both.  *)
(* Channels of one message are full and empty at any time.                 *)
EXTENDS Hub

CONSTANTS p1, p2

MCPeers == {p1, p2}
MCOutgoing == {"offer"}
=============================================================================

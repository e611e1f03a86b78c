-------------------------- MODULE MCPeerLifecycle --------------------------
(* One peer with everything that can happen to it; what another connection  *)
(* of its room does to its Send channel is in MCHub and in the proofs.      *)
EXTENDS PeerLifecycle

CONSTANT p1

OnePeer == {p1}
AllInputs == {"answer", "candidate", "target"}
MCOutgoing == {"offer", "candidate"}
=============================================================================

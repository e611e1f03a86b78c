---------------------------- MODULE MCPageTunnel ----------------------------
(* Two tunnels, one after the other or side by side: what an old one does to *)
(* a new one needs no third.                                                 *)
EXTENDS PageTunnel

CONSTANTS e1, e2

MCTunnels == {e1, e2}
=============================================================================

------------------------------ MODULE MCTunnel ------------------------------
(* Two fetches over one tunnel.  Two requests are what frames need to       *)
(* interleave and answers to be confused; two chunks are what a body needs  *)
(* to lose one of them and keep another, the second one shorter.  The body  *)
(* that is sent in a single frame is of the greatest length that may be.    *)
EXTENDS Tunnel

CONSTANTS a, b

MCRequests == {a, b}
MCLengths == {2, 3}
=============================================================================

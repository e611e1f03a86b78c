-------------------------- MODULE MCTunnelRegistry --------------------------
(* Two pages and one target: what a page does to an entry depends on no      *)
(* other entry, but for the map that is written back after a probe, which    *)
(* the theorems cover for every number of targets.                           *)
EXTENDS TunnelRegistry

CONSTANTS p1, p2, k1

MCPages == {p1, p2}
MCKeys == {k1}
=============================================================================

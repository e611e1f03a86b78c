----------------------------- MODULE MCWsBridge -----------------------------
(* Two streams, so that the sweep, the closes and the pumps meet streams at *)
(* different stages.                                                        *)
EXTENDS WsBridge

CONSTANTS s1, s2

OneStream == {s1}
TwoStreams == {s1, s2}
=============================================================================

--------------------------- MODULE MCServiceWorker ---------------------------
(* Two gateway pages, one document, two targets and one fetch at a time: the *)
(* pages' messages, deaths and restarts of the worker fall in every step.    *)
EXTENDS ServiceWorker, TLC

CONSTANTS p1, p2, d1, t1, t2, f1

MCPages == {p1, p2}
MCDocs == {d1}
MCTargets == {t1, t2}
MCRequests == {f1}
MCConnects == p1 :> {t1, t2} @@ p2 :> {t1}
=============================================================================

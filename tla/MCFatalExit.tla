----------------------------- MODULE MCFatalExit -----------------------------
(* Model values for FatalExit: one or two workers, main and the gatherer.   *)
EXTENDS FatalExit

CONSTANTS w1, w2

OneWorker     == {w1}
TwoWorkers    == {w1, w2}
OneAndMetrics == {w1, Gatherer}
=============================================================================

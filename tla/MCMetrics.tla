----------------------------- MODULE MCMetrics ------------------------------
(* Model values for Metrics: durations on both sides of zero, not all of *)
(* them whole milliseconds.                                              *)
EXTENDS Metrics

SmallLatencies == {-3, 4}
=============================================================================

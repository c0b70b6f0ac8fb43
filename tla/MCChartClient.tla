--------------------------- MODULE MCChartClient ---------------------------
(* ChartClient on small instances: the bounds are set in the configurations. *)
EXTENDS ChartClient
=============================================================================

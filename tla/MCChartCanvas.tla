--------------------------- MODULE MCChartCanvas ---------------------------
(* ChartCanvas on small instances: the bounds are set in the configurations. *)
EXTENDS ChartCanvas
=============================================================================

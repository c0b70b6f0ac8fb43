--------------------------- MODULE MCVesselTrack ---------------------------
(* VesselTrack on small instances: the bounds are set in the configurations. *)
EXTENDS VesselTrack
=============================================================================

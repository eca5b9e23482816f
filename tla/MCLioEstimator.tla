--------------------------- MODULE MCLioEstimator ---------------------------
(* Instances of LioEstimator for TLC.  The thresholds are scaled down: one   *)
(* or two samples for the filter, one scan for the map, two scans for the    *)
(* relocalisation, forward steps of at most two ticks.                       *)
EXTENDS LioEstimator

NoSaving == {Off}
Saving == {-1, 2}
=============================================================================

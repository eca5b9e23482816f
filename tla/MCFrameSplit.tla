---------------------------- MODULE MCFrameSplit ----------------------------
(* Instances of FrameSplit for TLC: a turn of seven azimuths.                *)
EXTENDS FrameSplit
=============================================================================

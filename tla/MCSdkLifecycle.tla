--------------------------- MODULE MCSdkLifecycle ---------------------------
(* Instances of SdkLifecycle for TLC: a ring of two packets.                 *)
EXTENDS SdkLifecycle
=============================================================================

--------------------------- MODULE MCLidarCommands ---------------------------
(***************************************************************************)
(* Instances of LidarCommands: InitThread with InitSetPtc, the upgrades of   *)
(* the two kinds, a command that is given twice, and on the serial line       *)
(* queries of three kinds next to the upgrades.                              *)
(***************************************************************************)
EXTENDS LidarCommands

Simple(cmd, data) ==
  [cmd |-> cmd, packages |-> 1, long |-> FALSE, restores |-> FALSE, data |-> data]
Upgrade(restores) ==
  [cmd |-> "upgrade", packages |-> 2, long |-> TRUE, restores |-> restores, data |-> FALSE]

NetworkPrograms ==
  {[loader |-> <<Simple("correction", TRUE)>>, setter |-> <<Simple("speed", FALSE)>>],
   [caller |-> <<Upgrade(TRUE)>>],
   [caller |-> <<Upgrade(FALSE)>>],
   [caller |-> <<Simple("mode", FALSE), Simple("mode", FALSE)>>]}

Ask(sub, type) == [sub |-> sub, type |-> type]
SerialLists == {<<Ask("correction", 0), Ask("version", 1)>>, <<Ask("version", 1), Ask("version", 2)>>}
=============================================================================

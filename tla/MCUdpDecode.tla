---------------------------- MODULE MCUdpDecode ----------------------------
(* Instances of UdpDecode for TLC: scans of seven packets.                   *)
EXTENDS UdpDecode

Columns == 0..(PerScan - 1)

Plain(parser) == [parser |-> parser, start |-> 2, echo |-> 0, shown |-> {1, 2}, fov |-> Columns,
                  remake |-> FALSE, seq |-> TRUE, given |-> TRUE, layouts |-> {"normal"}]

\* Every parser with filters; some with a grid, the AT128 among them, whose timeouts let a frame
\* overflow; some without a configured type and numbers, or with packets in other layouts.
Filtered(parser) == [Plain(parser) EXCEPT !.echo = IF parser = "7_3" THEN 0 ELSE 1,
                                          !.shown = {2}, !.fov = Columns \ {3}]
Remade(parser) == [Plain(parser) EXCEPT !.remake = TRUE, !.start = 0]
Unknown(parser) == [Plain(parser) EXCEPT !.given = FALSE, !.seq = FALSE]
Mixed(parser) == [Plain(parser) EXCEPT !.layouts = {"normal", "other", "large"}]

\* Packets that are refused when they come a second time, and a layout taken up in midst
\* of a frame.
Echoes(parser) == [Plain(parser) EXCEPT !.echo = 1]
Zoomed(parser) == [Plain(parser) EXCEPT !.layouts = {"normal", "other"}]
Resized(parser) == [Plain(parser) EXCEPT !.layouts = {"normal", "longer"}]

AllConfigurations ==
  {Filtered(p) : p \in AllParsers} \cup {Remade(p) : p \in {"6_1", "1_8", "4_3", "7_2", "7_3"}}
  \cup {Unknown(p) : p \in {"6_1", "4_7"}} \cup {Mixed(p) : p \in {"6_1", "7_2"}}
  \cup {Echoes("7_3"), Zoomed("7_3"), Resized("3_1")}
=============================================================================

------------------------------ MODULE Received ------------------------------
(***************************************************************************)
(* What Source::Receive leaves behind: a packet in parts, and what its      *)
(* length says of it.  A part <<p, i>> is the i-th piece of the p-th packet  *)
(* that was sent; a packet that was cut has parts of several.               *)
(***************************************************************************)
EXTENDS Integers, Sequences

Result(kind, parts) == [kind |-> kind, parts |-> parts]
Nothing == Result("nothing", <<>>)     \* the length -1
Silence == Result("silence", <<>>)     \* the length 0

Intact(p, n) == [i \in 1..n |-> <<p, i>>]

(***************************************************************************)
(* A record of a capture is a header and what it announces: "udp", "empty" (a  *)
(* UDP packet without payload), "segment" and "segments" (TCP, with one packet *)
(* of the lidar or two), "other" (anything that is not handed on), or "jumbo", *)
(* longer than kBufSize.  A capture may be cut in a header or in what follows  *)
(* it.                                                                     *)
(***************************************************************************)
Blocks(kind) == CASE kind = "jumbo" -> <<"header", "data", "rest">>
                  [] kind = "cut header" -> <<"stub">>
                  [] kind = "cut data" -> <<"header", "torn">>
                  [] OTHER -> <<"header", "data">>
=============================================================================

---------------------------- MODULE MCReceivePath ----------------------------
(***************************************************************************)
(* Instances of ReceivePath for TLC: two receive threads push and Run() pops; *)
(* lidars that send points, fault messages, GPS and IMU packets, and captures *)
(* of each format that hold every kind of record or are cut.                  *)
(***************************************************************************)
EXTENDS ReceivePath

CONSTANTS a, b, rx, rxFault, process

TwoPackets == {a, b}
Receivers  == {rx, rxFault}
RunThread  == {process}

FromLidar(kind, scripts) ==
  {[source |-> kind, script |-> s, format |-> "none", loops |-> FALSE] : s \in scripts}
Captures == {<<"udp", "other", "segments", "jumbo", "udp">>,
             <<"segment", "segments", "empty", "segment">>,
             <<"udp", "jumbo", "udp", "cut header">>, <<"udp", "cut data">>}
AllSetups ==
  FromLidar("socket", {<<"points", "points", "fault", "points">>, <<"points", "gps", "points">>})
    \cup FromLidar("tcp", {<<"points", "points", "points", "points", "points">>})
    \cup FromLidar("serial", {<<"points", "imu", "points", "points", "imu">>,
                              <<"points", "ack", "points", "imu", "points">>})
    \cup [source : {"pcap"}, script : Captures, format : {"pcap", "pcapng"}, loops : BOOLEAN]
=============================================================================

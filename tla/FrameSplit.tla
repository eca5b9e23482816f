----------------------------- MODULE FrameSplit -----------------------------
(***************************************************************************)
(* How the XT parser decides that a packet opens a new scan (the rule of     *)
(* AzimuthSplit, within DecodePacket in udp6_1_parser.h): it compares the    *)
(* azimuth of the packet with those of the two packets before, guesses from *)
(* them which way the lidar turns, and splits where the sweep passes the    *)
(* start angle.  Run() decodes a packet that split the scan a second time.  *)
(*                                                                         *)
(* The lidar turns one way.  From one packet to the next it may stand still *)
(* or advance by up to MaxStep (packets may be lost).                       *)
(***************************************************************************)
EXTENDS AzimuthSplit

CONSTANTS Circle,        \* azimuth units of a turn (36000 in the code)
          MaxStep        \* bound on the advance between two packets

ASSUME SplitAssumption == /\ Circle \in Nat \ {0}
                          /\ MaxStep \in Nat \ {0}
                          /\ 2 * MaxStep < Circle

VARIABLES
  frameStart,       \* frame_start_azimuth_uint16_
  direction,        \* which way the lidar turns
  azimuth,          \* u16Azimuth of the packet decoded last
  lastAzimuth,      \* last_azimuth_
  lastLastAzimuth,  \* last_last_azimuth_
  rotationFlag,     \* rotation_flag
  scanComplete,     \* scan_complete: the packet decoded last split the scan
  turns             \* history: the packets that moved on, up to SettledAfter

vars == <<frameStart, direction, azimuth, lastAzimuth, lastLastAzimuth, rotationFlag, scanComplete,
          turns>>

Azimuths == 0..(Circle - 1)

\* The packets it takes until the guess of the direction is right.  The constructor sets
\* both azimuths to 0, so that the second packet already votes, with a made-up first one.
SettledAfter == 3

TypeOK == /\ frameStart \in Azimuths
          /\ direction \in {-1, 1}
          /\ azimuth \in Azimuths
          /\ lastAzimuth \in Azimuths
          /\ lastLastAzimuth \in Azimuths
          /\ rotationFlag \in -(FlagLimit + 1)..(FlagLimit + 1)
          /\ scanComplete \in BOOLEAN
          /\ turns \in 0..SettledAfter

Init == /\ frameStart \in Azimuths
        /\ direction \in {-1, 1}
        /\ azimuth = 0
        /\ lastAzimuth = 0
        /\ lastLastAzimuth = 0
        /\ rotationFlag = 0
        /\ scanComplete = FALSE
        /\ turns = 0
-----------------------------------------------------------------------------
\* DecodePacket for a packet at azimuth a.  The fields move on when the azimuth is a
\* new one, also when the scan is complete.
MoveOnUnlessComplete(a) ==      \* mutant: the return comes first
  IF a # lastAzimuth /\ ~scanComplete'
  THEN lastLastAzimuth' = lastAzimuth /\ lastAzimuth' = a
  ELSE UNCHANGED <<lastAzimuth, lastLastAzimuth>>
MoveOn(a) ==
  IF a # lastAzimuth
  THEN lastLastAzimuth' = lastAzimuth /\ lastAzimuth' = a
  ELSE UNCHANGED <<lastAzimuth, lastLastAzimuth>>

Decode(a) ==
  /\ azimuth' = a
  /\ rotationFlag' = RotationAfter(rotationFlag, a, lastAzimuth, lastLastAzimuth)
  /\ scanComplete' = IsNeedFrameSplit(frameStart, rotationFlag, a, lastAzimuth, lastLastAzimuth)
  /\ MoveOn(a)
  /\ UNCHANGED <<frameStart, direction>>

\* The first packet may come from any direction.
FirstPacket ==
  /\ turns = 0
  /\ \E a \in Azimuths : Decode(a)
  /\ turns' = 1

\* A packet from the lidar that goes on turning.
NextPacket ==
  /\ turns > 0 /\ ~scanComplete
  /\ \E step \in 0..MaxStep :
       /\ Decode((azimuth + direction * step) % Circle)
       /\ turns' = IF step = 0 \/ turns = SettledAfter THEN turns ELSE turns + 1

\* Run() decodes the packet that split the scan once more.
SecondDecode ==
  /\ scanComplete
  /\ Decode(azimuth)
  /\ UNCHANGED turns

Next == FirstPacket \/ NextPacket \/ SecondDecode

Spec == Init /\ [][Next]_vars
-----------------------------------------------------------------------------
(***************************************************************************)
(* Properties                                                              *)
(***************************************************************************)
\* The lidar's sweep from one azimuth to the next, the first one excluded, contains
\* the start angle.
Passes(from, to) == LET along(b) == (direction * (b - from)) % Circle
                    IN 0 < along(frameStart) /\ along(frameStart) <= along(to)

\* From the fourth packet on a scan is split exactly when the sweep passes the start
\* angle: once a turn, whatever packets are lost.
SplitsAtStart ==
  [][turns = SettledAfter /\ ~scanComplete =>
       (scanComplete' <=> Passes(azimuth, azimuth'))]_vars

\* The second decode of the packet that split the scan stores it: it does not split
\* once more, which would lose the packet and leave its index counted.
SecondDecodeStores == [][scanComplete => ~scanComplete']_vars
=============================================================================

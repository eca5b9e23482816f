---------------------------- MODULE AzimuthSplit ----------------------------
(***************************************************************************)
(* The rule by which the parsers of the turning lidars decide that a packet *)
(* opens a new scan (IsNeedFrameSplit in general_parser.h, UpdateRotation   *)
(* in lidar_types.h), as operators: a is the azimuth of the packet, last    *)
(* and lastLast are the two azimuths before it, start is the angle at which *)
(* scans begin and flag the votes for a direction so far.                   *)
(***************************************************************************)
EXTENDS Integers

CONSTANTS FlagLimit,     \* the votes are reduced beyond this number (128 * 8 in the code)
          FlagReduction  \* what they are divided by (128 in the code)

ASSUME FlagAssumption == FlagLimit \in Nat \ {0} /\ FlagReduction \in Nat \ {0, 1}

Abs(n) == IF n < 0 THEN -n ELSE n

\* Division in C++ truncates towards zero.
Quotient(n, d) == IF n < 0 THEN -((-n) \div d) ELSE n \div d

\* The smaller of the last two advances, a step across the seam counting as a large one.
DivisionOfLast(a, last, lastLast) == Abs(last - a)         \* mutant
Division(a, last, lastLast) ==
  LET division1 == Abs(last - lastLast)
      division2 == Abs(last - a)
  IN IF division1 > division2 THEN division2 ELSE division1

UpdateRotationUnreduced(flag, vote) == flag + vote         \* mutant
\* UpdateRotation: a vote for a direction.  The early return at 10240 is never taken,
\* as the flag is reduced long before.
UpdateRotation(flag, vote) ==
  (IF Abs(flag) > FlagLimit THEN Quotient(flag, FlagReduction) ELSE flag) + vote

\* The direction three azimuths speak for.
Vote(a, last, lastLast) ==
  IF \/ lastLast - last = Division(a, last, lastLast)
     \/ last - a = Division(a, last, lastLast)
  THEN -1 ELSE 1

\* The flag after the packet: it does not move while the azimuth stands still.
RotationAfter(flag, a, last, lastLast) ==
  IF Division(a, last, lastLast) = 0 THEN flag
  ELSE UpdateRotation(flag, Vote(a, last, lastLast))

\* The tests for a lidar that turns towards larger, or towards smaller azimuths.
SplitsForward(start, a, last, lastLast) ==
  IF last - a > Division(a, last, lastLast)
  THEN start > last \/ start <= a
  ELSE last < a /\ last < start /\ a >= start

SplitsBackward(start, a, last, lastLast) ==
  IF a - last > Division(a, last, lastLast)
  THEN start < last \/ start >= a
  ELSE last > a /\ last > start /\ a <= start

IsNeedFrameSplit(start, flag, a, last, lastLast) ==
  /\ Division(a, last, lastLast) # 0
  /\ IF RotationAfter(flag, a, last, lastLast) > 0
     THEN SplitsForward(start, a, last, lastLast)
     ELSE SplitsBackward(start, a, last, lastLast)
=============================================================================

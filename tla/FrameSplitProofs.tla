-------------------------- MODULE FrameSplitProofs --------------------------
(***************************************************************************)
(* Proofs about FrameSplit for every number of azimuth units, every advance  *)
(* of less than half a turn, every start angle, and every limit of the vote. *)
(***************************************************************************)
EXTENDS FrameSplit, TLAPS

(* Arithmetic on the circle *)

\* The remainder of a number that is at most one turn off the circle.
LEMMA OneTurn ==
  ASSUME NEW C \in Nat \ {0}, NEW x \in (-C)..(2 * C - 1)
  PROVE  x % C = IF x < 0 THEN x + C ELSE IF x >= C THEN x - C ELSE x
<1>1. CASE x < 0
  BY <1>1
<1>2. CASE x >= 0 /\ x < C
  BY <1>2
<1>3. CASE x >= C
  BY <1>3
<1> QED
  BY <1>1, <1>2, <1>3

\* Halving, or more, a positive number.
LEMMA Reduced ==
  ASSUME NEW n \in Nat \ {0}, NEW d \in Nat \ {0, 1}
  PROVE  n \div d \in 0..(n - 1)
<1>1. n % d \in 0..(d - 1) /\ n = d * (n \div d) + (n % d) /\ n \div d \in Int
  OBVIOUS
<1> QED
  BY <1>1
-----------------------------------------------------------------------------
(* The vote and the split of three azimuths *)

\* A packet at b follows one at a: the lidar has advanced by step.
Advance(d, step, a, b) == b = (a + d * step) % Circle

\* Where an advance by less than half a turn ends: on, or past the seam.
LEMMA AdvanceCases ==
  ASSUME NEW d \in {-1, 1}, NEW step \in 0..MaxStep, NEW a \in Azimuths, NEW b,
         Advance(d, step, a, b)
  PROVE  /\ b \in Azimuths
         /\ d = 1 => b = IF a + step >= Circle THEN a + step - Circle ELSE a + step
         /\ d = -1 => b = IF a - step < 0 THEN a - step + Circle ELSE a - step
<1> DEFINE x == a + d * step
<1>1. /\ Circle \in Nat \ {0} /\ step \in Nat /\ 2 * step < Circle
      /\ a \in 0..(Circle - 1)
  BY SplitAssumption DEF Azimuths
<1>2. x = IF d = 1 THEN a + step ELSE a - step
  BY <1>1
<1>3. x \in (-Circle)..(2 * Circle - 1)
  BY <1>1, <1>2
<1> HIDE DEF x
<1>4. x % Circle = IF x < 0 THEN x + Circle ELSE IF x >= Circle THEN x - Circle ELSE x
  BY <1>1, <1>3, OneTurn
<1>5. b = x % Circle
  BY DEF Advance, x
<1> QED
  BY <1>1, <1>2, <1>4, <1>5 DEF Azimuths

\* Two real advances in a row: the azimuths speak for the direction of the lidar, and at
\* most one of the two crosses the seam, so that the smaller difference is an advance.
LEMMA VoteIsRight ==
  ASSUME NEW d \in {-1, 1}, NEW s \in 1..MaxStep, NEW step \in 1..MaxStep,
         NEW lastLast \in Azimuths, NEW last, NEW a,
         Advance(d, s, lastLast, last), Advance(d, step, last, a)
  PROVE  Division(a, last, lastLast) # 0 /\ Vote(a, last, lastLast) = d
<1>1. /\ Circle \in Nat \ {0} /\ MaxStep \in Nat /\ 2 * MaxStep < Circle
      /\ lastLast \in 0..(Circle - 1) /\ s \in 0..MaxStep /\ step \in 0..MaxStep
  BY SplitAssumption DEF Azimuths
<1>2. /\ last \in Azimuths
      /\ d = 1 => last = IF lastLast + s >= Circle THEN lastLast + s - Circle ELSE lastLast + s
      /\ d = -1 => last = IF lastLast - s < 0 THEN lastLast - s + Circle ELSE lastLast - s
  BY <1>1, AdvanceCases
<1>3. /\ a \in Azimuths
      /\ d = 1 => a = IF last + step >= Circle THEN last + step - Circle ELSE last + step
      /\ d = -1 => a = IF last - step < 0 THEN last - step + Circle ELSE last - step
  BY <1>1, <1>2, AdvanceCases
<1>4. CASE d = 1
  BY <1>1, <1>2, <1>3, <1>4 DEF Division, Vote, Abs, Azimuths
<1>5. CASE d = -1
  BY <1>1, <1>2, <1>3, <1>5 DEF Division, Vote, Abs, Azimuths
<1> QED
  BY <1>4, <1>5

\* A packet at the azimuth of the one before neither votes nor splits.
LEMMA StandsStill ==
  ASSUME NEW a \in Azimuths, NEW lastLast \in Azimuths
  PROVE  Division(a, a, lastLast) = 0
BY SplitAssumption DEF Division, Abs, Azimuths

\* The vote moves the flag by one, and a flag that is reduced keeps its sign.
LEMMA FlagMoves ==
  ASSUME NEW flag \in -(FlagLimit + 1)..(FlagLimit + 1), NEW vote \in {-1, 1}
  PROVE  /\ UpdateRotation(flag, vote) \in -(FlagLimit + 1)..(FlagLimit + 1)
         /\ flag >= 0 /\ vote = 1 => UpdateRotation(flag, vote) > 0
         /\ flag <= 0 /\ vote = -1 => UpdateRotation(flag, vote) < 0
         /\ flag \in {-1, 0, 1} => UpdateRotation(flag, vote) = flag + vote
<1>1. FlagLimit \in Nat \ {0} /\ FlagReduction \in Nat \ {0, 1}
  BY FlagAssumption
<1>2. CASE flag > FlagLimit
  <2>1. flag \in Nat \ {0}
    BY <1>1, <1>2
  <2>2. flag \div FlagReduction \in 0..(flag - 1)
    BY <1>1, <2>1, Reduced
  <2>3. UpdateRotation(flag, vote) = (flag \div FlagReduction) + vote
    BY <1>1, <1>2 DEF UpdateRotation, Quotient, Abs
  <2> QED
    BY <1>1, <1>2, <2>2, <2>3
<1>3. CASE flag < -FlagLimit
  <2>1. -flag \in Nat \ {0}
    BY <1>1, <1>3
  <2>2. (-flag) \div FlagReduction \in 0..((-flag) - 1)
    BY <1>1, <2>1, Reduced
  <2>3. UpdateRotation(flag, vote) = -((-flag) \div FlagReduction) + vote
    BY <1>1, <1>3 DEF UpdateRotation, Quotient, Abs
  <2> QED
    BY <1>1, <1>3, <2>2, <2>3
<1>4. CASE ~(flag > FlagLimit) /\ ~(flag < -FlagLimit)
  BY <1>1, <1>4 DEF UpdateRotation, Abs
<1> QED
  BY <1>1, <1>2, <1>3, <1>4
-----------------------------------------------------------------------------
(* The inductive invariant *)

\* A packet at another azimuth than the one before has moved on.
MovedOn == \E s \in 1..MaxStep : Advance(direction, s, lastLastAzimuth, lastAzimuth)

\* The flag is right from the third real packet on: the second may have voted against the
\* direction, together with the azimuth 0 of the constructor, and the third makes up for it.
SplitInv ==
  /\ TypeOK
  /\ azimuth = lastAzimuth
  /\ turns = 0 => lastAzimuth = 0 /\ lastLastAzimuth = 0 /\ ~scanComplete
  /\ turns < 2 => rotationFlag = 0
  /\ turns = 2 => rotationFlag \in {-1, 0, 1}
  /\ turns >= 2 => MovedOn
  /\ turns = SettledAfter /\ direction = 1 => rotationFlag >= 0
  /\ turns = SettledAfter /\ direction = -1 => rotationFlag <= 0

\* What DecodePacket does with the azimuth of a packet.
LEMMA DecodeFacts ==
  ASSUME TypeOK, NEW a \in Azimuths, Decode(a)
  PROVE  /\ azimuth' = a /\ lastAzimuth' = a
         /\ lastLastAzimuth' = IF a = lastAzimuth THEN lastLastAzimuth ELSE lastAzimuth
         /\ lastLastAzimuth' \in Azimuths
         /\ scanComplete' \in BOOLEAN
         /\ rotationFlag' \in -(FlagLimit + 1)..(FlagLimit + 1)
         /\ a = lastAzimuth => rotationFlag' = rotationFlag /\ ~scanComplete'
         /\ rotationFlag = 0 /\ turns = 0 /\ lastLastAzimuth = lastAzimuth => rotationFlag' = 0
         /\ rotationFlag = 0 => rotationFlag' \in {-1, 0, 1}
<1>1. /\ lastAzimuth \in Azimuths /\ lastLastAzimuth \in Azimuths
      /\ rotationFlag \in -(FlagLimit + 1)..(FlagLimit + 1)
  BY DEF TypeOK
<1>2. /\ azimuth' = a /\ lastAzimuth' = a
      /\ lastLastAzimuth' = IF a = lastAzimuth THEN lastLastAzimuth ELSE lastAzimuth
  BY DEF Decode, MoveOn
<1> DEFINE D    == Division(a, lastAzimuth, lastLastAzimuth)
           vote == Vote(a, lastAzimuth, lastLastAzimuth)
           flag == UpdateRotation(rotationFlag, vote)
<1>3. vote \in {-1, 1}
  BY DEF Vote
<1>4. rotationFlag' = IF D = 0 THEN rotationFlag ELSE flag
  BY DEF Decode, RotationAfter
<1>5. scanComplete' = IsNeedFrameSplit(frameStart, rotationFlag, a, lastAzimuth, lastLastAzimuth)
  BY DEF Decode
<1>6. scanComplete' \in BOOLEAN /\ (D = 0 => ~scanComplete')
  BY <1>5 DEF IsNeedFrameSplit
<1> HIDE DEF vote
<1>7. flag \in -(FlagLimit + 1)..(FlagLimit + 1) /\ (rotationFlag = 0 => flag = 0 + vote)
  BY <1>1, <1>3, FlagMoves
<1>8. a = lastAzimuth => D = 0
  BY <1>1, StandsStill
<1>9. lastLastAzimuth = lastAzimuth => D = 0
  BY <1>1, SplitAssumption DEF Division, Abs, Azimuths
<1> HIDE DEF D, flag
<1> QED
  BY <1>1, <1>2, <1>3, <1>4, <1>6, <1>7, <1>8, <1>9

\* A packet that really moves on, after another that did, votes for the direction.
LEMMA VoteCounts ==
  ASSUME TypeOK, MovedOn, NEW step \in 1..MaxStep, NEW a \in Azimuths,
         Advance(direction, step, lastAzimuth, a)
  PROVE  /\ Division(a, lastAzimuth, lastLastAzimuth) # 0
         /\ RotationAfter(rotationFlag, a, lastAzimuth, lastLastAzimuth)
              = UpdateRotation(rotationFlag, direction)
<1>1. PICK s \in 1..MaxStep : Advance(direction, s, lastLastAzimuth, lastAzimuth)
  BY DEF MovedOn
<1>2. direction \in {-1, 1} /\ lastLastAzimuth \in Azimuths
  BY DEF TypeOK
<1>3. /\ Division(a, lastAzimuth, lastLastAzimuth) # 0
      /\ Vote(a, lastAzimuth, lastLastAzimuth) = direction
  BY <1>1, <1>2, VoteIsRight
<1> QED
  BY <1>3 DEF RotationAfter

LEMMA InitSplitInv == Init => SplitInv
<1> SUFFICES ASSUME Init PROVE SplitInv
  OBVIOUS
<1>1. 0 \in Azimuths /\ 0 \in -(FlagLimit + 1)..(FlagLimit + 1) /\ SettledAfter = 3
  BY SplitAssumption, FlagAssumption DEF Azimuths, SettledAfter
<1>2. scanComplete \in BOOLEAN
  BY DEF Init
<1> QED
  BY <1>1, <1>2 DEF Init, SplitInv, TypeOK

\* Every packet keeps the invariant, wherever the scan begins.
LEMMA NextSplitInv == SplitInv /\ [Next]_vars => SplitInv'
<1> SUFFICES ASSUME SplitInv, [Next]_vars PROVE SplitInv'
  OBVIOUS
<1>0. /\ TypeOK /\ azimuth = lastAzimuth /\ SettledAfter = 3
      /\ frameStart \in Azimuths /\ direction \in {-1, 1} /\ lastAzimuth \in Azimuths
      /\ turns \in 0..3 /\ 0 \in Azimuths
  BY SplitAssumption DEF SplitInv, TypeOK, SettledAfter, Azimuths
<1>1. CASE FirstPacket
  <2>1. PICK a \in Azimuths : Decode(a)
    BY <1>1 DEF FirstPacket
  <2>2. turns = 0 /\ turns' = 1 /\ lastAzimuth = 0 /\ lastLastAzimuth = 0 /\ rotationFlag = 0
    BY <1>1 DEF FirstPacket, SplitInv
  <2>3. /\ azimuth' = a /\ lastAzimuth' = a /\ lastLastAzimuth' \in Azimuths
        /\ scanComplete' \in BOOLEAN /\ rotationFlag' = 0
        /\ rotationFlag' \in -(FlagLimit + 1)..(FlagLimit + 1)
    BY <1>0, <2>1, <2>2, DecodeFacts
  <2>4. frameStart' = frameStart /\ direction' = direction
    BY <2>1 DEF Decode
  <2>5. TypeOK'
    BY <1>0, <2>2, <2>3, <2>4 DEF TypeOK
  <2> QED
    BY <1>0, <2>2, <2>3, <2>5 DEF SplitInv
<1>2. CASE NextPacket
  <2>1. PICK step \in 0..MaxStep :
          /\ Decode((azimuth + direction * step) % Circle)
          /\ turns' = IF step = 0 \/ turns = SettledAfter THEN turns ELSE turns + 1
    BY <1>2 DEF NextPacket
  <2> DEFINE a == (azimuth + direction * step) % Circle
  <2>2. Advance(direction, step, lastAzimuth, a)
    BY <1>0 DEF Advance
  <2>3. Decode(a) /\ frameStart' = frameStart /\ direction' = direction
    BY <2>1 DEF Decode
  <2> HIDE DEF a
  <2>4. a \in Azimuths /\ (step = 0 <=> a = lastAzimuth)
    <3>1. /\ a \in Azimuths
          /\ direction = 1 => a = IF lastAzimuth + step >= Circle
                                  THEN lastAzimuth + step - Circle ELSE lastAzimuth + step
          /\ direction = -1 => a = IF lastAzimuth - step < 0
                                   THEN lastAzimuth - step + Circle ELSE lastAzimuth - step
      BY <1>0, <2>2, AdvanceCases
    <3> QED
      BY <1>0, <3>1, SplitAssumption DEF Azimuths
  <2>5. /\ azimuth' = a /\ lastAzimuth' = a
        /\ lastLastAzimuth' = IF a = lastAzimuth THEN lastLastAzimuth ELSE lastAzimuth
        /\ lastLastAzimuth' \in Azimuths
        /\ scanComplete' \in BOOLEAN
        /\ rotationFlag' \in -(FlagLimit + 1)..(FlagLimit + 1)
        /\ a = lastAzimuth => rotationFlag' = rotationFlag
        /\ rotationFlag = 0 => rotationFlag' \in {-1, 0, 1}
    BY <1>0, <2>3, <2>4, DecodeFacts
  <2>6. turns > 0
    BY <1>2 DEF NextPacket
  <2>7. TypeOK'
    BY <1>0, <2>1, <2>3, <2>4, <2>5, <2>6 DEF TypeOK
  <2>8. CASE step = 0
    <3>1. UNCHANGED <<azimuth, lastAzimuth, lastLastAzimuth, rotationFlag, turns, direction>>
      BY <1>0, <2>1, <2>3, <2>4, <2>5, <2>8
    <3>2. turns' # 0 /\ (MovedOn => MovedOn')
      BY <2>6, <3>1 DEF MovedOn, Advance
    <3> QED
      BY <2>7, <3>1, <3>2 DEF SplitInv
  <2>9. CASE step # 0
    <3>1. step \in 1..MaxStep /\ lastLastAzimuth' = lastAzimuth
      BY <2>4, <2>5, <2>9, SplitAssumption
    <3>2. MovedOn'
      BY <2>2, <2>3, <2>5, <3>1 DEF MovedOn, Advance
    <3>3. CASE turns = 1
      <4>1. turns' = 2 /\ rotationFlag' \in {-1, 0, 1}
        BY <1>0, <2>1, <2>5, <2>9, <3>3 DEF SplitInv
      <4> QED
        BY <1>0, <2>5, <2>7, <3>2, <4>1 DEF SplitInv
    <3>4. CASE turns \in {2, 3}
      <4>1. MovedOn /\ turns' = 3
        BY <1>0, <2>1, <2>9, <3>4 DEF SplitInv
      <4>2. rotationFlag' = UpdateRotation(rotationFlag, direction)
        BY <1>0, <2>2, <2>3, <2>4, <3>1, <4>1, VoteCounts DEF Decode
      <4>3. rotationFlag \in -(FlagLimit + 1)..(FlagLimit + 1)
        BY <1>0 DEF TypeOK
      <4>4. /\ rotationFlag >= 0 /\ direction = 1 => rotationFlag' > 0
            /\ rotationFlag <= 0 /\ direction = -1 => rotationFlag' < 0
            /\ rotationFlag \in {-1, 0, 1} => rotationFlag' = rotationFlag + direction
        BY <1>0, <4>2, <4>3, FlagMoves
      <4>5. /\ direction = 1 => rotationFlag' >= 0
            /\ direction = -1 => rotationFlag' <= 0
        <5>1. CASE turns = 2
          BY <4>4, <5>1 DEF SplitInv
        <5>2. CASE turns = 3
          <6>1. /\ direction = 1 => rotationFlag >= 0
                /\ direction = -1 => rotationFlag <= 0
            BY <1>0, <5>2 DEF SplitInv
          <6> QED
            BY <2>5, <4>3, <4>4, <6>1, FlagAssumption
        <5> QED
          BY <3>4, <5>1, <5>2
      <4> QED
        BY <1>0, <2>3, <2>5, <2>7, <3>2, <4>1, <4>5 DEF SplitInv
    <3> QED
      BY <1>0, <2>6, <3>3, <3>4
  <2> QED
    BY <2>8, <2>9
<1>3. CASE SecondDecode
  <2>1. Decode(azimuth) /\ turns' = turns /\ frameStart' = frameStart /\ direction' = direction
    BY <1>3 DEF SecondDecode, Decode
  <2>2. /\ UNCHANGED <<azimuth, lastAzimuth, lastLastAzimuth, rotationFlag>>
        /\ scanComplete' \in BOOLEAN
    BY <1>0, <2>1, DecodeFacts
  <2>3. TypeOK' /\ (MovedOn => MovedOn')
    BY <1>0, <2>1, <2>2 DEF TypeOK, MovedOn, Advance
  <2>4. turns # 0
    BY <1>3 DEF SecondDecode, SplitInv
  <2> QED
    BY <2>1, <2>2, <2>3, <2>4 DEF SplitInv
<1>4. CASE UNCHANGED vars
  <2>1. TypeOK' /\ (MovedOn => MovedOn')
    BY <1>0, <1>4 DEF vars, TypeOK, MovedOn, Advance
  <2> QED
    BY <1>4, <2>1 DEF vars, SplitInv
<1> QED
  BY <1>1, <1>2, <1>3, <1>4 DEF Next

LEMMA SplitInvHolds == Spec => []SplitInv
<1> QED
  BY InitSplitInv, NextSplitInv, PTL DEF Spec
-----------------------------------------------------------------------------
\* With the direction settled, the tests of IsNeedFrameSplit say whether the sweep of a
\* real advance passes the start angle, the seam or not.
LEMMA SplitMatches ==
  ASSUME NEW s \in 1..MaxStep, NEW step \in 1..MaxStep,
         direction \in {-1, 1}, frameStart \in Azimuths,
         NEW lastLast \in Azimuths, NEW last, NEW a,
         Advance(direction, s, lastLast, last), Advance(direction, step, last, a)
  PROVE  /\ direction = 1 => (SplitsForward(frameStart, a, last, lastLast) <=> Passes(last, a))
         /\ direction = -1 => (SplitsBackward(frameStart, a, last, lastLast) <=> Passes(last, a))
<1>1. /\ Circle \in Nat \ {0} /\ MaxStep \in Nat /\ 2 * MaxStep < Circle
      /\ lastLast \in 0..(Circle - 1) /\ s \in 0..MaxStep /\ step \in 0..MaxStep
      /\ frameStart \in 0..(Circle - 1)
  BY SplitAssumption DEF Azimuths
<1>2. /\ last \in 0..(Circle - 1)
      /\ direction = 1 => last = IF lastLast + s >= Circle THEN lastLast + s - Circle ELSE lastLast + s
      /\ direction = -1 => last = IF lastLast - s < 0 THEN lastLast - s + Circle ELSE lastLast - s
  BY <1>1, AdvanceCases DEF Azimuths
<1>3. /\ a \in 0..(Circle - 1)
      /\ direction = 1 => a = IF last + step >= Circle THEN last + step - Circle ELSE last + step
      /\ direction = -1 => a = IF last - step < 0 THEN last - step + Circle ELSE last - step
  BY <1>1, <1>2, AdvanceCases DEF Azimuths
<1> DEFINE x == direction * (frameStart - last)
           y == direction * (a - last)
<1>4. /\ direction = 1 => x = frameStart - last /\ y = a - last
      /\ direction = -1 => x = last - frameStart /\ y = last - a
      /\ x \in (-Circle)..(2 * Circle - 1) /\ y \in (-Circle)..(2 * Circle - 1)
  BY <1>1, <1>2, <1>3
<1>5. Passes(last, a) <=> 0 < x % Circle /\ x % Circle <= y % Circle
  BY DEF Passes
<1> HIDE DEF x, y
<1>6. /\ x % Circle = IF x < 0 THEN x + Circle ELSE IF x >= Circle THEN x - Circle ELSE x
      /\ y % Circle = IF y < 0 THEN y + Circle ELSE IF y >= Circle THEN y - Circle ELSE y
  BY <1>1, <1>4, OneTurn
<1>7. CASE direction = 1
  <2>1. y % Circle = step
    BY <1>1, <1>2, <1>3, <1>4, <1>6, <1>7
  <2>2. last - a > Division(a, last, lastLast) <=> a < last
    BY <1>1, <1>2, <1>3, <1>7 DEF Division, Abs
  <2>3. SplitsForward(frameStart, a, last, lastLast)
           <=> IF a < last THEN frameStart > last \/ frameStart <= a
               ELSE last < a /\ last < frameStart /\ a >= frameStart
    BY <2>2 DEF SplitsForward
  <2> QED
    BY <1>1, <1>2, <1>3, <1>4, <1>5, <1>6, <1>7, <2>1, <2>3
<1>8. CASE direction = -1
  <2>1. y % Circle = step
    BY <1>1, <1>2, <1>3, <1>4, <1>6, <1>8
  <2>2. a - last > Division(a, last, lastLast) <=> last < a
    BY <1>1, <1>2, <1>3, <1>8 DEF Division, Abs
  <2>3. SplitsBackward(frameStart, a, last, lastLast)
           <=> IF last < a THEN frameStart < last \/ frameStart >= a
               ELSE last > a /\ last > frameStart /\ a <= frameStart
    BY <2>2 DEF SplitsBackward
  <2> QED
    BY <1>1, <1>2, <1>3, <1>4, <1>5, <1>6, <1>8, <2>1, <2>3
<1> QED
  BY <1>7, <1>8

\* The sweep of a packet that stands still passes nothing.
LEMMA StillPassesNothing ==
  ASSUME direction \in {-1, 1}, frameStart \in Azimuths, NEW a \in Azimuths
  PROVE  ~Passes(a, a)
<1> DEFINE x == direction * (frameStart - a)
           y == direction * (a - a)
<1>1. /\ Circle \in Nat \ {0} /\ y = 0 /\ x \in (-Circle)..(2 * Circle - 1)
      /\ 0 \in (-Circle)..(2 * Circle - 1)
  BY SplitAssumption DEF Azimuths
<1>2. 0 % Circle = 0
  BY <1>1, OneTurn
<1>3. Passes(a, a) <=> 0 < x % Circle /\ x % Circle <= y % Circle
  BY DEF Passes
<1> HIDE DEF x, y
<1>4. x % Circle \in Int
  BY <1>1
<1> QED
  BY <1>1, <1>2, <1>3, <1>4

\* From the fourth packet on a scan is split exactly when the sweep passes the start angle,
\* for every start angle, either direction, and gaps of up to half a turn.
THEOREM SplitAtStartAngle == Spec => SplitsAtStart
<1>1. ASSUME SplitInv, [Next]_vars, turns = SettledAfter, ~scanComplete, ~(UNCHANGED vars)
      PROVE  scanComplete' <=> Passes(azimuth, azimuth')
  <2>0. /\ TypeOK /\ azimuth = lastAzimuth /\ SettledAfter = 3 /\ turns = 3
        /\ frameStart \in Azimuths /\ direction \in {-1, 1} /\ lastAzimuth \in Azimuths
        /\ lastLastAzimuth \in Azimuths /\ MovedOn
        /\ rotationFlag \in -(FlagLimit + 1)..(FlagLimit + 1)
        /\ direction = 1 => rotationFlag >= 0
        /\ direction = -1 => rotationFlag <= 0
    BY <1>1 DEF SplitInv, TypeOK, SettledAfter
  <2>1. NextPacket
    BY <1>1, <2>0 DEF Next, FirstPacket, SecondDecode
  <2>2. PICK step \in 0..MaxStep : Decode((azimuth + direction * step) % Circle)
    BY <2>1 DEF NextPacket
  <2> DEFINE a == (azimuth + direction * step) % Circle
  <2>3. Decode(a) /\ Advance(direction, step, lastAzimuth, a)
    BY <2>0, <2>2 DEF Advance
  <2> HIDE DEF a
  <2>4. a \in Azimuths
    BY <2>0, <2>3, AdvanceCases
  <2>5. azimuth' = a /\ (a = lastAzimuth => ~scanComplete')
    BY <2>0, <2>3, <2>4, DecodeFacts
  <2>6. CASE step = 0
    <3>1. a = lastAzimuth
      <4>1. /\ direction = 1 => a = IF lastAzimuth + step >= Circle
                                    THEN lastAzimuth + step - Circle ELSE lastAzimuth + step
            /\ direction = -1 => a = IF lastAzimuth - step < 0
                                     THEN lastAzimuth - step + Circle ELSE lastAzimuth - step
        BY <2>0, <2>3, AdvanceCases
      <4> QED
        BY <2>0, <2>6, <4>1, SplitAssumption DEF Azimuths
    <3> QED
      BY <2>0, <2>5, <3>1, StillPassesNothing
  <2>7. CASE step # 0
    <3>1. step \in 1..MaxStep
      BY <2>7, SplitAssumption
    <3>2. PICK s \in 1..MaxStep : Advance(direction, s, lastLastAzimuth, lastAzimuth)
      BY <2>0 DEF MovedOn
    <3> DEFINE D     == Division(a, lastAzimuth, lastLastAzimuth)
               after == RotationAfter(rotationFlag, a, lastAzimuth, lastLastAzimuth)
    <3>3. D # 0 /\ after = UpdateRotation(rotationFlag, direction)
      BY <2>0, <2>3, <2>4, <3>1, VoteCounts
    <3>4. scanComplete' <=> IF after > 0
                            THEN SplitsForward(frameStart, a, lastAzimuth, lastLastAzimuth)
                            ELSE SplitsBackward(frameStart, a, lastAzimuth, lastLastAzimuth)
      BY <2>3, <3>3 DEF Decode, IsNeedFrameSplit
    <3> HIDE DEF after, D
    <3>5. /\ direction = 1 => after > 0
          /\ direction = -1 => after < 0 /\ after \in Int
      BY <2>0, <3>3, FlagMoves, FlagAssumption
    <3>6. /\ direction = 1 => (SplitsForward(frameStart, a, lastAzimuth, lastLastAzimuth)
                                 <=> Passes(lastAzimuth, a))
          /\ direction = -1 => (SplitsBackward(frameStart, a, lastAzimuth, lastLastAzimuth)
                                  <=> Passes(lastAzimuth, a))
      BY <2>0, <2>3, <3>1, <3>2, SplitMatches
    <3>7. direction = -1 => ~(after > 0)
      BY <3>5
    <3> QED
      BY <2>0, <2>5, <3>4, <3>5, <3>6, <3>7
  <2> QED
    BY <2>6, <2>7
<1>2. SplitInv /\ [Next]_vars
        => [turns = SettledAfter /\ ~scanComplete
              => (scanComplete' <=> Passes(azimuth, azimuth'))]_vars
  BY <1>1
<1> QED
  BY <1>2, SplitInvHolds, PTL DEF Spec, SplitsAtStart

\* The packet that split a scan is stored by its second decode, in the next scan.
THEOREM SplitOnce == Spec => SecondDecodeStores
<1>1. SplitInv /\ [Next]_vars => [scanComplete => ~scanComplete']_vars
  <2> SUFFICES ASSUME SplitInv, Next, scanComplete PROVE ~scanComplete'
    OBVIOUS
  <2>1. Decode(azimuth)
    BY DEF Next, FirstPacket, NextPacket, SecondDecode, SplitInv
  <2>2. TypeOK /\ azimuth = lastAzimuth /\ azimuth \in Azimuths
    BY DEF SplitInv, TypeOK
  <2> QED
    BY <2>1, <2>2, DecodeFacts
<1> QED
  BY <1>1, SplitInvHolds, PTL DEF Spec, SecondDecodeStores
=============================================================================

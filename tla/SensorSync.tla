----------------------------- MODULE SensorSync -----------------------------
(***************************************************************************)
(* The ROS side of Super-LIO (ROSWrapper.cpp): the scan and IMU callbacks   *)
(* fill two buffers, and sync_measure() takes from them one scan together   *)
(* with the IMU samples up to its end.  Callbacks and sync_measure() run in *)
(* one thread, in any order.                                               *)
(*                                                                         *)
(* A message is its time stamps.  The environment sends IMU samples with    *)
(* growing stamps, some missing, and scans that do not overlap; a scan may  *)
(* have no duration (all its later points were filtered).  MaxLoopBacks     *)
(* times one of the clocks may jump back, as both do when a bag restarts.   *)
(***************************************************************************)
EXTENDS Integers, Sequences

CONSTANTS MaxTime,       \* bound on the stamps
          MaxScanTime,   \* bound on the duration of a scan
          MaxLoopBacks,  \* bound on the backward jumps of either clock
          MaxScansWaiting,  \* bounds on the messages that arrive before process()
          MaxImuWaiting     \* is called again

ASSUME SyncAssumption == /\ MaxTime \in Nat \ {0, 1}
                         /\ MaxScanTime \in Nat
                         /\ MaxLoopBacks \in Nat
                         /\ MaxScansWaiting \in Nat \ {0}
                         /\ MaxImuWaiting \in Nat \ {0}

VARIABLES
  imuBuf,     \* imu_buffer_: stamps
  lidarBuf,   \* lidar_buffer_: scans
  meas,       \* measures_: the scan copied last and its IMU group
  pushed,     \* lidar_pushed_
  lastImu,    \* last_timestamp_imu_
  lastLidar,  \* last_timestamp_lidar_
  scanClock,  \* the environment: end of the newest scan sent
  loopBacks,  \* the environment: backward jumps so far
  imuIn       \* history: the samples received since the last backward jump

envVars  == <<scanClock, loopBacks>>
syncVars == <<imuBuf, lidarBuf, meas, pushed, lastImu, lastLidar, envVars, imuIn>>

Stamps == 1..MaxTime

\* An IMU sample arrives after the end of the newest scan in the end, so scans
\* end before the last stamp.
Scans == {s \in [start : Stamps, end : Stamps] :
            /\ s.start <= s.end
            /\ s.end - s.start <= MaxScanTime
            /\ s.end < MaxTime}

SyncTypeOK == /\ imuBuf \in Seq(Stamps)
              /\ lidarBuf \in Seq(Scans)
              /\ meas \in [start : 0..MaxTime, end : 0..MaxTime, imu : Seq(Stamps)]
              /\ pushed \in BOOLEAN
              /\ lastImu \in {-1} \cup Stamps
              /\ lastLidar \in {-1} \cup Stamps
              /\ scanClock \in 0..MaxTime
              /\ loopBacks \in 0..MaxLoopBacks
              /\ imuIn \in Seq(Stamps)

SyncInit == /\ imuBuf = <<>>
            /\ lidarBuf = <<>>
            /\ meas = [start |-> 0, end |-> 0, imu |-> <<>>]
            /\ pushed = FALSE
            /\ lastImu = -1
            /\ lastLidar = -1
            /\ scanClock = 0
            /\ loopBacks = 0
            /\ imuIn = <<>>
-----------------------------------------------------------------------------
\* stdMsgHandler, for a scan that starts after the end of the one before it.
StdMsgHandler(s) ==
  /\ s.start > scanClock
  /\ Len(lidarBuf) < MaxScansWaiting
  /\ lidarBuf' = Append(lidarBuf, s)
  /\ scanClock' = s.end
  /\ UNCHANGED <<imuBuf, meas, pushed, lastImu, lastLidar, loopBacks, imuIn>>

\* stdMsgHandler, for a scan from before the newest one: it is buffered all the same.
StdMsgLoopBack(s) ==
  /\ s.start <= scanClock
  /\ Len(lidarBuf) < MaxScansWaiting
  /\ loopBacks < MaxLoopBacks
  /\ lidarBuf' = Append(lidarBuf, s)
  /\ scanClock' = s.end
  /\ loopBacks' = loopBacks + 1
  /\ UNCHANGED <<imuBuf, meas, pushed, lastImu, lastLidar, imuIn>>

\* imuHandler, for a sample in order.
ImuInOrder(t) ==
  /\ t > lastImu
  /\ Len(imuBuf) < MaxImuWaiting
  /\ imuBuf' = Append(imuBuf, t)
  /\ imuIn' = Append(imuIn, t)
  /\ lastImu' = t
  /\ UNCHANGED <<lidarBuf, meas, pushed, lastLidar, envVars>>

\* imuHandler, "imu loop back": the samples waiting are thrown away.
ImuLoopBack(t) ==
  /\ t < lastImu
  /\ loopBacks < MaxLoopBacks
  /\ imuBuf' = <<t>>
  /\ imuIn' = <<t>>
  /\ lastImu' = t
  /\ loopBacks' = loopBacks + 1
  /\ UNCHANGED <<lidarBuf, meas, pushed, lastLidar, scanClock>>

\* The scan sync_measure works on: the copy taken by an earlier call, or the front.
Current == IF pushed THEN [start |-> meas.start, end |-> meas.end] ELSE Head(lidarBuf)

HasBoth == lidarBuf # <<>> /\ imuBuf # <<>>

\* The number of samples the loop over the IMU buffer takes for a scan ending at e:
\* up to the first one that is later than e, or up to one that equals e.  A sample
\* equal to e at the front is not taken.
GroupSizeOneTooLate(q, e) == Len(SelectSeq(q, LAMBDA t : t <= e + 1))     \* mutant
GroupSize(q, e) ==
  IF q[1] >= e THEN 0
  ELSE CHOOSE k \in 1..Len(q) :
         /\ q[k] <= e
         /\ \A j \in 1..(k - 1) : q[j] < e
         /\ k < Len(q) => q[k] = e \/ q[k + 1] > e

\* "lidar loop back": the scan ends before one that was used.
Outdated == lastLidar > Current.end

\* The samples reach the end of the scan.
ImuReachesStart == lastImu >= Current.start     \* mutant
ImuReachesEnd == lastImu >= Current.end

\* The scan leaves the buffer, and its copy is no longer the one to use.
ReleaseKeepsFlag == lidarBuf' = Tail(lidarBuf) /\ UNCHANGED pushed       \* mutant
ReleaseCopyOnly  == UNCHANGED lidarBuf /\ pushed' = FALSE                \* mutant
Release == lidarBuf' = Tail(lidarBuf) /\ pushed' = FALSE

\* sync_measure when the scan is older than one already used: it is dropped.
SyncDrop ==
  /\ HasBoth
  /\ Outdated
  /\ meas' = [meas EXCEPT !.start = Current.start, !.end = Current.end]
  /\ Release
  /\ UNCHANGED <<imuBuf, lastImu, lastLidar, envVars, imuIn>>

\* sync_measure when the IMU has not reached the end of the scan: it keeps the copy.
SyncWait ==
  /\ HasBoth
  /\ ~Outdated /\ ~ImuReachesEnd
  /\ meas' = [meas EXCEPT !.start = Current.start, !.end = Current.end]
  /\ pushed' = TRUE
  /\ UNCHANGED <<imuBuf, lidarBuf, lastImu, lastLidar, envVars, imuIn>>

\* sync_measure returns true: meas holds the scan and the samples up to its end.
SyncEmit ==
  /\ HasBoth
  /\ ~Outdated /\ ImuReachesEnd
  /\ LET n == GroupSize(imuBuf, Current.end)
     IN /\ meas' = [start |-> Current.start, end |-> Current.end,
                    imu |-> SubSeq(imuBuf, 1, n)]
        /\ imuBuf' = SubSeq(imuBuf, n + 1, Len(imuBuf))
  /\ lastLidar' = Current.end
  /\ Release
  /\ UNCHANGED <<lastImu, envVars, imuIn>>

SyncNext == \/ \E s \in Scans : StdMsgHandler(s) \/ StdMsgLoopBack(s)
            \/ \E t \in Stamps : ImuInOrder(t) \/ ImuLoopBack(t)
            \/ SyncDrop \/ SyncWait \/ SyncEmit

SyncSpec == SyncInit /\ [][SyncNext]_syncVars
-----------------------------------------------------------------------------
(***************************************************************************)
(* Properties                                                              *)
(***************************************************************************)
\* The copy that a waiting call keeps is the scan at the front of the buffer: the
\* pop after the wait removes the scan that was used.
CopyIsFront == pushed => /\ lidarBuf # <<>>
                         /\ meas.start = Head(lidarBuf).start
                         /\ meas.end = Head(lidarBuf).end

\* A group is the samples of its scan: none of an earlier scan's time, none after
\* the end, and no sample received before the end is left behind or lost.
GroupMatchesScan ==
  [][SyncEmit => LET taken == {meas'.imu[i] : i \in 1..Len(meas'.imu)}
                 IN /\ \A t \in taken : lastLidar <= t /\ t <= meas'.end
                    /\ \A i \in 1..Len(imuIn) :
                         lastLidar < imuIn[i] /\ imuIn[i] < meas'.end => imuIn[i] \in taken]_syncVars
=============================================================================

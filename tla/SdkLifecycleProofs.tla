------------------------- MODULE SdkLifecycleProofs -------------------------
(***************************************************************************)
(* Proofs about SdkLifecycle for every size of the ring, with and without a *)
(* fault port, whenever the signal comes: the destructor of Lidar waits for  *)
(* every thread that uses the object, in every order of the steps.          *)
(***************************************************************************)
EXTENDS SdkLifecycle, TLAPS

(* What each of the joins of the main thread has established. *)

AfterJoinRun      == MainPcs \ {"start", "play", "stop", "joinRun"}
AfterJoinInit     == AfterJoinRun \ {"stopInit", "joinInit"}
AfterJoinRx       == AfterJoinInit \ {"destroy", "joinRx"}
AfterJoinFault    == AfterJoinRx \ {"joinFault"}
AfterJoinParser   == AfterJoinFault \ {"joinParser"}

\* A thread that was joined has ended or was never started, and nobody starts it any more:
\* Run() is created before the signal is looked at, and the threads of Lidar only by
\* InitThread, which is joined first.
JoinInv ==
  /\ main \in AfterJoinRun => Ended(run)
  /\ main \in AfterJoinInit => init = "ended"
  /\ main \in AfterJoinRx => ("rx" \in Receivers => Ended(rx["rx"]))
  /\ main \in AfterJoinFault => \A r \in Receivers : Ended(rx[r])
  /\ main \in AfterJoinParser => Ended(parser)
  /\ main = "exit" => Ended(handler)

LifeInv == TypeOK /\ JoinInv

\* The process starts with the main thread and InitThread alone.
LEMMA InitLifeInv == Init => LifeInv
<1> SUFFICES ASSUME Init PROVE LifeInv
  OBVIOUS
<1>1. ring \in 0..RingCap
  BY LifecycleAssumption DEF Init
<1>2. rx \in [Receivers -> {"none", "receive", "room", "put", "ended"}]
  BY DEF Init
<1>3. isRunning \in BOOLEAN /\ alive \in BOOLEAN /\ initRunning \in BOOLEAN /\ sigRecv \in BOOLEAN
  BY DEF Init
<1>4. TypeOK
  BY <1>1, <1>2, <1>3 DEF Init, TypeOK, MainPcs
<1>5. JoinInv
  BY DEF Init, JoinInv, AfterJoinRun, AfterJoinInit, AfterJoinRx, AfterJoinFault, AfterJoinParser
<1> QED
  BY <1>4, <1>5 DEF LifeInv

\* The steps of the main thread: each join hands its fact on to the next.
LEMMA MainLifeInv == LifeInv /\ MainStep => LifeInv'
<1> SUFFICES ASSUME LifeInv, MainStep PROVE LifeInv'
  OBVIOUS
<1> USE DEF LifeInv, TypeOK, JoinInv, MainPcs, MainTo, AfterJoinRun, AfterJoinInit,
        AfterJoinRx, AfterJoinFault, AfterJoinParser
<1>1. CASE StartReady
  BY <1>1 DEF StartReady
<1>2. CASE StartFailed
  BY <1>2 DEF StartFailed
<1>3. CASE LeavePlay
  BY <1>3 DEF LeavePlay
<1>4. CASE ClearRunFlag
  <2>1. isRunning' \in BOOLEAN
    BY <1>4 DEF ClearRunFlag
  <2> QED
    BY <1>4, <2>1 DEF ClearRunFlag
<1>5. CASE JoinRun
  BY <1>5 DEF JoinRun, Ended
<1>6. CASE StopInit
  <2>1. initRunning' \in BOOLEAN
    BY <1>6 DEF StopInit
  <2> QED
    BY <1>6, <2>1 DEF StopInit
<1>7. CASE JoinInit
  BY <1>7 DEF JoinInit
<1>8. CASE ClearAlive
  BY <1>8 DEF ClearAlive
<1>9. CASE JoinReceiver("rx", "joinRx", "joinFault")
  BY <1>9 DEF JoinReceiver
<1>10. CASE JoinReceiver("rxFault", "joinFault", "joinParser")
  BY <1>10 DEF JoinReceiver, Receivers
<1>11. CASE JoinParser
  BY <1>11 DEF JoinParser
<1>12. CASE NotifyHandler
  BY <1>12 DEF NotifyHandler
<1>13. CASE JoinHandler
  BY <1>13 DEF JoinHandler
<1> QED
  BY <1>1, <1>2, <1>3, <1>4, <1>5, <1>6, <1>7, <1>8, <1>9, <1>10, <1>11, <1>12, <1>13 DEF MainStep

\* The steps of InitThread, which starts the threads of Lidar.
LEMMA InitThreadLifeInv == LifeInv /\ (InitStep \/ ProbeGivesUp) => LifeInv'
<1> SUFFICES ASSUME LifeInv, InitStep \/ ProbeGivesUp PROVE LifeInv'
  OBVIOUS
<1> USE LifecycleAssumption
    DEF LifeInv, TypeOK, JoinInv, MainPcs, Statuses, AfterJoinRun, AfterJoinInit,
        AfterJoinRx, AfterJoinFault, AfterJoinParser
<1>1. CASE InitBegin
  BY <1>1 DEF InitBegin
<1>2. CASE SourceFails
  BY <1>2 DEF SourceFails
<1>3. CASE StartThreads
  BY <1>3 DEF StartThreads
<1>4. CASE ProbePacket
  <2>1. ring' \in 0..RingCap
    BY <1>4 DEF ProbePacket
  <2>2. finish' \subseteq Statuses
    BY <1>4 DEF ProbePacket
  <2> QED
    BY <1>4, <2>1, <2>2 DEF ProbePacket
<1>5. CASE Calibrate
  <2>1. initRunning' \in BOOLEAN
    BY <1>5 DEF Calibrate
  <2> QED
    BY <1>5, <2>1 DEF Calibrate
<1>6. CASE AllFinished
  BY <1>6 DEF AllFinished
<1>7. CASE ProbeGivesUp
  BY <1>7 DEF ProbeGivesUp
<1> QED
  BY <1>1, <1>2, <1>3, <1>4, <1>5, <1>6, <1>7 DEF InitStep

\* The steps of Run() and of the threads of Lidar: none leaves its end again.
LEMMA ThreadLifeInv ==
  ASSUME LifeInv, \/ RunStep \/ (\E r \in Receivers : ReceiverStep(r))
                  \/ ParserEnds \/ TestCondition \/ Block \/ WakeWithWork
  PROVE  LifeInv'
<1> USE LifecycleAssumption
    DEF LifeInv, TypeOK, JoinInv, MainPcs, Ended, AfterJoinRun, AfterJoinInit,
        AfterJoinRx, AfterJoinFault, AfterJoinParser
<1>1. CASE RunStep
  <2>1. CASE RunBegin
    <3>1. isRunning' \in BOOLEAN
      BY <2>1 DEF RunBegin
    <3> QED
      BY <2>1, <3>1 DEF RunBegin
  <2>2. CASE RunTakes
    BY <2>2 DEF RunTakes
  <2>3. CASE RunEnds
    BY <2>3 DEF RunEnds
  <2> QED
    BY <1>1, <2>1, <2>2, <2>3 DEF RunStep
<1>2. ASSUME NEW r \in Receivers, ReceiverStep(r) PROVE LifeInv'
  <2>1. CASE Receive(r)
    BY <2>1 DEF Receive
  <2>2. CASE ReceiverEnds(r)
    BY <2>2 DEF ReceiverEnds
  <2>3. CASE SeesRoom(r)
    BY <2>3 DEF SeesRoom
  <2>4. CASE EmplaceBack(r)
    BY <2>4 DEF EmplaceBack, HasRoom
  <2> QED
    BY <1>2, <2>1, <2>2, <2>3, <2>4 DEF ReceiverStep
<1>3. CASE ParserEnds
  BY <1>3 DEF ParserEnds
<1>4. CASE TestCondition
  BY <1>4 DEF TestCondition
<1>5. CASE Block
  BY <1>5 DEF Block
<1>6. CASE WakeWithWork
  BY <1>6 DEF WakeWithWork
<1> QED
  BY <1>1, <1>2, <1>3, <1>4, <1>5, <1>6

LEMMA LifeInvHolds == Spec => []LifeInv
<1>1. Init => LifeInv
  BY InitLifeInv
<1>2. LifeInv /\ [Next]_vars => LifeInv'
  <2> SUFFICES ASSUME LifeInv, [Next]_vars PROVE LifeInv'
    OBVIOUS
  <2>1. CASE Signal
    BY <2>1 DEF Signal, LifeInv, TypeOK, JoinInv
  <2>2. CASE UNCHANGED vars
    BY <2>2 DEF vars, LifeInv, TypeOK, JoinInv
  <2> QED
    BY <2>1, <2>2, MainLifeInv, InitThreadLifeInv, ThreadLifeInv DEF Next
<1> QED
  BY <1>1, <1>2, PTL DEF Spec
-----------------------------------------------------------------------------
\* When ~Lidar returns, Run(), InitThread, the receive threads, ParserThread and
\* HandleThread have all ended: none uses the object that is freed.
THEOREM NoThreadOutlivesLidar == Spec => []NothingUsesFreedLidar
<1>1. LifeInv => NothingUsesFreedLidar
  BY DEF LifeInv, JoinInv, NothingUsesFreedLidar, Ended, MainPcs, AfterJoinRun,
         AfterJoinInit, AfterJoinRx, AfterJoinFault, AfterJoinParser
<1> QED
  BY <1>1, LifeInvHolds, PTL
=============================================================================

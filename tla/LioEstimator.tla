---------------------------- MODULE LioEstimator ----------------------------
(***************************************************************************)
(* The estimation loop of Super-LIO (super_lio.cpp, ESKF.cpp) on top of     *)
(* SensorSync: the state functions of SuperLIO::process() and the times     *)
(* that the error-state Kalman filter keeps.  Poses and matrices are left   *)
(* out; what remains is which interval of time each call integrates, which  *)
(* states the undistortion interpolates between, and when the forward       *)
(* predictor publishes.  The map goes to MapSaver.                          *)
(*                                                                         *)
(* SuperLIOReLoc (super_lio_reloc.cpp) localises in the map of an earlier    *)
(* run: it aligns a few scans with it, starting from a pose that a user may  *)
(* send, and begins again when that fails.                                  *)
(***************************************************************************)
EXTENDS SensorSync, MapSaver

CONSTANTS InitImu,       \* samples kf_init needs
          MapFrames,     \* scans map_init inserts before it reports success
          MaxForward,    \* longest step of the forward predictor
          Nodes,         \* which of "mapping" and "relocation"
          InitFrames,    \* need_init_frames of the relocalisation
          MaxGuesses     \* bound on the poses sent

ASSUME EstimatorAssumption == /\ InitImu \in Nat \ {0}
                              /\ MapFrames \in Nat \ {0}
                              /\ MaxForward \in Nat \ {0}
                              /\ Nodes \subseteq {"mapping", "relocation"}
                              /\ InitFrames \in Nat \ {0}
                              /\ MaxGuesses \in Nat

VARIABLES
  node,       \* the class of the node
  ended,      \* the main loop is over
  loaded,     \* pcd_loaded: the map of an earlier run is there
  guess,      \* flg_get_init_guess_
  initFrames, \* init_frame_count
  guesses,    \* history: the poses received
  collected,  \* history: for the scans in init_obs_data_, the poses received before
  stateFn,    \* state_fn_
  imuCount,   \* imu_cout of kf_init
  frameNum,   \* frame_num_, up to the end of map initialisation
  initDone,   \* kf_->init_
  imuTime,    \* last_imu_time_
  lastObs,    \* last_obs_time_
  curObs,     \* current_obs_time_
  curTime,    \* current_time_
  fwdTime,    \* forward_time_
  states,     \* the times of propagate_states_
  steps       \* history: the intervals integrated for the last scan

estVars == <<stateFn, imuCount, frameNum, initDone, imuTime, lastObs, curObs,
             curTime, fwdTime, states, steps>>
relocVars == <<node, loaded, guess, initFrames, guesses, collected>>
vars == <<syncVars, estVars, relocVars, mapVars, ended>>

Times == -1..MaxTime

TypeOK == /\ SyncTypeOK
          /\ node \in Nodes /\ {ended, loaded, guess} \subseteq BOOLEAN
          /\ initFrames \in 0..InitFrames /\ guesses \in 0..MaxGuesses
          /\ collected \subseteq 0..guesses
          /\ stateFn \in {"waitKFInit", "waitMapInit", "process"}
          /\ imuCount \in Nat
          /\ frameNum \in 0..MapFrames
          /\ initDone \in BOOLEAN
          /\ {imuTime, lastObs, curObs, curTime, fwdTime} \subseteq Times
          /\ states \in Seq(Times)
          /\ steps \in Seq([from : Times, to : Times])

Init == /\ SyncInit
        /\ node \in Nodes /\ ended = FALSE
        /\ loaded \in {FALSE, node = "relocation"}
        /\ guess = FALSE /\ initFrames = 0 /\ guesses = 0 /\ collected = {}
        /\ MapSaverInit(loaded)
        /\ stateFn = "waitKFInit"
        /\ imuCount = 0
        /\ frameNum = 0
        /\ initDone = FALSE
        /\ imuTime = -1
        /\ lastObs = 0
        /\ curObs = 0
        /\ curTime = 0
        /\ fwdTime = -1
        /\ states = <<>>
        /\ steps = <<>>
-----------------------------------------------------------------------------
\* kf_init: counts the samples of the group; with enough of them SetX stamps the
\* filter with the last sample.
KfInit ==
  /\ imuCount' = imuCount + Len(meas'.imu)
  /\ IF imuCount' < InitImu
     THEN UNCHANGED <<stateFn, imuTime, curTime>>
     ELSE /\ stateFn' = "waitMapInit"
          /\ imuTime' = Last(meas'.imu)
          /\ curTime' = Last(meas'.imu)
  /\ UNCHANGED <<frameNum, initDone, lastObs, curObs, fwdTime, states, steps, relocVars, mapVars>>

\* The map is complete after enough scans.
MapCompleteLate(n) == n > MapFrames     \* mutant
MapComplete(n) == n >= MapFrames

\* map_init: the scan is inserted at the initial pose; the group is not integrated.
MapInit ==
  /\ frameNum' = frameNum + 1
  /\ lastObs' = meas'.end
  /\ IF MapComplete(frameNum')
     THEN stateFn' = "process" /\ initDone' = TRUE
     ELSE UNCHANGED <<stateFn, initDone>>
  /\ UNCHANGED <<imuCount, imuTime, curObs, curTime, fwdTime, states, steps, relocVars, mapVars>>

\* The user sends a pose, as long as the relocalisation listens to it.
InitialPose ==
  /\ node = "relocation" /\ loaded /\ stateFn = "waitKFInit" /\ ~ended
  /\ guesses < MaxGuesses
  /\ guess' = TRUE /\ guesses' = guesses + 1
  /\ UNCHANGED <<syncVars, estVars, node, loaded, initFrames, collected, mapVars, ended>>

\* What has been collected for the alignment is thrown away.
ForgetKeepsScans == initFrames' = 0 /\ imuCount' = 0 /\ UNCHANGED collected       \* mutant
Forget == initFrames' = 0 /\ imuCount' = 0 /\ collected' = {}

\* kf_init of the relocalisation.  A new pose costs the scan; without enough scans or samples
\* it waits for more; else it aligns the scans, which fails without a map.  SetX stamps the
\* filter with -1, and the loaded map leaves memory.
RelocateAgain == /\ guess
                 /\ Forget /\ guess' = FALSE
                 /\ UNCHANGED <<stateFn, imuTime, curTime, mapVars>>

Collect == /\ ~guess
           /\ imuCount' = imuCount + Len(meas'.imu)
           /\ initFrames' = IF initFrames < InitFrames THEN initFrames + 1 ELSE initFrames
           /\ collected' = IF initFrames < InitFrames THEN collected \cup {guesses} ELSE collected

Enough == imuCount + Len(meas'.imu) >= InitImu /\ initFrames + 1 >= InitFrames

CollectMore == Collect /\ ~Enough /\ UNCHANGED <<stateFn, guess, imuTime, curTime, mapVars>>

AlignFails == /\ ~guess /\ Enough
              /\ Forget
              /\ UNCHANGED <<stateFn, guess, imuTime, curTime, mapVars>>

Align == /\ Collect /\ Enough /\ loaded
         /\ stateFn' = "waitMapInit"
         /\ imuTime' = -1 /\ curTime' = -1
         /\ cloud' = <<>>
         /\ UNCHANGED <<guess, interval, waitNum, prepared, fragments, saved, mapFile, fused>>

RelocKfInit ==
  /\ RelocateAgain \/ CollectMore \/ AlignFails \/ Align
  /\ UNCHANGED <<node, loaded, guesses, frameNum, initDone, lastObs, curObs, fwdTime, states, steps>>

\* map_init of the relocalisation has nothing left to do.
RelocMapInit == /\ stateFn' = "process" /\ initDone' = TRUE
                /\ UNCHANGED <<imuCount, frameNum, imuTime, lastObs, curObs, curTime, fwdTime, states,
                               steps, relocVars, mapVars>>

\* ESKF::Predict(imu) of a sample at t, from a record of the filter's times: the
\* interval integrated ends at now and is dt long.
PredictStep(dt, now, t, f) ==
  [imu |-> t, now |-> now, states |-> Append(f.states, now),
   steps |-> Append(f.steps, [from |-> now - dt, to |-> now])]

SkipStep(t, f) == [f EXCEPT !.imu = t, !.states = Append(@, f.now)]

\* Mutants: samples of the scan before are integrated again; the part of an interval
\* that the scan before has integrated is not cut off.
PredictNoSkip(f, t, obs, end) ==
  IF f.imu < 0 THEN SkipStep(t, f)
  ELSE IF f.imu < obs THEN PredictStep(t - obs, t, t, f)
  ELSE IF t > end THEN PredictStep(end - f.imu, end, t, f)
  ELSE PredictStep(t - f.imu, t, t, f)
PredictFromSample(f, t, obs, end) ==
  IF f.imu < 0 \/ t <= obs THEN SkipStep(t, f)
  ELSE IF t > end THEN PredictStep(end - f.imu, end, t, f)
  ELSE PredictStep(t - f.imu, t, t, f)
Predict(f, t, obs, end) ==
  IF f.imu < 0 \/ t <= obs THEN SkipStep(t, f)
  ELSE IF f.imu < obs THEN PredictStep(t - obs, t, t, f)
  ELSE IF t > end THEN PredictStep(end - f.imu, end, t, f)
  ELSE PredictStep(t - f.imu, t, t, f)

\* Propagation_Undistort clears the list of states and pushes the current one.
FirstStatesNone == <<>>     \* mutant
FirstStates == <<curTime>>

\* The loop of Propagation_Undistort over the samples of the group, from the record start.
Integrate(start, group, obs, end) ==
  LET f[i \in 0..Len(group)] ==
        IF i = 0 THEN start ELSE Predict(f[i - 1], group[i], obs, end)
  IN f[Len(group)]

\* stateProcess: Propagation_Undistort integrates the group, Observe fuses the scan
\* (ESKF::Update moves the forward predictor to its end), UpdateMap, Output and caceData.
StateProcess ==
  LET start == [imu |-> imuTime, now |-> curTime, states |-> FirstStates, steps |-> <<>>]
      f     == Integrate(start, meas'.imu, lastObs, meas'.end)
  IN /\ curObs' = meas'.end
     /\ imuTime' = f.imu
     /\ curTime' = f.now
     /\ states' = f.states
     /\ steps' = f.steps
     /\ fwdTime' = meas'.end
     /\ lastObs' = meas'.end
     /\ Caches(meas'.end)
     /\ UNCHANGED <<stateFn, imuCount, frameNum, initDone, relocVars>>

\* SuperLIO::process(): nothing happens unless sync_measure delivers a scan.
Process ==
  /\ ~ended /\ UNCHANGED ended
  /\ \/ (SyncDrop \/ SyncWait) /\ UNCHANGED <<estVars, relocVars, mapVars>>
     \/ SyncEmit /\ stateFn = "waitKFInit" /\ node = "mapping" /\ KfInit
     \/ SyncEmit /\ stateFn = "waitKFInit" /\ node = "relocation" /\ RelocKfInit
     \/ SyncEmit /\ stateFn = "waitMapInit" /\ node = "mapping" /\ MapInit
     \/ SyncEmit /\ stateFn = "waitMapInit" /\ node = "relocation" /\ RelocMapInit
     \/ SyncEmit /\ stateFn = "process" /\ StateProcess

\* A signal ends the main loop, and saveMap follows.  Without a map to save the end shows
\* nothing and is left out.
Ends == /\ ~ended /\ ended' = TRUE
        /\ SaveMapMerged \/ SaveMapWhole
        /\ UNCHANGED <<syncVars, estVars, relocVars>>

\* ESKF::Predict(imu, state_imu, state_robo): the forward predictor publishes when it
\* is initialised, started, and the step is not too long.
ForwardOk(t) == initDone /\ fwdTime >= 0 /\ fwdTime <= t /\ t - fwdTime <= MaxForward

ForwardPredict(t) ==
  fwdTime' = IF ForwardOk(t) \/ (initDone /\ fwdTime < 0) THEN t ELSE fwdTime

\* imuHandler: the sample is buffered, then the forward predictor runs; after a
\* backward jump it does not run.
ImuHandler(t) ==
  \/ /\ ImuInOrder(t)
     /\ ForwardPredict(t)
     /\ UNCHANGED <<stateFn, imuCount, frameNum, initDone, imuTime, lastObs, curObs, curTime,
                    states, steps>>
  \/ ImuLoopBack(t) /\ UNCHANGED estVars

ScanArrives == /\ ~ended
               /\ \E s \in Scans : StdMsgHandler(s) \/ StdMsgLoopBack(s)
               /\ UNCHANGED <<estVars, relocVars, mapVars, ended>>
ImuArrives  == /\ ~ended
               /\ \E t \in Stamps : ImuHandler(t)
               /\ UNCHANGED <<relocVars, mapVars, ended>>

Next == ScanArrives \/ ImuArrives \/ InitialPose \/ Process \/ Ends

Spec == Init /\ [][Next]_vars

\* The node spins at 500 Hz and calls process() each time; the IMU bridge keeps
\* publishing.  Scans need not arrive.
LiveSpec == Spec /\ WF_vars(Process) /\ WF_vars(ImuArrives)
-----------------------------------------------------------------------------
(***************************************************************************)
(* Properties                                                              *)
(***************************************************************************)
\* The filter never integrates backwards and never integrates a moment twice, within a scan
\* (IntervalsForward) or from one scan to the next, also after the IMU clock jumped back.
IntervalsForward ==
  /\ \A i \in 1..Len(steps) : steps[i].from <= steps[i].to
  /\ \A i \in 1..(Len(steps) - 1) : steps[i].to <= steps[i + 1].from

MomentsIntegratedOnce ==
  /\ []IntervalsForward
  /\ [][steps' # steps /\ steps # <<>> /\ steps' # <<>> => Last(steps).to <= steps'[1].from]_vars

\* The odometry that Output publishes is stamped with current_time_, which never
\* goes back once the filter runs.
OdomTimeMonotone == [][stateFn = "process" => curTime' >= curTime]_vars

\* The undistortion finds for each point that is not later than the last state two
\* consecutive states around it: its search neither falls back on the first pair,
\* which would extrapolate, nor reads past the end of a one-element list.
UndistortBracketed ==
  [][SyncEmit /\ stateFn = "process" =>
       \A q \in meas'.start..meas'.end :
         (\E j \in 1..Len(states') : q <= states'[j]) =>
            \E i \in 1..(Len(states') - 1) : states'[i] < q /\ q <= states'[i + 1]]_vars

\* Without backward jumps the forward predictor is never behind the fused state, so
\* that it never extrapolates over a scan that has been used.
ForwardAheadOfFused == initDone /\ fwdTime >= 0 => fwdTime >= lastObs /\ lastObs <= lastImu

\* The relocalisation aligns only scans that were processed after the last pose the user
\* has sent, whenever it comes.
GuessHeeded == ~guess => collected \subseteq {guesses}

\* When the node ends, the map on disk has each fused scan of this run once and nothing of
\* an earlier run, whatever the interval and whatever lay in the directory.  Excused are a
\* run that has fused nothing, which may merge old fragments, and the interval zero, whose
\* fragments are never merged.
MapIsThisRun == ended /\ fused # <<>> /\ interval # 0 => mapFile = fused

\* Every scan received is used or dropped while the node runs and the IMU keeps sending:
\* scans cannot arrive for ever here, and again and again none is waiting.
EveryScanLeaves == []<>(lidarBuf = <<>> \/ ended)
=============================================================================

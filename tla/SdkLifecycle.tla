---------------------------- MODULE SdkLifecycle ----------------------------
(***************************************************************************)
(* Start and shutdown of the Hesai driver process (hesai_ros_driver_node,   *)
(* NodeManager, HesaiLidarSdk, Lidar): the main thread calls Init, Start,   *)
(* and after a signal Stop, then the destructor of Lidar; InitThread,       *)
(* Run(), the one or two receive threads, ParserThread and a handle thread  *)
(* go on beside it and communicate through plain flags, the ring of         *)
(* received packets and one condition variable.                            *)
(***************************************************************************)
EXTENDS Integers, FiniteSets

CONSTANTS RingCap,          \* kPacketBufferSize, the room for received packets
          FaultSource,      \* a separate port for fault messages is configured
          StopAfterRunning, \* Stop() is not called before Run() has set its flag
          PromptBlock       \* a handle thread does not sleep between testing its
                            \* condition and blocking while the destructor joins

ASSUME LifecycleAssumption == /\ RingCap \in Nat \ {0}
                              /\ FaultSource \in BOOLEAN
                              /\ StopAfterRunning \in BOOLEAN
                              /\ PromptBlock \in BOOLEAN

Receivers == IF FaultSource THEN {"rx", "rxFault"} ELSE {"rx"}
Statuses  == {"fault", "pointCloud", "all", "fail"}

VARIABLES
  sigRecv,      \* sig_recv of the node
  main,         \* where the main thread is
  init,         \* where InitThread is
  run,          \* where Run() is
  rx,           \* where each receive thread is
  parser,       \* ParserThread
  handler,      \* HandleThread
  isRunning,    \* is_thread_runing_ of HesaiLidarSdk
  alive,        \* running_ of Lidar
  initRunning,  \* init_running
  finish,       \* the members of init_finish_ that are true
  ring          \* the number of packets in origin_packets_buffer_

vars == <<sigRecv, main, init, run, rx, parser, handler, isRunning, alive, initRunning,
          finish, ring>>

MainPcs == {"start", "play", "stop", "joinRun", "stopInit", "joinInit", "destroy",
            "joinRx", "joinFault", "joinParser", "notify", "joinHandler", "exit"}

TypeOK == /\ sigRecv \in BOOLEAN
          /\ main \in MainPcs
          /\ init \in {"begin", "source", "probe", "calibrate", "finish", "ended"}
          /\ run \in {"none", "created", "loop", "ended"}
          /\ rx \in [Receivers -> {"none", "receive", "room", "put", "ended"}]
          /\ parser \in {"none", "loop", "ended"}
          /\ handler \in {"none", "test", "sleep", "blocked", "ended"}
          /\ isRunning \in BOOLEAN
          /\ alive \in BOOLEAN
          /\ initRunning \in BOOLEAN
          /\ finish \subseteq Statuses
          /\ ring \in 0..RingCap

\* HesaiLidarSdk::Init has created the Lidar and InitThread.
Init == /\ sigRecv = FALSE
        /\ main = "start"
        /\ init = "begin"
        /\ run = "none"
        /\ rx = [r \in Receivers |-> "none"]
        /\ parser = "none"
        /\ handler = "none"
        /\ isRunning = FALSE
        /\ alive = TRUE
        /\ initRunning = TRUE
        /\ finish = {}
        /\ ring = 0
-----------------------------------------------------------------------------
(* The main thread *)

\* SIGINT only sets a flag that the loop of main reads.
Signal == /\ ~sigRecv
          /\ sigRecv' = TRUE
          /\ UNCHANGED <<main, init, run, rx, parser, handler, isRunning, alive, initRunning,
                         finish, ring>>

MainTo(from, to) == main = from /\ main' = to

\* Start() polls until the basic initialisation is complete and creates Run() ...
StartReady == /\ MainTo("start", "play")
              /\ finish \cap {"fault", "all"} # {}
              /\ run' = "created"
              /\ UNCHANGED <<sigRecv, init, rx, parser, handler, isRunning, alive, initRunning,
                             finish, ring>>

\* ... or has failed; the driver then idles in main without Run().
StartFailed == /\ MainTo("start", "play")
               /\ "fail" \in finish
               /\ UNCHANGED <<sigRecv, init, run, rx, parser, handler, isRunning, alive,
                              initRunning, finish, ring>>

LeavePlay == /\ MainTo("play", "stop")
             /\ sigRecv
             /\ StopAfterRunning => run # "created"
             /\ UNCHANGED <<sigRecv, init, run, rx, parser, handler, isRunning, alive,
                            initRunning, finish, ring>>

\* HesaiLidarSdk::Stop.
ClearRunFlag == /\ MainTo("stop", "joinRun")
                /\ isRunning' = FALSE
                /\ UNCHANGED <<sigRecv, init, run, rx, parser, handler, alive, initRunning,
                               finish, ring>>

JoinRun == /\ MainTo("joinRun", "stopInit")
           /\ run \in {"none", "ended"}
           /\ UNCHANGED <<sigRecv, init, run, rx, parser, handler, isRunning, alive,
                          initRunning, finish, ring>>

StopInit == /\ MainTo("stopInit", "joinInit")
            /\ initRunning' = FALSE
            /\ UNCHANGED <<sigRecv, init, run, rx, parser, handler, isRunning, alive, finish, ring>>

JoinInit == /\ MainTo("joinInit", "destroy")
            /\ init = "ended"
            /\ UNCHANGED <<sigRecv, init, run, rx, parser, handler, isRunning, alive,
                           initRunning, finish, ring>>

\* ~Lidar: clears the flags, then joins thread after thread.
ClearAlive == /\ MainTo("destroy", "joinRx")
              /\ alive' = FALSE
              /\ initRunning' = FALSE
              /\ UNCHANGED <<sigRecv, init, run, rx, parser, handler, isRunning, finish, ring>>

Ended(s) == s \in {"none", "ended"}

JoinReceiver(r, from, to) ==
  /\ MainTo(from, to)
  /\ r \in Receivers => Ended(rx[r])
  /\ UNCHANGED <<sigRecv, init, run, rx, parser, handler, isRunning, alive, initRunning,
                 finish, ring>>

JoinParser == /\ MainTo("joinParser", "notify")
              /\ Ended(parser)
              /\ UNCHANGED <<sigRecv, init, run, rx, parser, handler, isRunning, alive,
                             initRunning, finish, ring>>

NotifyHandlerMissing ==    \* mutant
  /\ MainTo("notify", "joinHandler")
  /\ UNCHANGED <<sigRecv, init, run, rx, parser, handler, isRunning, alive, initRunning,
                 finish, ring>>

\* notify_all without the mutex: it wakes a thread that is blocked, not one that has
\* tested its condition and is about to block.
NotifyHandler == /\ MainTo("notify", "joinHandler")
                 /\ PromptBlock => handler # "sleep"
                 /\ handler' = IF handler = "blocked" THEN "test" ELSE handler
                 /\ UNCHANGED <<sigRecv, init, run, rx, parser, isRunning, alive, initRunning,
                                finish, ring>>

JoinHandlerSkipped ==      \* mutant: the thread is detached
  /\ MainTo("joinHandler", "exit")
  /\ UNCHANGED <<sigRecv, init, run, rx, parser, handler, isRunning, alive, initRunning,
                 finish, ring>>
JoinHandler == /\ MainTo("joinHandler", "exit")
               /\ Ended(handler)
               /\ UNCHANGED <<sigRecv, init, run, rx, parser, handler, isRunning, alive,
                              initRunning, finish, ring>>

MainStep == \/ StartReady \/ StartFailed \/ LeavePlay \/ ClearRunFlag \/ JoinRun \/ StopInit
            \/ JoinInit \/ ClearAlive
            \/ JoinReceiver("rx", "joinRx", "joinFault")
            \/ JoinReceiver("rxFault", "joinFault", "joinParser")
            \/ JoinParser \/ NotifyHandler \/ JoinHandler
-----------------------------------------------------------------------------
(* InitThread: Lidar::Init, then SetAllFinishReady *)

InitBegin == /\ init = "begin"
             /\ initRunning' = TRUE
             /\ init' = "source"
             /\ UNCHANGED <<sigRecv, main, run, rx, parser, handler, isRunning, alive, finish, ring>>

SourceFailsSilently ==     \* mutant
  /\ init = "source"
  /\ init' = "ended"
  /\ UNCHANGED <<sigRecv, main, run, rx, parser, handler, isRunning, alive, initRunning,
                 finish, ring>>

\* The source does not open: no thread is started.
SourceFails == /\ init = "source"
               /\ finish' = finish \cup {"fail"}
               /\ init' = "ended"
               /\ UNCHANGED <<sigRecv, main, run, rx, parser, handler, isRunning, alive,
                              initRunning, ring>>

\* SetThreadNum starts the receive, parser and handle threads.
StartThreads == /\ init = "source"
                /\ rx' = [r \in Receivers |-> "receive"]
                /\ parser' = "loop"
                /\ handler' = "test"
                /\ init' = "probe"
                /\ UNCHANGED <<sigRecv, main, run, isRunning, alive, initRunning, finish, ring>>

\* The first valid packet creates the parser: FaultMessParse is set.
ProbePacket == /\ init = "probe"
               /\ initRunning
               /\ ring > 0
               /\ ring' = ring - 1
               /\ \/ finish' = finish \cup {"fault"} /\ init' = "calibrate"
                  \/ UNCHANGED <<finish, init>>       \* a packet of no known lidar
               /\ UNCHANGED <<sigRecv, main, run, rx, parser, handler, isRunning, alive,
                              initRunning>>

\* recv_point_cloud_timeout, or StopInit.
ProbeGivesUp == /\ init = "probe"
                /\ finish' = finish \cup {"fail"}
                /\ init' = "ended"
                /\ UNCHANGED <<sigRecv, main, run, rx, parser, handler, isRunning, alive,
                               initRunning, ring>>

\* The PTC connection, its timeout or StopInit ends the wait; the angle corrections
\* are loaded from the lidar or from the file.
Calibrate == /\ init = "calibrate"
             /\ finish' = finish \cup {"pointCloud"}
             /\ initRunning' = FALSE
             /\ init' = "finish"
             /\ UNCHANGED <<sigRecv, main, run, rx, parser, handler, isRunning, alive, ring>>

AllFinished == /\ init = "finish"
               /\ finish' = finish \cup {"all"}
               /\ init' = "ended"
               /\ UNCHANGED <<sigRecv, main, run, rx, parser, handler, isRunning, alive,
                              initRunning, ring>>

InitStep == InitBegin \/ SourceFails \/ StartThreads \/ ProbePacket \/ Calibrate \/ AllFinished
-----------------------------------------------------------------------------
(* Run() *)

RunBegin == /\ run = "created"
            /\ isRunning' = TRUE
            /\ run' = "loop"
            /\ UNCHANGED <<sigRecv, main, init, rx, parser, handler, alive, initRunning, finish, ring>>

\* One turn of the loop takes a packet; what it does with it is FramePipeline's.
RunTakes == /\ run = "loop" /\ isRunning
            /\ ring > 0
            /\ ring' = ring - 1
            /\ UNCHANGED <<sigRecv, main, init, run, rx, parser, handler, isRunning, alive,
                           initRunning, finish>>

RunEnds == /\ run = "loop" /\ ~isRunning
           /\ run' = "ended"
           /\ UNCHANGED <<sigRecv, main, init, rx, parser, handler, isRunning, alive, initRunning,
                          finish, ring>>

RunStep == RunBegin \/ RunTakes \/ RunEnds
-----------------------------------------------------------------------------
(* The receive threads, ParserThread, HandleThread *)

\* A datagram arrives.  The fault thread does not read before Init allows it to
\* (source_fault_message_waiting_).
Receive(r) == /\ rx[r] = "receive" /\ alive
              /\ r = "rxFault" => "fault" \in finish
              /\ rx' = [rx EXCEPT ![r] = "room"]
              /\ UNCHANGED <<sigRecv, main, init, run, parser, handler, isRunning, alive,
                             initRunning, finish, ring>>

ReceiverEnds(r) == /\ rx[r] \in {"receive", "room"} /\ ~alive
                   /\ rx' = [rx EXCEPT ![r] = "ended"]
                   /\ UNCHANGED <<sigRecv, main, init, run, parser, handler, isRunning, alive,
                                  initRunning, finish, ring>>

HasRoom == ring < RingCap

\* The ring is polled for room, then written by another call that waits for room.
SeesRoom(r) == /\ rx[r] = "room" /\ alive
               /\ HasRoom
               /\ rx' = [rx EXCEPT ![r] = "put"]
               /\ UNCHANGED <<sigRecv, main, init, run, parser, handler, isRunning, alive,
                              initRunning, finish, ring>>

EmplaceBack(r) == /\ rx[r] = "put"
                  /\ HasRoom
                  /\ ring' = ring + 1
                  /\ rx' = [rx EXCEPT ![r] = "receive"]
                  /\ UNCHANGED <<sigRecv, main, init, run, parser, handler, isRunning, alive,
                                 initRunning, finish>>

ReceiverStep(r) == Receive(r) \/ ReceiverEnds(r) \/ SeesRoom(r) \/ EmplaceBack(r)

ParserEnds == /\ parser = "loop" /\ ~alive
              /\ parser' = "ended"
              /\ UNCHANGED <<sigRecv, main, init, run, rx, handler, isRunning, alive, initRunning,
                             finish, ring>>

\* wait(lock, predicate): the test of running_ with an empty buffer, then the block.
TestCondition == /\ handler = "test"
                 /\ handler' = IF alive THEN "sleep" ELSE "ended"
                 /\ UNCHANGED <<sigRecv, main, init, run, rx, parser, isRunning, alive,
                                initRunning, finish, ring>>

Block == /\ handler = "sleep"
         /\ handler' = "blocked"
         /\ UNCHANGED <<sigRecv, main, init, run, rx, parser, isRunning, alive, initRunning,
                        finish, ring>>

\* ParserThread hands over an index: notify_one.  The conversion returns to the test.
WakeWithWork == /\ handler = "blocked" /\ parser = "loop" /\ run = "loop"
                /\ handler' = "test"
                /\ UNCHANGED <<sigRecv, main, init, run, rx, parser, isRunning, alive,
                               initRunning, finish, ring>>

Next == \/ Signal \/ MainStep \/ InitStep \/ ProbeGivesUp \/ RunStep
        \/ \E r \in Receivers : ReceiverStep(r)
        \/ ParserEnds \/ TestCondition \/ Block \/ WakeWithWork

Spec == Init /\ [][Next]_vars

\* Each thread is scheduled; the lidar sends, and sooner or later a packet of it
\* creates the parser (ProbePacket's first outcome).  No timeout need expire and no
\* signal need come.
LiveSpec == /\ Spec
            /\ WF_vars(MainStep) /\ WF_vars(InitStep) /\ WF_vars(RunStep)
            /\ SF_vars(ProbePacket /\ finish' # finish)
            /\ \A r \in {"rx", "rxFault"} : WF_vars(r \in Receivers /\ ReceiverStep(r))
            /\ WF_vars(ParserEnds) /\ WF_vars(TestCondition) /\ WF_vars(Block)
-----------------------------------------------------------------------------
(***************************************************************************)
(* Properties                                                              *)
(***************************************************************************)
\* A receive thread saw room that another receive thread has taken, and nobody
\* empties the ring any more: emplace_back waits for ever.
StuckPush == /\ Ended(run) /\ ring = RingCap
             /\ \E r \in Receivers : rx[r] = "put"

\* After a signal the process ends.  The only exception is two receive threads
\* that race for the last place of a full ring after Run() has ended.
ShutdownCompletes == sigRecv ~> (main = "exit" \/ StuckPush)

\* When ~Lidar returns, no thread is left that uses the object.
NothingUsesFreedLidar ==
  main = "exit" => /\ Ended(run) /\ Ended(init) /\ Ended(parser) /\ Ended(handler)
                   /\ \A r \in Receivers : Ended(rx[r])

\* Start() polls without a limit: it returns because InitThread announces a result
\* on each of its paths.
StartReturns == main = "start" ~> main # "start"

\* The comment of Stop(), "stop process thread": the join after the flag is cleared
\* comes to an end.
StopJoins == main = "joinRun" ~> main # "joinRun"
=============================================================================
